---------------------- MODULE PublisherConfirmsProofs ----------------------
(***************************************************************************)
(* Proofs about PublisherConfirms, for any number of publishers, tags and  *)
(* channels.                                                               *)
(***************************************************************************)
EXTENDS PublisherConfirms, SequenceTheorems, TLAPS

LEMMA ConstantFacts ==
  /\ 1 \in Channels
  /\ Channels \subseteq Nat /\ Tags \subseteq Nat
  /\ \A c \in Channels : c >= 1
  /\ NoAnswer \notin Answers /\ NoMessage \notin Messages
BY ConfirmsAssumption DEF Channels, Tags, NoAnswer, Answers, NoMessage, Messages

\* The entry of a tag is a publisher or None.
LEMMA EmptyType == Empty \in [Tags -> Publishers \cup {None}]
BY DEF Empty

-----------------------------------------------------------------------------
(* Type correctness. *)
LEMMA TypeInit == Init => TypeOK
<1> SUFFICES ASSUME Init PROVE TypeOK
    OBVIOUS
<1>1. wire \in [Channels -> Seq(Answers)]
      BY DEF Init
<1>2. current \in Channels /\ seq \in [Channels -> 0..MaxTag]
      BY ConstantFacts, ConfirmsAssumption DEF Init
<1>3. outcome \in [Channels -> [Tags -> Outcomes]]
      BY DEF Init, Outcomes
<1>4. held \in [Channels -> Answers \cup {NoAnswer}] /\ pending \in [Tags -> Publishers \cup {None}]
      BY EmptyType DEF Init
<1>5. /\ \A c \in Channels : handler[c] = "none"
      /\ \A p \in Publishers : pc[p] = "idle"
      BY DEF Init
<1>6. /\ open \in [Channels -> BOOLEAN]
      /\ handler \in [Channels -> {"none", "select", "deliver", "done"}]
      /\ pc \in [Publishers -> {"idle", "wait", "expired"}]
      /\ mine \in [Publishers -> Messages \cup {NoMessage}]
      /\ box \in [Publishers -> {"empty", "ack", "nack", "closed"}]
      BY DEF Init
<1>7. QED
      BY <1>1, <1>2, <1>3, <1>4, <1>5, <1>6 DEF Init, TypeOK

LEMMA PublisherType == TypeOK /\ (\E p \in Publishers : PublisherStep(p)) => TypeOK'
<1> SUFFICES ASSUME TypeOK, NEW p \in Publishers, PublisherStep(p)
             PROVE  TypeOK'
    OBVIOUS
<1> USE DEF TypeOK, amqp, lifecycle
<1>1. CASE Publish(p)
  <2>1. seq[current] + 1 \in Tags /\ Message(current, seq[current] + 1) \in Messages
        BY <1>1, ConstantFacts, ConfirmsAssumption DEF Publish, Tags, Message, Messages
  <2>2. QED
        BY <1>1, <2>1, ConstantFacts, ConfirmsAssumption DEF Publish, Tags
<1>2. CASE TakeAnswer(p)
      BY <1>2 DEF TakeAnswer, Return
<1>3. CASE Timeout(p)
      BY <1>3 DEF Timeout
<1>4. CASE Forget(p)
  <2>1. mine[p].tag \in Tags
        BY <1>4 DEF Forget, Messages
  <2>2. QED
        BY <1>4, <2>1 DEF Forget, Return, DropEntry
<1>5. QED
      BY <1>1, <1>2, <1>3, <1>4 DEF PublisherStep

LEMMA HandlerType ==
  TypeOK /\ (\E c \in Channels : HandlerStep(c) \/ Answer(c)) => TypeOK'
<1> SUFFICES ASSUME TypeOK, NEW c \in Channels, HandlerStep(c) \/ Answer(c)
             PROVE  TypeOK'
    OBVIOUS
<1> USE DEF TypeOK, amqp, lifecycle, waiters
<1>1. CASE Read(c)
  <2>1. wire[c] \in Seq(Answers) /\ wire[c] # << >>
        BY <1>1 DEF Read
  <2>2. Head(wire[c]) \in Answers /\ Tail(wire[c]) \in Seq(Answers)
        BY <2>1, HeadTailProperties
  <2>3. QED
        BY <1>1, <2>2 DEF Read
<1>2. CASE Deliver(c)
  <2>1. held[c] \in Answers /\ held[c].tag \in Tags
        BY <1>2 DEF Deliver, Answers
  <2>2. QED
        BY <1>2, <2>1 DEF Deliver, Unregister
<1>3. CASE Quit(c)
      BY <1>3, EmptyType DEF Quit
<1>4. CASE ChannelClosed(c)
      BY <1>4 DEF ChannelClosed
<1>5. CASE Answer(c)
  <2>1. PICK n \in 1..seq[c], result \in Outcomes \ {"unknown"} :
          /\ outcome' = [outcome EXCEPT ![c][n] = result]
          /\ wire' = IF handler[c] = "none" THEN wire
                     ELSE [wire EXCEPT ![c] = Append(@, [tag |-> n, ack |-> result \in Acked])]
        BY <1>5 DEF Answer
  <2>2. n \in Tags
        BY ConfirmsAssumption DEF Tags
  <2>3. [tag |-> n, ack |-> result \in Acked] \in Answers
        BY <2>2 DEF Answers
  <2>4. Append(wire[c], [tag |-> n, ack |-> result \in Acked]) \in Seq(Answers)
        BY <2>3, AppendProperties
  <2>5. wire' \in [Channels -> Seq(Answers)]
        BY <2>1, <2>4
  <2>6. outcome' \in [Channels -> [Tags -> Outcomes]]
        BY <2>1, <2>2
  <2>7. QED
        BY <1>5, <2>5, <2>6 DEF Answer
<1>6. QED
      BY <1>1, <1>2, <1>3, <1>4, <1>5 DEF HandlerStep

Lifecycle == LoseConnection \/ Start \/ Stop \/ StopEnds \/ ReconnectStep

LEMMA LifecycleType == TypeOK /\ Lifecycle => TypeOK'
<1> SUFFICES ASSUME TypeOK, Lifecycle PROVE TypeOK'
    OBVIOUS
<1> USE DEF TypeOK, amqp, waiters, lifecycle, Close
<1>1. CASE LoseConnection
      BY <1>1 DEF LoseConnection
<1>2. CASE Start
      BY <1>2 DEF Start, Spawn
<1>3. CASE Stop
      BY <1>3 DEF Stop
<1>4. CASE StopEnds
      BY <1>4 DEF StopEnds
<1>5. CASE BeginReconnect
      BY <1>5 DEF BeginReconnect
<1>6. CASE Reconnected
  <2>1. current + 1 \in Channels
        BY <1>6, ConfirmsAssumption DEF Reconnected, Channels
  <2>2. QED
        BY <1>6, <2>1, EmptyType DEF Reconnected, Spawn
<1>7. CASE ReconnectFails
      BY <1>7 DEF ReconnectFails
<1>8. QED
      BY <1>1, <1>2, <1>3, <1>4, <1>5, <1>6, <1>7 DEF Lifecycle, ReconnectStep

(* The state is well typed whatever publishers, handlers, the broker and   *)
(* Reconnect do: in particular a publisher that waits has a message.       *)
THEOREM ConfirmsTypeCorrect == Spec => []TypeOK
<1>1. TypeOK /\ [Next]_vars => TypeOK'
  <2>1. CASE UNCHANGED vars
        BY <2>1 DEF vars, TypeOK
  <2>2. CASE Next
        BY <2>2, PublisherType, HandlerType, LifecycleType DEF Next, Lifecycle
  <2>3. QED
        BY <2>1, <2>2
<1>2. QED
      BY <1>1, TypeInit, PTL DEF Spec

-----------------------------------------------------------------------------
(* Channels that are not open yet are untouched, tags are used once. *)
Fresh == OpenedOnly /\ DistinctMessages

LEMMA FreshInit == Init => Fresh
<1> SUFFICES ASSUME Init PROVE Fresh
    OBVIOUS
<1>1. current = 1 /\ \A p \in Publishers : pc[p] = "idle" /\ mine[p].chan = 0
      BY DEF Init, NoMessage
<1>2. \A c \in Channels : c > 1 =>
        handler[c] = "none" /\ seq[c] = 0 /\ ~ open[c] /\ wire[c] = << >> /\ held[c] = NoAnswer
  <2> SUFFICES ASSUME NEW c \in Channels, c > 1
               PROVE  handler[c] = "none" /\ seq[c] = 0 /\ ~ open[c] /\ wire[c] = << >> /\ held[c] = NoAnswer
      OBVIOUS
  <2>1. c # 1
        BY ConstantFacts
  <2>2. QED
        BY <2>1 DEF Init
<1>3. QED
      BY <1>1, <1>2 DEF Fresh, OpenedOnly, DistinctMessages

LEMMA FreshPublisher ==
  TypeOK /\ Fresh /\ (\E p \in Publishers : PublisherStep(p)) => Fresh'
<1> SUFFICES ASSUME TypeOK, Fresh, NEW p \in Publishers, PublisherStep(p)
             PROVE  Fresh'
    OBVIOUS
<1> USE DEF Fresh, OpenedOnly, DistinctMessages, amqp, lifecycle
<1>0. current \in Nat /\ current \in Channels
      BY ConstantFacts DEF TypeOK
<1>1. CASE Publish(p)
  <2>0. seq[current] \in Nat
        BY <1>0, ConfirmsAssumption DEF TypeOK
  <2> DEFINE n == seq[current] + 1
  <2>1. /\ n \in Nat
        /\ n = seq[current] + 1
        /\ seq' = [seq EXCEPT ![current] = n]
        /\ mine' = [mine EXCEPT ![p] = Message(current, n)]
        BY <2>0, <1>1 DEF Publish
  <2> HIDE DEF n
  <2>2. /\ mine'[p].chan = current /\ mine'[p].tag = n
        /\ \A q \in Publishers \ {p} : mine'[q] = mine[q] /\ pc'[q] = pc[q]
        BY <1>1, <2>1 DEF Publish, TypeOK, Message
  <2>3. /\ seq'[current] = n
        /\ \A c \in Channels \ {current} : seq'[c] = seq[c]
        BY <1>0, <2>1 DEF TypeOK
  <2>4. \A q \in Publishers \ {p} : pc[q] # "idle" => mine[q] \in Messages
        BY DEF TypeOK
  <2>5. \A q \in Publishers \ {p} : pc[q] # "idle" => mine'[q] # mine'[p]
        BY <1>0, <2>1, <2>2, <2>4, ConstantFacts DEF Messages, TypeOK
  <2>6. DistinctMessages'
        BY <2>2, <2>5
  <2>7. \A q \in Publishers : pc'[q] # "idle" => mine'[q].tag <= seq'[mine'[q].chan]
    <3> SUFFICES ASSUME NEW q \in Publishers \ {p}, pc[q] # "idle"
                 PROVE  mine[q].tag <= seq'[mine[q].chan]
        BY <2>1, <2>2, <2>3
    <3>1. mine[q].chan \in Channels /\ mine[q].tag \in Nat
          BY <2>4, ConstantFacts DEF Messages
    <3>2. seq[mine[q].chan] \in Nat /\ mine[q].tag <= seq[mine[q].chan]
          BY <3>1 DEF TypeOK
    <3>3. QED
          BY <3>1, <3>2, <2>1, <2>3
  <2>8. \A q \in Publishers : mine'[q].chan <= current'
        BY <1>0, <1>1, <2>2 DEF Publish
  <2>9. \A c \in Channels : c > current' =>
          handler'[c] = "none" /\ seq'[c] = 0 /\ ~ open'[c] /\ wire'[c] = << >> /\ held'[c] = NoAnswer
        BY <1>0, <1>1, <2>3, ConstantFacts DEF Publish
  <2>10. QED
        BY <2>6, <2>7, <2>8, <2>9
<1>2. ASSUME NEW ok, Return(p, ok), UNCHANGED <<amqp, wire, handler, held>>
      PROVE  Fresh'
  <2>1. /\ pc'[p] = "idle" /\ mine'[p].chan = 0
        /\ \A q \in Publishers \ {p} : mine'[q] = mine[q] /\ pc'[q] = pc[q]
        BY <1>2 DEF Return, TypeOK, NoMessage
  <2>2. QED
        BY <1>0, <1>2, <2>1
<1>3. CASE TakeAnswer(p)
      BY <1>2, <1>3 DEF TakeAnswer
<1>4. CASE Timeout(p)
      BY <1>4 DEF Timeout, TypeOK
<1>5. CASE Forget(p)
      BY <1>2, <1>5 DEF Forget
<1>6. QED
      BY <1>1, <1>3, <1>4, <1>5 DEF PublisherStep

LEMMA FreshHandler ==
  TypeOK /\ Fresh /\ (\E c \in Channels : HandlerStep(c) \/ Answer(c)) => Fresh'
<1> SUFFICES ASSUME TypeOK, Fresh, NEW c \in Channels, HandlerStep(c) \/ Answer(c)
             PROVE  Fresh'
    OBVIOUS
<1> USE DEF Fresh, OpenedOnly, DistinctMessages, amqp, lifecycle, waiters
<1>0. current \in Nat /\ c \in Nat
      BY ConstantFacts DEF TypeOK
<1>1. CASE Read(c)
      BY <1>0, <1>1 DEF Read, TypeOK
<1>2. CASE Deliver(c)
      BY <1>0, <1>2 DEF Deliver, TypeOK
<1>3. CASE Quit(c)
      BY <1>0, <1>3 DEF Quit, TypeOK
<1>4. CASE ChannelClosed(c)
      BY <1>0, <1>4 DEF ChannelClosed, TypeOK
<1>5. CASE Answer(c)
  <2>1. ~ (c > current)
        BY <1>5 DEF Answer
  <2>2. \A d \in Channels : d > current => wire'[d] = wire[d]
        BY <1>5, <2>1 DEF Answer, TypeOK
  <2>3. QED
        BY <1>5, <2>2 DEF Answer
<1>6. QED
      BY <1>1, <1>2, <1>3, <1>4, <1>5 DEF HandlerStep

LEMMA FreshLifecycle == TypeOK /\ Fresh /\ Lifecycle => Fresh'
<1> SUFFICES ASSUME TypeOK, Fresh, Lifecycle PROVE Fresh'
    OBVIOUS
<1> USE DEF Fresh, OpenedOnly, DistinctMessages, amqp, waiters, lifecycle, Close
<1>0. current \in Nat /\ current \in Channels /\ Channels \subseteq Nat
      BY ConstantFacts DEF TypeOK
<1>1. CASE LoseConnection
      BY <1>0, <1>1 DEF LoseConnection, TypeOK
<1>2. CASE Start
      BY <1>0, <1>2 DEF Start, Spawn, TypeOK
<1>3. CASE Stop
      BY <1>3 DEF Stop
<1>4. CASE StopEnds
      BY <1>0, <1>4 DEF StopEnds, TypeOK
<1>5. CASE BeginReconnect
      BY <1>0, <1>5 DEF BeginReconnect, TypeOK
<1>6. CASE Reconnected
  <2>1. \A c \in Channels \ {current + 1} : handler'[c] = handler[c] /\ open'[c] = open[c]
        BY <1>6 DEF Reconnected, Spawn, TypeOK
  <2>2. \A p \in Publishers : mine[p].chan \in Nat
    <3>1. Messages \subseteq [chan : Nat, tag : Nat] /\ NoMessage \in [chan : Nat, tag : Nat]
          BY ConstantFacts DEF Messages, NoMessage
    <3>2. mine \in [Publishers -> [chan : Nat, tag : Nat]]
          BY <3>1 DEF TypeOK
    <3>3. QED
          BY <3>2
  <2>3. \A p \in Publishers : mine[p].chan <= current + 1
        BY <1>0, <2>2
  <2>4. current' = current + 1 /\ UNCHANGED <<seq, wire, held, pc, mine>>
        BY <1>6 DEF Reconnected
  <2>5. ASSUME NEW c \in Channels, c > current + 1
        PROVE  handler'[c] = "none" /\ seq'[c] = 0 /\ ~ open'[c] /\ wire'[c] = << >> /\ held'[c] = NoAnswer
    <3>1. c > current /\ c # current + 1
          BY <1>0, <2>5
    <3>2. handler[c] = "none" /\ seq[c] = 0 /\ ~ open[c] /\ wire[c] = << >> /\ held[c] = NoAnswer
          BY <3>1
    <3>3. QED
          BY <2>1, <2>4, <3>1, <3>2
  <2>6. OpenedOnly'
        BY <2>3, <2>4, <2>5
  <2>7. DistinctMessages'
        BY <2>4
  <2>8. QED
        BY <2>6, <2>7
<1>7. CASE ReconnectFails
      BY <1>7 DEF ReconnectFails
<1>8. QED
      BY <1>1, <1>2, <1>3, <1>4, <1>5, <1>6, <1>7 DEF Lifecycle, ReconnectStep

-----------------------------------------------------------------------------
(* The map: an entry stands for an open wait, a wait for an entry. *)
Registry == RegisteredIsOpen /\ WaiterIsRegistered

LEMMA RegistryInit == Init => Registry
BY DEF Init, Registry, RegisteredIsOpen, WaiterIsRegistered, Empty

\* Somebody idle, or told something, is registered nowhere.
LEMMA Unlisted ==
  ASSUME TypeOK, Registry, NEW p \in Publishers, pc[p] = "idle" \/ box[p] # "empty"
  PROVE  \A n \in Tags : pending[n] # p
BY ConfirmsAssumption DEF Registry, RegisteredIsOpen

\* The message of a publish that has not returned.
LEMMA MineFacts ==
  ASSUME TypeOK, Fresh, NEW p \in Publishers, pc[p] # "idle"
  PROVE  /\ mine[p] \in Messages
         /\ mine[p].tag \in Tags /\ mine[p].chan \in Channels
         /\ mine[p] = Message(mine[p].chan, mine[p].tag)
         /\ mine[p].chan <= current
         /\ (current = 1 => mine[p].chan = 1)
<1>1. mine[p] \in Messages
      BY DEF TypeOK
<1>2. /\ mine[p].tag \in Tags /\ mine[p].chan \in Channels
      /\ mine[p] = Message(mine[p].chan, mine[p].tag)
      BY <1>1 DEF Messages, Message
<1>3. mine[p].chan <= current
      BY DEF Fresh, OpenedOnly
<1>4. current = 1 => mine[p].chan = 1
      BY <1>2, <1>3, ConstantFacts
<1>5. QED
      BY <1>1, <1>2, <1>3, <1>4

\* Whoever is registered is registered once.
LEMMA RegisteredOnce ==
  ASSUME TypeOK, Registry, NEW n \in Tags, pending[n] # None
  PROVE  /\ pending[n] \in Publishers
         /\ mine[pending[n]].tag = n /\ mine[pending[n]].chan = current
         /\ \A m \in Tags \ {n} : pending[m] # pending[n]
<1>1. pending[n] \in Publishers
      BY DEF TypeOK
<1>2. \A m \in Tags : pending[m] = pending[n] => mine[pending[n]] = Message(current, m)
      BY DEF Registry, RegisteredIsOpen
<1>3. \A m \in Tags : Message(current, m).tag = m /\ Message(current, m).chan = current
      BY DEF Message
<1>4. QED
      BY <1>1, <1>2, <1>3

LEMMA RegistryPublisher ==
  TypeOK /\ Fresh /\ Registry /\ (\E p \in Publishers : PublisherStep(p)) => Registry'
<1> SUFFICES ASSUME TypeOK, Fresh, Registry, NEW p \in Publishers, PublisherStep(p)
             PROVE  Registry'
    OBVIOUS
<1> USE DEF Registry, RegisteredIsOpen, WaiterIsRegistered, amqp, lifecycle
<1>0. current \in Nat /\ current \in Channels /\ None \notin Publishers
      BY ConstantFacts, ConfirmsAssumption DEF TypeOK
<1>1. CASE Publish(p)
  <2> DEFINE n == seq[current] + 1
  <2>1. /\ n \in Tags
        /\ pending' = [pending EXCEPT ![n] = p]
        /\ mine' = [mine EXCEPT ![p] = Message(current, n)]
        BY <1>0, <1>1, ConfirmsAssumption DEF Publish, TypeOK, Tags
  <2>2. \A q \in Publishers : pc[q] # "idle" /\ mine[q].chan = current => mine[q].tag # n
        BY <1>0, ConfirmsAssumption DEF Fresh, OpenedOnly, TypeOK, Messages, Tags
  <2> HIDE DEF n
  <2>3. \A m \in Tags : pending[m] # p
        BY <1>1, Unlisted DEF Publish
  <2>4. /\ pending'[n] = p /\ mine'[p] = Message(current, n)
        /\ pc'[p] = "wait" /\ box'[p] = "empty"
        /\ \A m \in Tags \ {n} : pending'[m] = pending[m]
        /\ \A q \in Publishers \ {p} : mine'[q] = mine[q] /\ pc'[q] = pc[q] /\ box'[q] = box[q]
        /\ current' = current
        BY <1>1, <2>1 DEF Publish, TypeOK
  <2>5. RegisteredIsOpen'
    <3> SUFFICES ASSUME NEW m \in Tags, pending'[m] # None
                 PROVE  /\ pc'[pending'[m]] \in {"wait", "expired"}
                        /\ mine'[pending'[m]] = Message(current, m)
                        /\ box'[pending'[m]] = "empty"
        BY <2>4
    <3>1. CASE m = n
          BY <2>4, <3>1
    <3>2. CASE m # n
      <4>1. pending'[m] = pending[m] /\ pending[m] \in Publishers \ {p}
            BY <2>3, <2>4, <3>2, RegisteredOnce
      <4>2. QED
            BY <2>4, <4>1
    <3>3. QED
          BY <3>1, <3>2
  <2>6. ASSUME current = 1, NEW q \in Publishers \ {p}, pc[q] = "wait", box[q] = "empty"
        PROVE  pending'[mine[q].tag] = q
    <3>0. pc[q] # "idle"
          BY <2>6
    <3>1. mine[q] \in Messages /\ mine[q].tag \in Tags /\ mine[q].chan = 1
          BY <2>6, <3>0, MineFacts
    <3>2. QED
          BY <2>2, <2>4, <2>6, <3>1
  <2>7. WaiterIsRegistered'
        BY <2>4, <2>6 DEF Message
  <2>8. QED
        BY <2>5, <2>7
<1>2. CASE TakeAnswer(p)
  <2>1. \A m \in Tags : pending[m] # p
        BY <1>2, Unlisted DEF TakeAnswer
  <2>2. /\ pc'[p] = "idle" /\ UNCHANGED <<pending, current>>
        /\ \A q \in Publishers \ {p} : mine'[q] = mine[q] /\ pc'[q] = pc[q] /\ box'[q] = box[q]
        BY <1>2 DEF TakeAnswer, Return, TypeOK
  <2>3. \A m \in Tags : pending[m] # None => pending[m] \in Publishers \ {p}
        BY <2>1, RegisteredOnce
  <2>4. RegisteredIsOpen'
        BY <2>2, <2>3
  <2>5. WaiterIsRegistered'
        BY <2>2
  <2>6. QED
        BY <2>4, <2>5
<1>3. CASE Timeout(p)
      BY <1>3 DEF Timeout, TypeOK
<1>4. CASE Forget(p)
  <2>1. mine[p].tag \in Tags
        BY <1>4 DEF Forget, TypeOK, Messages
  <2>2. /\ pc'[p] = "idle" /\ current' = current
        /\ pending'[mine[p].tag] = None
        /\ \A m \in Tags \ {mine[p].tag} : pending'[m] = pending[m]
        /\ \A q \in Publishers \ {p} : mine'[q] = mine[q] /\ pc'[q] = pc[q] /\ box'[q] = box[q]
        BY <1>4, <2>1 DEF Forget, Return, DropEntry, TypeOK
  <2>3. \A m \in Tags \ {mine[p].tag} : pending[m] # None => pending[m] \in Publishers \ {p}
        BY RegisteredOnce
  <2>4. RegisteredIsOpen'
        BY <2>2, <2>3
  <2>5. ASSUME current = 1, NEW q \in Publishers \ {p}, pc[q] = "wait", box[q] = "empty"
        PROVE  pending'[mine[q].tag] = q
    <3>0. pc[q] # "idle" /\ pc[p] # "idle"
          BY <1>4, <2>5 DEF Forget
    <3>1. /\ mine[q] \in Messages /\ mine[q].tag \in Tags /\ mine[q].chan = 1
          /\ mine[p] \in Messages /\ mine[p].chan = 1
          BY <2>5, <3>0, MineFacts
    <3>2. mine[q] # mine[p]
          BY <1>4, <2>5 DEF Fresh, DistinctMessages, Forget
    <3>3. mine[q].tag # mine[p].tag
          BY <3>1, <3>2 DEF Messages
    <3>4. QED
          BY <2>2, <2>5, <3>1, <3>3
  <2>6. WaiterIsRegistered'
        BY <2>2, <2>5
  <2>7. QED
        BY <2>4, <2>6
<1>5. QED
      BY <1>1, <1>2, <1>3, <1>4 DEF PublisherStep

LEMMA RegistryHandler ==
  TypeOK /\ Fresh /\ Registry /\ (\E c \in Channels : HandlerStep(c) \/ Answer(c)) => Registry'
<1> SUFFICES ASSUME TypeOK, Fresh, Registry, NEW c \in Channels, HandlerStep(c) \/ Answer(c)
             PROVE  Registry'
    OBVIOUS
<1> USE DEF Registry, RegisteredIsOpen, WaiterIsRegistered, amqp, lifecycle, waiters
<1>1. CASE Read(c)
      BY <1>1 DEF Read
<1>2. CASE Deliver(c)
  <2>1. held[c].tag \in Tags
        BY <1>2 DEF Deliver, TypeOK, Answers
  <2>2. CASE pending[held[c].tag] = None
        BY <1>2, <2>2 DEF Deliver
  <2>3. CASE pending[held[c].tag] # None
    <3>1. PICK p \in Publishers : p = pending[held[c].tag]
          BY <2>1, <2>3 DEF TypeOK
    <3>2. /\ pending'[held[c].tag] = None /\ box'[p] # "empty"
          /\ \A m \in Tags \ {held[c].tag} : pending'[m] = pending[m]
          /\ \A q \in Publishers \ {p} : box'[q] = box[q]
          /\ UNCHANGED <<current, pc, mine>>
          BY <1>2, <2>1, <2>3, <3>1 DEF Deliver, Unregister, TypeOK
    <3>3. mine[p] = Message(current, held[c].tag)
          BY <2>1, <2>3, <3>1
    <3>4. \A m \in Tags \ {held[c].tag} : pending[m] # None => pending[m] \in Publishers \ {p}
          BY <2>1, <2>3, <3>1, RegisteredOnce
    <3>5. RegisteredIsOpen'
          BY <3>2, <3>4
    <3>6. ASSUME current = 1, NEW q \in Publishers \ {p}, pc[q] = "wait", box[q] = "empty"
          PROVE  pending'[mine[q].tag] = q
      <4>1. mine[q].tag \in Tags
            BY <3>6 DEF TypeOK, Messages
      <4>2. QED
            BY <3>1, <3>2, <3>6, <4>1
    <3>7. WaiterIsRegistered'
          BY <3>2, <3>6
    <3>8. QED
          BY <3>5, <3>7
  <2>4. QED
        BY <2>2, <2>3
<1>3. CASE Quit(c)
  <2>1. \A m \in Tags : pending'[m] = None
        BY <1>3 DEF Quit, Empty
  <2>2. ASSUME current = 1, NEW q \in Publishers, pc[q] = "wait"
        PROVE  box'[q] # "empty"
    <3>1. mine[q].tag \in Tags
          BY <2>2 DEF TypeOK, Messages
    <3>2. box[q] = "empty" => q \in Registered
          BY <2>2, <3>1 DEF Registered
    <3>3. QED
          BY <1>3, <3>2 DEF Quit
  <2>3. UNCHANGED <<current, pc, mine>>
        BY <1>3 DEF Quit
  <2>4. QED
        BY <2>1, <2>2, <2>3
<1>4. CASE ChannelClosed(c)
      BY <1>4 DEF ChannelClosed
<1>5. CASE Answer(c)
      BY <1>5 DEF Answer
<1>6. QED
      BY <1>1, <1>2, <1>3, <1>4, <1>5 DEF HandlerStep

LEMMA RegistryLifecycle == TypeOK /\ Registry /\ Lifecycle => Registry'
<1> SUFFICES ASSUME TypeOK, Registry, Lifecycle PROVE Registry'
    OBVIOUS
<1> USE DEF Registry, RegisteredIsOpen, WaiterIsRegistered, amqp, lifecycle, waiters
<1>1. CASE Reconnected
  <2>1. current' = current + 1 /\ current \in Nat /\ current >= 1
        BY <1>1, ConstantFacts DEF Reconnected, TypeOK
  <2>2. \A m \in Tags : pending'[m] = None
        BY <1>1 DEF Reconnected, Empty
  <2>3. QED
        BY <2>1, <2>2
<1>2. CASE LoseConnection \/ Start \/ Stop \/ StopEnds \/ BeginReconnect \/ ReconnectFails
  <2>1. UNCHANGED <<current, pending, pc, mine, box>>
        BY <1>2 DEF LoseConnection, Start, Stop, StopEnds, BeginReconnect, ReconnectFails
  <2>2. QED
        BY <2>1
<1>3. QED
      BY <1>1, <1>2 DEF Lifecycle, ReconnectStep

-----------------------------------------------------------------------------
(* Answers are true: on the wire, in a handler's hand, in a box, and as    *)
(* what PublishWithConfirm returned.                                       *)
Truth == AnswersAreTrue /\ BoxIsTrue /\ ReportedWasAcked

LEMMA TruthInit == Init => Truth
BY DEF Init, Truth, AnswersAreTrue, BoxIsTrue, ReportedWasAcked, NoAnswer

LEMMA TruthPublisher ==
  TypeOK /\ Truth /\ (\E p \in Publishers : PublisherStep(p)) => Truth'
<1> SUFFICES ASSUME TypeOK, Truth, NEW p \in Publishers, PublisherStep(p)
             PROVE  Truth'
    OBVIOUS
<1> USE DEF Truth, amqp, lifecycle
<1>1. UNCHANGED <<outcome, wire, held>>
      BY DEF PublisherStep, Publish, TakeAnswer, Timeout, Forget
<1>2. AnswersAreTrue'
      BY <1>1 DEF AnswersAreTrue
<1>3. BoxIsTrue'
  <2>1. /\ \A q \in Publishers \ {p} : mine'[q] = mine[q] /\ pc'[q] = pc[q] /\ box'[q] = box[q]
        /\ \/ pc'[p] = "idle" \/ box'[p] = "empty"
           \/ pc[p] # "idle" /\ box'[p] = box[p] /\ mine'[p] = mine[p]
        BY DEF PublisherStep, Publish, TakeAnswer, Timeout, Forget, Return, TypeOK
  <2>2. QED
        BY <1>1, <2>1 DEF BoxIsTrue, AckedBy
<1>4. reported' = reported \/ (box[p] = "ack" /\ pc[p] = "wait" /\ reported' = reported \cup {mine[p]})
      BY DEF PublisherStep, Publish, TakeAnswer, Timeout, Forget, Return, SaysAck
<1>5. ReportedWasAcked'
      BY <1>1, <1>4 DEF ReportedWasAcked, BoxIsTrue, AckedBy
<1>6. QED
      BY <1>2, <1>3, <1>5

LEMMA TruthHandler ==
  TypeOK /\ Fresh /\ Registry /\ Truth /\ (\E c \in Channels : HandlerStep(c)) => Truth'
<1> SUFFICES ASSUME TypeOK, Fresh, Registry, Truth, NEW c \in Channels, HandlerStep(c)
             PROVE  Truth'
    OBVIOUS
<1> USE DEF Truth, amqp, lifecycle, waiters
<1>0. UNCHANGED <<outcome, reported, pc, mine>>
      BY DEF HandlerStep, Read, Deliver, Quit, ChannelClosed
<1>1. ReportedWasAcked'
      BY <1>0 DEF ReportedWasAcked, AckedBy
<1>2. CASE Read(c)
  <2>1. wire[c] \in Seq(Answers) /\ wire[c] # << >>
        BY <1>2 DEF Read, TypeOK
  <2>2. /\ Head(wire[c]) = wire[c][1] /\ Len(Tail(wire[c])) = Len(wire[c]) - 1
        /\ \A i \in 1..Len(Tail(wire[c])) : Tail(wire[c])[i] = wire[c][i + 1]
        /\ Len(wire[c]) \in Nat \ {0}
        BY <2>1, HeadTailProperties, EmptySeq
  <2>3. held'[c] = Head(wire[c]) /\ wire'[c] = Tail(wire[c])
        BY <1>2 DEF Read, TypeOK
  <2>4. \A d \in Channels \ {c} : held'[d] = held[d] /\ wire'[d] = wire[d]
        BY <1>2 DEF Read, TypeOK
  <2>5. \A i \in 1..Len(wire'[c]) : wire'[c][i].ack => outcome'[c][wire'[c][i].tag] \in Acked
    <3> SUFFICES ASSUME NEW i \in 1..Len(Tail(wire[c])), wire[c][i + 1].ack
                 PROVE  outcome[c][wire[c][i + 1].tag] \in Acked
        BY <1>0, <2>2, <2>3
    <3>1. i + 1 \in 1..Len(wire[c])
          BY <2>2
    <3>2. QED
          BY <3>1 DEF AnswersAreTrue
  <2>6. held'[c].ack => outcome'[c][held'[c].tag] \in Acked
    <3>1. 1 \in 1..Len(wire[c])
          BY <2>2
    <3>2. QED
          BY <1>0, <2>2, <2>3, <3>1 DEF AnswersAreTrue
  <2>7. AnswersAreTrue'
        BY <1>0, <2>4, <2>5, <2>6 DEF AnswersAreTrue
  <2>8. BoxIsTrue'
        BY <1>0, <1>2 DEF Read, BoxIsTrue, AckedBy
  <2>9. QED
        BY <1>1, <2>7, <2>8
<1>3. CASE Deliver(c)
  <2>1. held[c].tag \in Tags /\ held[c] \in Answers
        BY <1>3 DEF Deliver, TypeOK, Answers
  <2>2. c <= current /\ c \in 1..current /\ current \in Nat
        BY <1>3, ConstantFacts DEF Fresh, OpenedOnly, Deliver, TypeOK
  <2>3. AnswersAreTrue'
    <3>1. /\ wire' = wire /\ ~ held'[c].ack
          /\ \A d \in Channels \ {c} : held'[d] = held[d]
          BY <1>3 DEF Deliver, TypeOK, NoAnswer
    <3>2. QED
          BY <1>0, <3>1 DEF AnswersAreTrue
  <2>4. CASE pending[held[c].tag] = None
        BY <1>0, <1>1, <1>3, <2>3, <2>4 DEF Deliver, BoxIsTrue, AckedBy
  <2>5. CASE pending[held[c].tag] # None
    <3>1. PICK p \in Publishers : p = pending[held[c].tag]
          BY <2>1, <2>5 DEF TypeOK
    <3>2. /\ box'[p] = "ack" => held[c].ack
          /\ \A q \in Publishers \ {p} : box'[q] = box[q]
          BY <1>3, <2>5, <3>1 DEF Deliver, TypeOK
    <3>3. mine[p].chan = current /\ mine[p].tag = held[c].tag
          BY <2>1, <2>5, <3>1, RegisteredOnce
    <3>4. held[c].ack => AckedBy(mine[p])
          BY <2>2, <3>3 DEF AckedBy, AnswersAreTrue
    <3>5. BoxIsTrue'
          BY <1>0, <3>2, <3>4 DEF BoxIsTrue, AckedBy
    <3>6. QED
          BY <1>1, <2>3, <3>5
  <2>6. QED
        BY <2>4, <2>5
<1>4. CASE Quit(c)
  <2>1. \A q \in Publishers : box'[q] = "ack" => box[q] = "ack"
        BY <1>4 DEF Quit
  <2>2. QED
        BY <1>0, <1>1, <1>4, <2>1 DEF Quit, AnswersAreTrue, BoxIsTrue, AckedBy
<1>5. CASE ChannelClosed(c)
      BY <1>1, <1>5 DEF ChannelClosed, AnswersAreTrue, BoxIsTrue, AckedBy
<1>6. QED
      BY <1>2, <1>3, <1>4, <1>5 DEF HandlerStep

LEMMA TruthAnswer == TypeOK /\ Fresh /\ Truth /\ (\E c \in Channels : Answer(c)) => Truth'
<1> SUFFICES ASSUME TypeOK, Fresh, Truth, NEW c \in Channels, Answer(c)
             PROVE  Truth'
    OBVIOUS
<1> USE DEF Truth, amqp, lifecycle, waiters
<1>1. PICK n \in 1..seq[c], result \in Outcomes \ {"unknown"} :
        /\ Answered(c) = 1..(n - 1)
        /\ outcome' = [outcome EXCEPT ![c][n] = result]
        /\ wire' = IF handler[c] = "none" THEN wire
                   ELSE [wire EXCEPT ![c] = Append(@, [tag |-> n, ack |-> result \in Acked])]
      BY DEF Answer
<1>2. n \in Tags /\ outcome[c][n] = "unknown"
  <2>1. seq[c] \in 0..MaxTag
        BY DEF TypeOK
  <2>2. n \in Tags
        BY <1>1, <2>1, ConfirmsAssumption DEF Tags
  <2>3. n \notin Answered(c)
        BY <1>1, <2>2 DEF Tags
  <2>4. QED
        BY <2>2, <2>3 DEF Answered
<1>3. /\ outcome'[c][n] = result
      /\ \A d \in Channels, m \in Tags : d # c \/ m # n => outcome'[d][m] = outcome[d][m]
      BY <1>1, <1>2 DEF TypeOK
\* What was acked stays acked.
<1>4. \A d \in Channels, m \in Tags : outcome[d][m] \in Acked => outcome'[d][m] \in Acked
      BY <1>2, <1>3 DEF Acked
<1>5. \A m \in Messages : AckedBy(m) => AckedBy(m)'
      BY <1>4, ConfirmsAssumption DEF AckedBy, Messages, Channels
<1>6. UNCHANGED <<held, mine, box, pc, reported>>
      BY DEF Answer
<1>7. BoxIsTrue' /\ ReportedWasAcked'
      BY <1>5, <1>6 DEF BoxIsTrue, ReportedWasAcked, TypeOK
<1>8. \A d \in Channels : held'[d].ack => outcome'[d][held'[d].tag] \in Acked
  <2> SUFFICES ASSUME NEW d \in Channels, held[d].ack
               PROVE  outcome'[d][held[d].tag] \in Acked
      BY <1>6
  <2>1. held[d] \in Answers \/ held[d] = NoAnswer
        BY DEF TypeOK
  <2>2. held[d].tag \in Tags
        BY <2>1 DEF Answers, NoAnswer
  <2>3. outcome[d][held[d].tag] \in Acked
        BY DEF AnswersAreTrue
  <2>4. QED
        BY <1>4, <2>2, <2>3
<1>9. \A d \in Channels : \A i \in 1..Len(wire[d]) : wire[d][i] \in Answers
      BY ElementOfSeq DEF TypeOK
<1>10. \A d \in Channels : \A i \in 1..Len(wire[d]) : wire[d][i].ack =>
         outcome'[d][wire[d][i].tag] \in Acked
      BY <1>4, <1>9 DEF AnswersAreTrue, Answers
<1>11. \A d \in Channels : \A i \in 1..Len(wire'[d]) : wire'[d][i].ack =>
         outcome'[d][wire'[d][i].tag] \in Acked
  <2>1. CASE wire' = wire
        BY <1>10, <2>1
  <2>2. CASE wire' = [wire EXCEPT ![c] = Append(@, [tag |-> n, ack |-> result \in Acked])]
    <3> DEFINE a == [tag |-> n, ack |-> result \in Acked]
    <3>0. a \in Answers
          BY <1>2 DEF Answers
    <3>00. wire[c] \in Seq(Answers)
          BY DEF TypeOK
    <3>1. /\ Len(wire'[c]) = Len(wire[c]) + 1 /\ Len(wire[c]) \in Nat
          /\ \A i \in 1..Len(wire[c]) : wire'[c][i] = wire[c][i]
          /\ wire'[c][Len(wire[c]) + 1] = a
          BY <2>2, <3>0, <3>00, AppendProperties, LenProperties DEF TypeOK
    <3>2. \A d \in Channels \ {c} : wire'[d] = wire[d]
          BY <2>2 DEF TypeOK
    <3>3. \A i \in 1..Len(wire'[c]) : i \in 1..Len(wire[c]) \/ i = Len(wire[c]) + 1
          BY <3>1
    <3>4. a.ack => outcome'[c][a.tag] \in Acked
          BY <1>3
    <3> HIDE DEF a
    <3>5. \A i \in 1..Len(wire'[c]) : wire'[c][i].ack => outcome'[c][wire'[c][i].tag] \in Acked
          BY <1>10, <3>1, <3>3, <3>4
    <3>6. QED
          BY <1>10, <3>2, <3>5
  <2>3. QED
        BY <1>1, <2>1, <2>2
<1>12. QED
      BY <1>7, <1>8, <1>11 DEF AnswersAreTrue

LEMMA TruthLifecycle == Truth /\ Lifecycle => Truth'
BY DEF Truth, AnswersAreTrue, BoxIsTrue, ReportedWasAcked, AckedBy, Lifecycle, ReconnectStep,
  LoseConnection, Start, Stop, StopEnds, BeginReconnect, Reconnected, ReconnectFails,
  amqp, waiters, lifecycle

-----------------------------------------------------------------------------
(* All of the inductive invariant: who is registered, who waits, and what  *)
(* every answer under way says.                                            *)
THEOREM ConfirmsInvariant == Spec => []ConfirmInv
<1>1. Init => ConfirmInv
      BY TypeInit, FreshInit, RegistryInit, TruthInit DEF ConfirmInv, Fresh, Registry, Truth
<1>2. ConfirmInv /\ [Next]_vars => ConfirmInv'
  <2> SUFFICES ASSUME ConfirmInv, [Next]_vars
               PROVE  TypeOK' /\ Fresh' /\ Registry' /\ Truth'
      BY DEF ConfirmInv, Fresh, Registry, Truth
  <2>0. TypeOK /\ Fresh /\ Registry /\ Truth
        BY DEF ConfirmInv, Fresh, Registry, Truth
  <2>1. CASE UNCHANGED vars
        BY <2>1 DEF vars, Fresh, Registry, Truth, ConfirmInv, TypeOK, OpenedOnly, DistinctMessages, RegisteredIsOpen,
          WaiterIsRegistered, AnswersAreTrue, BoxIsTrue, ReportedWasAcked, AckedBy
  <2>2. CASE \E p \in Publishers : PublisherStep(p)
        BY <2>0, <2>2, PublisherType, FreshPublisher, RegistryPublisher, TruthPublisher
  <2>3. CASE \E c \in Channels : HandlerStep(c) \/ Answer(c)
    <3>1. Truth'
          BY <2>0, <2>3, TruthHandler, TruthAnswer
    <3>2. QED
          BY <2>0, <2>3, <3>1, HandlerType, FreshHandler, RegistryHandler
  <2>4. CASE Lifecycle
        BY <2>0, <2>4, LifecycleType, FreshLifecycle, RegistryLifecycle, TruthLifecycle
  <2>5. QED
        BY <2>1, <2>2, <2>3, <2>4 DEF Next, Lifecycle
<1>3. QED
      BY <1>1, <1>2, PTL DEF Spec

(* The confirmation handler never sends to a full or closed confirmChan,   *)
(* nor closes one twice: it cannot block under publishMutex, or panic.     *)
THEOREM HandlerNeverBlocks == Spec => []RegisteredIsOpen
<1>1. ConfirmInv => RegisteredIsOpen
      BY DEF ConfirmInv
<1>2. QED
      BY <1>1, ConfirmsInvariant, PTL

(* Until a Reconnect, who waits unanswered is registered: no other caller, *)
(* timeout or answer can take its answer away.                             *)
THEOREM NoWaiterForgotten == Spec => []WaiterIsRegistered
<1>1. ConfirmInv => WaiterIsRegistered
      BY DEF ConfirmInv
<1>2. QED
      BY <1>1, ConfirmsInvariant, PTL

(* PublishWithConfirm succeeds only after an ack for its tag, on its own   *)
(* channel or an earlier one.                                              *)
THEOREM SuccessWasAcked == Spec => []ReportedWasAcked
<1>1. ConfirmInv => ReportedWasAcked
      BY DEF ConfirmInv
<1>2. QED
      BY <1>1, ConfirmsInvariant, PTL
=============================================================================
