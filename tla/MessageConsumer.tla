-------------------------- MODULE MessageConsumer --------------------------
(***************************************************************************)
(* The RabbitMQ consumers of app/extensions/queue_consumer: QueueConsumer  *)
(* (__init__.py) and MessageProcessor (message_processor.py).              *)
(*                                                                         *)
(* Each consumer takes a message, commits a MsgLog row for it, sends the   *)
(* acknowledgement, reads the row back and calls the handlers through a    *)
(* blinker signal.  What can go wrong between these steps: the process     *)
(* dies, the connection drops with an acknowledgement under way, the       *)
(* database refuses the row, a handler raises.  The broker hands the       *)
(* messages of a lost connection out again.                                *)
(***************************************************************************)
EXTENDS Naturals, Sequences, FiniteSets

CONSTANTS
  Message,      \* the messages published to the queue
  Consumer,     \* the consumer processes on the queue
  NoMessage,    \* no message taken
  Debug,        \* those started with debug=True
  MaxFailures   \* bound on crashes, lost connections and database errors

ASSUME ConsumerAssumption ==
  /\ Debug \subseteq Consumer
  /\ NoMessage \notin Message
  /\ MaxFailures \in Nat
  /\ Consumer \cap {"unpublished", "ready", "gone"} = {}

VARIABLES
  broker,     \* unpublished, ready, held by a consumer, or gone
  acks,       \* the acknowledgements a connection carries, in order
  connected,  \* the consumers whose connection is up
  pc,         \* where a consumer is in _on_msg_received
  current,    \* the message it has taken
  log,        \* the committed MsgLog rows, with what became of their handlers
  row,        \* the row of a consumer's current message
  failures

consumerVars == <<broker, acks, connected, pc, current, log, row, failures>>

-----------------------------------------------------------------------------

ConsumerInit ==
  /\ broker = [m \in Message |-> "unpublished"]
  /\ acks = [c \in Consumer |-> <<>>]
  /\ connected = Consumer
  /\ pc = [c \in Consumer |-> "idle"]
  /\ current = [c \in Consumer |-> NoMessage]
  /\ log = <<>>
  /\ row = [c \in Consumer |-> 0]
  /\ failures = 0

Publish(m) ==
  /\ broker[m] = "unpublished"
  /\ broker' = [broker EXCEPT ![m] = "ready"]
  /\ UNCHANGED <<acks, connected, pc, current, log, row, failures>>

\* Mutant of Receive: the queue is consumed without acknowledgements.
ReceiveUnacknowledged(c, m) ==
  /\ pc[c] = "idle" /\ c \in connected
  /\ broker[m] = "ready"
  /\ broker' = [broker EXCEPT ![m] = "gone"]
  /\ pc' = [pc EXCEPT ![c] = "received"]
  /\ current' = [current EXCEPT ![c] = m]
  /\ UNCHANGED <<acks, connected, log, row, failures>>

\* The loop of run: the next message of the queue.
Receive(c, m) ==
  /\ pc[c] = "idle" /\ c \in connected
  /\ broker[m] = "ready"
  /\ broker' = [broker EXCEPT ![m] = c]
  /\ pc' = [pc EXCEPT ![c] = "received"]
  /\ current' = [current EXCEPT ![c] = m]
  /\ UNCHANGED <<acks, connected, log, row, failures>>

\* Mutant of Save: the row gets no status.
SaveWithoutStatus(c) ==
  /\ pc[c] = "received"
  /\ log' = Append(log, [msg |-> current[c], status |-> "none", handler |-> "uncalled"])
  /\ row' = [row EXCEPT ![c] = Len(log) + 1]
  /\ pc' = [pc EXCEPT ![c] = "saved"]
  /\ UNCHANGED <<broker, acks, connected, current, failures>>

\* _save_message_to_db: a row with status init, committed in a session of
\* its own.
Save(c) ==
  /\ pc[c] = "received"
  /\ log' = Append(log, [msg |-> current[c], status |-> "init", handler |-> "uncalled"])
  /\ row' = [row EXCEPT ![c] = Len(log) + 1]
  /\ pc' = [pc EXCEPT ![c] = "saved"]
  /\ UNCHANGED <<broker, acks, connected, current, failures>>

\* Mutant of Ack: msg.ack() is missing.
AckForgotten(c) ==
  /\ pc[c] = "saved" /\ c \in connected
  /\ pc' = [pc EXCEPT ![c] = "acked"]
  /\ UNCHANGED <<broker, acks, connected, current, log, row, failures>>

\* msg.ack(): the frame is under way.
Ack(c) ==
  /\ pc[c] = "saved" /\ c \in connected
  /\ acks' = [acks EXCEPT ![c] = Append(@, current[c])]
  /\ pc' = [pc EXCEPT ![c] = "acked"]
  /\ UNCHANGED <<broker, connected, current, log, row, failures>>

AckArrives(c) ==
  /\ acks[c] # <<>>
  /\ acks' = [acks EXCEPT ![c] = Tail(@)]
  /\ broker' = [broker EXCEPT ![Head(acks[c])] = "gone"]
  /\ UNCHANGED <<connected, pc, current, log, row, failures>>

\* The consumer asks for the next message.
Idle(c) ==
  /\ pc' = [pc EXCEPT ![c] = "idle"]
  /\ current' = [current EXCEPT ![c] = NoMessage]
  /\ row' = [row EXCEPT ![c] = 0]

\* Mutant of Process: the row is not found and process returns.
ProcessNotFound(c) ==
  /\ pc[c] = "acked"
  /\ Idle(c)
  /\ UNCHANGED <<broker, acks, connected, log, failures>>

\* MessageProcessor reads the row and process sends the signal.
Process(c) ==
  /\ pc[c] = "acked"
  /\ log' = [log EXCEPT ![row[c]].handler = "called"]
  /\ pc' = [pc EXCEPT ![c] = "processing"]
  /\ UNCHANGED <<broker, acks, connected, current, row, failures>>

\* What the broker and the wire are left with when c's connection ends.
Disconnect(c) ==
  /\ connected' = connected \ {c}
  /\ broker' = [m \in Message |-> IF broker[m] = c THEN "ready" ELSE broker[m]]
  /\ acks' = [acks EXCEPT ![c] = <<>>]

\* The process of c ends, by a crash or an exception that leaves run.
Down(c) ==
  /\ Disconnect(c)
  /\ pc' = [pc EXCEPT ![c] = "down"]
  /\ current' = [current EXCEPT ![c] = NoMessage]
  /\ row' = [row EXCEPT ![c] = 0]

\* The handlers returned.  __exit__ gives the status ok to a MsgLog object
\* that left its session with the application context (its removal at
\* teardown), so nothing is written.
Return(c) ==
  /\ pc[c] = "processing"
  /\ log' = [log EXCEPT ![row[c]].handler = "ok"]
  /\ Idle(c)
  /\ UNCHANGED <<broker, acks, connected, failures>>

\* Mutant of Raise: the message goes back to the queue.
RaiseRequeues(c) ==
  /\ pc[c] = "processing"
  /\ log' = [log EXCEPT ![row[c]].handler = "failed"]
  /\ broker' = [broker EXCEPT ![current[c]] = "ready"]
  /\ Idle(c)
  /\ UNCHANGED <<acks, connected, failures>>

\* A handler raised.  __exit__ gives status failed and the traceback to the
\* same detached object and commits a session that does not hold it.  The
\* exception goes no further, except with debug.
Raise(c) ==
  /\ pc[c] = "processing"
  /\ log' = [log EXCEPT ![row[c]].handler = "failed"]
  /\ IF c \in Debug
       THEN Down(c) /\ failures < MaxFailures /\ failures' = failures + 1
       ELSE Idle(c) /\ UNCHANGED <<broker, acks, connected, failures>>

\* The process dies, or the database fails where nothing catches it: in
\* _save_message_to_db and in MessageProcessor's constructor.
CrashConsumer(c) ==
  /\ pc[c] # "down" /\ failures < MaxFailures
  /\ Down(c)
  /\ failures' = failures + 1
  /\ UNCHANGED log

\* The connection drops; the thread notices when it next uses it.
Drop(c) ==
  /\ c \in connected /\ failures < MaxFailures
  /\ Disconnect(c)
  /\ failures' = failures + 1
  /\ UNCHANGED <<pc, current, log, row>>

\* The loop of run and msg.ack raise on a closed connection.
Notice(c) ==
  /\ pc[c] \in {"idle", "saved"} /\ c \notin connected
  /\ Down(c)
  /\ UNCHANGED <<log, failures>>

\* Mutant of Restart: a running consumer opens a new connection, too.
RestartReconnects(c) ==
  /\ c \notin connected
  /\ pc' = [pc EXCEPT ![c] = IF @ = "down" THEN "idle" ELSE @]
  /\ connected' = connected \cup {c}
  /\ UNCHANGED <<broker, acks, current, log, row, failures>>

Restart(c) ==
  /\ pc[c] = "down"
  /\ pc' = [pc EXCEPT ![c] = "idle"]
  /\ connected' = connected \cup {c}
  /\ UNCHANGED <<broker, acks, current, log, row, failures>>

Work(c) ==
  \/ \E m \in Message : Receive(c, m)
  \/ Save(c) \/ Ack(c) \/ Process(c) \/ Notice(c)
  \/ Return(c) \/ Raise(c)

ConsumerNext ==
  \/ \E m \in Message : Publish(m)
  \/ \E c \in Consumer :
       Work(c) \/ AckArrives(c) \/ Restart(c) \/ CrashConsumer(c) \/ Drop(c)

ConsumerSpec == ConsumerInit /\ [][ConsumerNext]_consumerVars

\* A consumer's thread is scheduled and its handlers return or raise; what is
\* written to a connection that stays up arrives; a supervisor restarts a
\* process that ended.
ConsumerFairness ==
  \A c \in Consumer :
    WF_consumerVars(Work(c)) /\ WF_consumerVars(AckArrives(c)) /\ WF_consumerVars(Restart(c))

FairConsumerSpec == ConsumerSpec /\ ConsumerFairness

-----------------------------------------------------------------------------
(* Properties.                                                             *)

Position == {"idle", "received", "saved", "acked", "processing", "down"}
RowType == [msg : Message, status : {"init"},
            handler : {"uncalled", "called", "ok", "failed"}]

ConsumerTypeOK ==
  /\ broker \in [Message -> {"unpublished", "ready", "gone"} \cup Consumer]
  /\ acks \in [Consumer -> Seq(Message)]
  /\ connected \subseteq Consumer
  /\ pc \in [Consumer -> Position]
  /\ current \in [Consumer -> Message \cup {NoMessage}]
  /\ log \in Seq(RowType)
  /\ row \in [Consumer -> Nat]
  /\ failures \in Nat

RowsOf(m) == {i \in DOMAIN log : log[i].msg = m}
CallsOf(m) == {i \in RowsOf(m) : log[i].handler # "uncalled"}

\* A message the broker has dropped has a committed MsgLog row, wherever a
\* consumer died or lost its connection (_on_msg_received saves before it
\* acknowledges).
GoneIsLogged == \A m \in Message : broker[m] = "gone" => RowsOf(m) # {}

\* The messages that are gone and that no handler has seen or will see.
Skipped ==
  {m \in Message : /\ broker[m] = "gone" /\ CallsOf(m) = {}
                   /\ \A c \in Consumer : current[c] # m}

\* A failure makes the consumers skip at most one message (acknowledged, its
\* handlers not yet run), however many acknowledgements were under way; and
\* without failures none is skipped (_on_msg_received).
FailureSkipsOne == Cardinality(Skipped) <= failures

\* The handlers see a message once more only for a failure: an exception does
\* not bring a message back, and a redelivered one is not called for by the
\* row of its first delivery (process_message).
CallsBounded == \A m \in Message : Cardinality(CallsOf(m)) <= failures + 1

\* Two consumers with a live connection never work on the same message: when
\* one is redelivered, the consumer that first took it has lost its
\* connection and can neither acknowledge it nor take another (run).
OneHolder ==
  \A c, d \in connected :
    c # d /\ current[c] = current[d] => current[c] = NoMessage

\* Every published message leaves the queue: a handler that raises does not
\* stop the consumer or bring the message back, and a consumer that died is
\* replaced.
Drained == \A m \in Message : broker[m] = "ready" ~> broker[m] = "gone"

\* The module docstring of queue_consumer/__init__.py, lines 8 to 11, with
\* that of MessageProcessor, lines 28 to 33: if everything is OK, the message
\* is marked as successful and ACK is sent to RabbitMQ.
AckAfterSuccess ==
  \A m \in Message :
    broker[m] = "gone" =>
      \E i \in RowsOf(m) : log[i].handler = "ok" /\ log[i].status = "ok"

\* What a crash or a lost connection may cost at most: one message skipped,
\* one more call, and never a message in two hands.
FailureCostsOne == ConsumerTypeOK /\ FailureSkipsOne /\ CallsBounded /\ OneHolder
=============================================================================
