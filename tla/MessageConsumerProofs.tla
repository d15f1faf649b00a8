------------------------- MODULE MessageConsumerProofs -------------------------
(***************************************************************************)
(* Theorems about MessageConsumer, for any messages and consumers and any  *)
(* number of failures.                                                     *)
(***************************************************************************)
EXTENDS MessageConsumer, FiniteSetTheorems, TLAPS

\* A consumer has a message while it works on one, and no connection once it
\* is down.
AtWork ==
  \A c \in Consumer :
    /\ current[c] = NoMessage <=> pc[c] \in {"idle", "down"}
    /\ pc[c] = "down" => c \notin connected

HasRow(c) == pc[c] \in {"saved", "acked", "processing"}

\* The row of a consumer is about its message, is its own, and says whether
\* it has called the handlers.
RowsNamed ==
  /\ \A c \in Consumer : HasRow(c) =>
       /\ row[c] \in DOMAIN log
       /\ log[row[c]].msg = current[c]
       /\ log[row[c]].handler = IF pc[c] = "processing" THEN "called" ELSE "uncalled"
  /\ \A c, d \in Consumer : HasRow(c) /\ HasRow(d) /\ row[c] = row[d] => c = d

\* A connection carries an acknowledgement once, for a message that the
\* broker still holds for it; without a connection the broker holds nothing.
AcksHeld ==
  \A c \in Consumer :
    /\ \A i \in DOMAIN acks[c] : broker[acks[c][i]] = c
    /\ \A i, j \in DOMAIN acks[c] : acks[c][i] = acks[c][j] => i = j
    /\ c \notin connected => \A m \in Message : broker[m] # c

\* The broker holds the message of a consumer with a connection for it, until
\* its acknowledgement arrives.
Holding ==
  \A c \in connected :
    /\ pc[c] \in {"received", "saved"} =>
         /\ broker[current[c]] = c
         /\ \A i \in DOMAIN acks[c] : acks[c][i] # current[c]
    /\ pc[c] \in {"acked", "processing"} => broker[current[c]] \in {c, "gone"}

Acking(c, m) == \E i \in DOMAIN acks[c] : acks[c][i] = m

\* A message that is acknowledged has a row, and is called for or about to be.
Logged ==
  /\ \A c \in Consumer, m \in Message :
       Acking(c, m) => RowsOf(m) # {} /\ (current[c] = m \/ CallsOf(m) # {})
  /\ GoneIsLogged

\* The consumers that have m and may yet call its handlers.
Callers(m) == {c \in Consumer : current[c] = m /\ pc[c] \in {"received", "saved", "acked"}}

Waits(m) == IF broker[m] \in {"unpublished", "ready"} THEN 1 ELSE 0

\* Every call of m, past, coming or possible, is paid for by a failure, but one.
CallsPaid ==
  \A m \in Message :
    /\ IsFiniteSet(CallsOf(m)) /\ IsFiniteSet(Callers(m))
    /\ Cardinality(CallsOf(m)) + Cardinality(Callers(m)) + Waits(m) <= failures + 1

\* A consumer that took its message on a connection it has lost, and will
\* notice before it calls the handlers.
Doomed(c) == c \notin connected /\ pc[c] \in {"received", "saved"}

\* The messages that are gone, and that nobody has called or will call for.
Lost ==
  {m \in Message : /\ broker[m] = "gone" /\ CallsOf(m) = {}
                   /\ \A c \in Consumer : current[c] = m => Doomed(c)}

LossPaid == IsFiniteSet(Lost) /\ Cardinality(Lost) <= failures

Inv ==
  /\ ConsumerTypeOK /\ AtWork /\ RowsNamed /\ AcksHeld /\ Holding
  /\ Logged /\ CallsPaid /\ LossPaid
-----------------------------------------------------------------------------
(* Rows of the log.                                                        *)

\* What has become of the log when only the handlers' outcome in the row of c
\* may have changed, and those had been called before.
LogKept(c) ==
  /\ log' \in Seq(RowType) /\ DOMAIN log' = DOMAIN log
  /\ \A i \in DOMAIN log : ~(HasRow(c) /\ i = row[c]) => log'[i] = log[i]
  /\ \A m \in Message : RowsOf(m)' = RowsOf(m) /\ CallsOf(m)' = CallsOf(m)

LEMMA UnchangedLog ==
  ASSUME ConsumerTypeOK, NEW c \in Consumer, UNCHANGED log
  PROVE  LogKept(c)
BY DEF LogKept, ConsumerTypeOK, RowsOf, CallsOf

\* One handler column is written.
LEMMA HandlerWritten ==
  ASSUME log \in Seq(RowType), NEW c \in Consumer, row[c] \in DOMAIN log,
         NEW h \in {"called", "ok", "failed"}, log' = [log EXCEPT ![row[c]].handler = h]
  PROVE  /\ log' \in Seq(RowType) /\ DOMAIN log' = DOMAIN log
         /\ \A j \in DOMAIN log : j # row[c] => log'[j] = log[j]
         /\ log'[row[c]].msg = log[row[c]].msg /\ log'[row[c]].handler = h
         /\ \A m \in Message : RowsOf(m)' = RowsOf(m)
         /\ \A m \in Message :
              CallsOf(m)' = IF log[row[c]].msg = m THEN CallsOf(m) \cup {row[c]} ELSE CallsOf(m)
<1> DEFINE i == row[c]
<1>1. log[i] \in RowType /\ DOMAIN log = 1 .. Len(log)
  OBVIOUS
<1>2. [log[i] EXCEPT !.handler = h] \in RowType
  BY <1>1 DEF RowType
<1>3. log' \in Seq(RowType) /\ Len(log') = Len(log) /\ DOMAIN log' = DOMAIN log
  BY <1>1, <1>2
<1>4. /\ \A j \in DOMAIN log : j # i => log'[j] = log[j]
      /\ log'[i] = [log[i] EXCEPT !.handler = h]
  OBVIOUS
<1>5. log'[i].msg = log[i].msg /\ log'[i].handler = h
  BY <1>1, <1>4 DEF RowType
<1>6. \A m \in Message : RowsOf(m)' = RowsOf(m)
  BY <1>3, <1>4, <1>5 DEF RowsOf
<1>7. ASSUME NEW m \in Message
      PROVE  CallsOf(m)' = IF log[i].msg = m THEN CallsOf(m) \cup {i} ELSE CallsOf(m)
  BY <1>3, <1>4, <1>5 DEF CallsOf, RowsOf
<1> QED BY <1>3, <1>4, <1>5, <1>6, <1>7

\* The outcome of handlers that were called.
LEMMA OutcomeWritten ==
  ASSUME Inv, NEW c \in Consumer, pc[c] = "processing",
         NEW h \in {"ok", "failed"}, log' = [log EXCEPT ![row[c]].handler = h]
  PROVE  LogKept(c)
<1>1. row[c] \in DOMAIN log /\ log[row[c]].handler = "called" /\ HasRow(c)
  BY DEF Inv, RowsNamed, HasRow
<1>2. \A m \in Message : log[row[c]].msg = m => row[c] \in CallsOf(m)
  BY <1>1 DEF CallsOf, RowsOf
<1>3. log \in Seq(RowType) /\ h \in {"called", "ok", "failed"}
  BY DEF Inv, ConsumerTypeOK
<1>4. /\ log' \in Seq(RowType) /\ DOMAIN log' = DOMAIN log
      /\ \A j \in DOMAIN log : j # row[c] => log'[j] = log[j]
      /\ \A m \in Message : RowsOf(m)' = RowsOf(m)
      /\ \A m \in Message :
           CallsOf(m)' = IF log[row[c]].msg = m THEN CallsOf(m) \cup {row[c]} ELSE CallsOf(m)
  BY <1>1, <1>3, HandlerWritten
<1>5. \A m \in Message : CallsOf(m)' = CallsOf(m)
  BY <1>2, <1>4
<1> QED BY <1>1, <1>4, <1>5 DEF LogKept

\* A message that is processed was called for.
LEMMA ProcessedCalled ==
  ASSUME Inv, NEW c \in Consumer, pc[c] = "processing"
  PROVE  CallsOf(current[c]) # {}
BY DEF Inv, RowsNamed, HasRow, CallsOf, RowsOf

-----------------------------------------------------------------------------
(* The sets that are counted.                                              *)

LEMMA CallsPaidKept ==
  ASSUME Inv, failures' \in Nat, failures <= failures',
         \A m \in Message :
           /\ CallsOf(m)' = CallsOf(m) /\ Callers(m)' \subseteq Callers(m)
           /\ Waits(m)' <= Waits(m) + failures' - failures
  PROVE  CallsPaid'
<1> SUFFICES ASSUME NEW m \in Message
             PROVE  /\ IsFiniteSet(CallsOf(m)') /\ IsFiniteSet(Callers(m)')
                    /\ Cardinality(CallsOf(m)') + Cardinality(Callers(m)') + Waits(m)'
                         <= failures' + 1
  BY DEF CallsPaid
<1>1. /\ IsFiniteSet(CallsOf(m)) /\ IsFiniteSet(Callers(m)) /\ failures \in Nat
      /\ Cardinality(CallsOf(m)) + Cardinality(Callers(m)) + Waits(m) <= failures + 1
  BY DEF Inv, CallsPaid, ConsumerTypeOK
<1>2. /\ IsFiniteSet(Callers(m)') /\ Cardinality(Callers(m)') <= Cardinality(Callers(m))
      /\ Cardinality(Callers(m)') \in Nat /\ Cardinality(Callers(m)) \in Nat
      /\ Cardinality(CallsOf(m)) \in Nat
  BY <1>1, FS_Subset, FS_CardinalityType
<1>3. Waits(m) \in Nat /\ Waits(m)' \in Nat
  BY DEF Waits
<1> QED BY <1>1, <1>2, <1>3

LEMMA LossPaidKept ==
  ASSUME Inv, Lost' \subseteq Lost, failures' \in Nat, failures <= failures'
  PROVE  LossPaid'
<1>1. IsFiniteSet(Lost) /\ Cardinality(Lost) <= failures /\ failures \in Nat
  BY DEF Inv, LossPaid, ConsumerTypeOK
<1>2. IsFiniteSet(Lost') /\ Cardinality(Lost') <= Cardinality(Lost)
  BY <1>1, FS_Subset
<1>3. Cardinality(Lost') \in Nat /\ Cardinality(Lost) \in Nat
  BY <1>1, <1>2, FS_CardinalityType
<1> QED BY <1>1, <1>2, <1>3 DEF LossPaid

LEMMA LossPaidByFailure ==
  ASSUME Inv, NEW m, Lost' \subseteq Lost \cup {m}, failures' = failures + 1
  PROVE  LossPaid'
<1>1. IsFiniteSet(Lost) /\ Cardinality(Lost) <= failures /\ failures \in Nat
  BY DEF Inv, LossPaid, ConsumerTypeOK
<1>2. /\ IsFiniteSet(Lost \cup {m})
      /\ Cardinality(Lost \cup {m}) \in {Cardinality(Lost), Cardinality(Lost) + 1}
  BY <1>1, FS_AddElement
<1>3. IsFiniteSet(Lost') /\ Cardinality(Lost') <= Cardinality(Lost \cup {m})
  BY <1>2, FS_Subset
<1>4. /\ Cardinality(Lost') \in Nat /\ Cardinality(Lost) \in Nat
      /\ Cardinality(Lost \cup {m}) \in Nat
  BY <1>1, <1>2, <1>3, FS_CardinalityType
<1> QED BY <1>1, <1>2, <1>3, <1>4 DEF LossPaid

-----------------------------------------------------------------------------

LEMMA InitInv == ASSUME ConsumerAssumption, ConsumerInit PROVE Inv
<1>1. ConsumerTypeOK
  BY DEF ConsumerInit, ConsumerTypeOK, Position
<1>2. AtWork /\ RowsNamed
  BY DEF ConsumerInit, AtWork, RowsNamed, HasRow
<1>3. \A m \in Message : RowsOf(m) = {} /\ CallsOf(m) = {} /\ broker[m] = "unpublished"
  BY DEF ConsumerInit, RowsOf, CallsOf
<1>4. AcksHeld /\ Holding /\ Logged
  BY <1>3 DEF ConsumerInit, AcksHeld, Holding, Logged, Acking, GoneIsLogged
<1>5. \A m \in Message : Callers(m) = {} /\ Waits(m) = 1
  BY <1>3 DEF ConsumerInit, Callers, Waits
<1>6. CallsPaid
  <2>1. IsFiniteSet({}) /\ Cardinality({}) = 0
    BY FS_EmptySet
  <2>2. failures = 0 /\ 0 + 0 + 1 <= 0 + 1
    BY DEF ConsumerInit
  <2> QED BY <1>3, <1>5, <2>1, <2>2 DEF CallsPaid
<1>7. Lost = {}
  BY <1>3 DEF Lost
<1>8. LossPaid
  BY <1>7, FS_EmptySet DEF LossPaid, ConsumerInit
<1> QED BY <1>1, <1>2, <1>4, <1>6, <1>8 DEF Inv

LEMMA PublishInv ==
  ASSUME ConsumerAssumption, Inv, NEW m \in Message, Publish(m)
  PROVE  Inv'
<1> USE DEF Inv
<1>1. /\ \A x \in Message : broker'[x] = IF x = m THEN "ready" ELSE broker[x]
      /\ broker[m] = "unpublished" /\ \A c \in Consumer : c \notin {"unpublished", "ready", "gone"}
  BY DEF Publish, ConsumerTypeOK, ConsumerAssumption
<1>2. ConsumerTypeOK'
  BY DEF ConsumerTypeOK, Publish
<1>3. AtWork' /\ RowsNamed'
  BY DEF AtWork, RowsNamed, HasRow, Publish
<1>4. \A x \in Message : RowsOf(x)' = RowsOf(x) /\ CallsOf(x)' = CallsOf(x)
  BY DEF Publish, RowsOf, CallsOf
<1>5. \A c \in Consumer : \A i \in DOMAIN acks[c] : acks[c][i] \in Message
  BY DEF ConsumerTypeOK
<1>6. AcksHeld'
  BY <1>1, <1>5 DEF AcksHeld, Publish
<1>7. \A c \in connected : pc[c] \notin {"idle", "down"} => current[c] \in Message
  BY DEF AtWork, ConsumerTypeOK
<1>8. Holding'
  BY <1>1, <1>7 DEF Holding, Publish, ConsumerTypeOK
<1>9. Logged'
  BY <1>1, <1>4 DEF Logged, Acking, GoneIsLogged, Publish
<1>10. \A x \in Message : Waits(x)' = Waits(x) /\ Callers(x)' = Callers(x)
  BY <1>1 DEF Waits, Callers, Publish
<1>11. CallsPaid'
  BY <1>4, <1>10 DEF CallsPaid, Publish
<1>12. Lost' \subseteq Lost
  BY <1>1, <1>4 DEF Lost, Doomed, Publish
<1>13. LossPaid'
  BY <1>12, LossPaidKept DEF Publish, ConsumerTypeOK
<1> QED BY <1>2, <1>3, <1>6, <1>8, <1>9, <1>11, <1>13

LEMMA ReceiveInv ==
  ASSUME ConsumerAssumption, Inv, NEW c \in Consumer, NEW m \in Message, Receive(c, m)
  PROVE  Inv'
<1> USE DEF Inv
<1>1. /\ \A x \in Message : broker'[x] = IF x = m THEN c ELSE broker[x]
      /\ broker[m] = "ready" /\ \A d \in Consumer : d \notin {"unpublished", "ready", "gone"}
  BY DEF Receive, ConsumerTypeOK, ConsumerAssumption
<1>2. /\ \A d \in Consumer : pc'[d] = IF d = c THEN "received" ELSE pc[d]
      /\ \A d \in Consumer : current'[d] = IF d = c THEN m ELSE current[d]
      /\ pc[c] = "idle" /\ c \in connected /\ current[c] = NoMessage
      /\ m # NoMessage
  BY DEF Receive, ConsumerTypeOK, AtWork, ConsumerAssumption
<1>3. ConsumerTypeOK'
  BY DEF ConsumerTypeOK, Receive, Position
<1>4. AtWork' /\ RowsNamed'
  BY <1>2 DEF AtWork, RowsNamed, HasRow, Receive
<1>5. \A x \in Message : RowsOf(x)' = RowsOf(x) /\ CallsOf(x)' = CallsOf(x)
  BY DEF Receive, RowsOf, CallsOf
<1>6. \A d \in Consumer : \A i \in DOMAIN acks[d] : acks[d][i] \in Message /\ acks[d][i] # m
  BY <1>1 DEF ConsumerTypeOK, AcksHeld
<1>7. AcksHeld'
  BY <1>1, <1>2, <1>6 DEF AcksHeld, Receive
<1>8. \A d \in connected : pc[d] \notin {"idle", "down"} => current[d] \in Message
  BY DEF AtWork, ConsumerTypeOK
<1>9. Holding'
  <2> SUFFICES ASSUME NEW d \in connected
               PROVE  /\ pc'[d] \in {"received", "saved"} =>
                           /\ broker'[current'[d]] = d
                           /\ \A i \in DOMAIN acks[d] : acks[d][i] # current'[d]
                      /\ pc'[d] \in {"acked", "processing"} => broker'[current'[d]] \in {d, "gone"}
    BY DEF Holding, Receive
  <2>1. d \in Consumer
    BY DEF ConsumerTypeOK
  <2>2. CASE d = c
    BY <1>1, <1>2, <1>6, <2>2
  <2>3. CASE d # c
    BY <1>1, <1>2, <1>8, <2>1, <2>3 DEF Holding
  <2> QED BY <2>2, <2>3
<1>10. Logged'
  <2>1. \A d \in Consumer, x \in Message : Acking(d, x)' => Acking(d, x) /\ (d = c => x # m)
    BY <1>6 DEF Acking, Receive
  <2>2. \A x \in Message : ~Acking(c, x) \/ CallsOf(x) # {}
    BY <1>2 DEF Logged, ConsumerAssumption
  <2> QED BY <1>1, <1>2, <1>5, <2>1, <2>2 DEF Logged, GoneIsLogged, Receive
<1>11. CallsPaid'
  <2> SUFFICES ASSUME NEW x \in Message
               PROVE  /\ IsFiniteSet(CallsOf(x)') /\ IsFiniteSet(Callers(x)')
                      /\ Cardinality(CallsOf(x)') + Cardinality(Callers(x)') + Waits(x)'
                           <= failures + 1
    BY DEF CallsPaid, Receive
  <2>1. /\ IsFiniteSet(CallsOf(x)) /\ IsFiniteSet(Callers(x)) /\ failures \in Nat
        /\ Cardinality(CallsOf(x)) + Cardinality(Callers(x)) + Waits(x) <= failures + 1
    BY DEF CallsPaid, ConsumerTypeOK
  <2>2. CASE x = m
    <3>1. Callers(x)' = Callers(x) \cup {c} /\ c \notin Callers(x)
      BY <1>2, <2>2 DEF Callers
    <3>2. Waits(x) = 1 /\ Waits(x)' = 0
      BY <1>1, <2>2 DEF Waits
    <3>3. IsFiniteSet(Callers(x)') /\ Cardinality(Callers(x)') = Cardinality(Callers(x)) + 1
      BY <2>1, <3>1, FS_AddElement
    <3>4. Cardinality(Callers(x)) \in Nat /\ Cardinality(CallsOf(x)) \in Nat
      BY <2>1, FS_CardinalityType
    <3> QED BY <1>5, <2>1, <3>2, <3>3, <3>4
  <2>3. CASE x # m
    <3>1. Callers(x)' = Callers(x) /\ Waits(x)' = Waits(x)
      BY <1>1, <1>2, <2>3 DEF Callers, Waits
    <3> QED BY <1>5, <2>1, <3>1
  <2> QED BY <2>2, <2>3
<1>12. Lost' \subseteq Lost
  <2> SUFFICES ASSUME NEW x \in Lost'
               PROVE  x \in Lost
    OBVIOUS
  <2>1. x \in Message /\ broker[x] = "gone" /\ CallsOf(x) = {} /\ x # m
    BY <1>1, <1>5 DEF Lost
  <2>2. \A d \in Consumer : current[d] = x => Doomed(d)
    BY <1>2, <2>1 DEF Lost, Doomed, Receive
  <2> QED BY <2>1, <2>2 DEF Lost
<1>13. LossPaid'
  BY <1>12, LossPaidKept DEF Receive, ConsumerTypeOK
<1> QED BY <1>3, <1>4, <1>7, <1>9, <1>10, <1>11, <1>13

LEMMA SaveInv ==
  ASSUME ConsumerAssumption, Inv, NEW c \in Consumer, Save(c)
  PROVE  Inv'
<1> USE DEF Inv
<1> DEFINE new == [msg |-> current[c], status |-> "init", handler |-> "uncalled"]
<1>1. /\ \A d \in Consumer : pc'[d] = IF d = c THEN "saved" ELSE pc[d]
      /\ \A d \in Consumer : row'[d] = IF d = c THEN Len(log) + 1 ELSE row[d]
      /\ pc[c] = "received"
  BY DEF Save, ConsumerTypeOK
<1>2. current[c] \in Message /\ new \in RowType
  BY <1>1 DEF AtWork, ConsumerTypeOK, RowType
<1>3. /\ log \in Seq(RowType) /\ log' = Append(log, new) /\ log' \in Seq(RowType)
      /\ DOMAIN log = 1 .. Len(log) /\ Len(log) \in Nat
      /\ DOMAIN log' = 1 .. Len(log) + 1
      /\ \A i \in DOMAIN log : log'[i] = log[i]
      /\ log'[Len(log) + 1] = new
  BY <1>2 DEF Save, ConsumerTypeOK
<1> HIDE DEF new
<1>4. new.msg = current[c] /\ new.handler = "uncalled"
  BY DEF new
<1>5. ConsumerTypeOK'
  BY <1>3 DEF ConsumerTypeOK, Save, Position
<1>6. AtWork'
  BY <1>1 DEF AtWork, Save
<1>7. RowsNamed'
  <2>1. \A d \in Consumer : HasRow(d)' <=> HasRow(d) \/ d = c
    BY <1>1 DEF HasRow
  <2>2. \A d \in Consumer : HasRow(d) => d # c /\ row[d] \in DOMAIN log /\ row[d] # Len(log) + 1
    BY <1>1, <1>3 DEF HasRow, RowsNamed
  <2>3. ASSUME NEW d \in Consumer, HasRow(d)'
        PROVE  /\ row'[d] \in DOMAIN log' /\ log'[row'[d]].msg = current'[d]
               /\ log'[row'[d]].handler = IF pc'[d] = "processing" THEN "called" ELSE "uncalled"
    <3>1. CASE d = c
      BY <1>1, <1>3, <1>4, <3>1 DEF Save
    <3>2. CASE d # c
      <4>1. HasRow(d)
        BY <2>1, <2>3, <3>2
      <4>2. log'[row[d]] = log[row[d]] /\ row[d] \in DOMAIN log'
        BY <1>3, <2>2, <4>1
      <4> QED BY <1>1, <3>2, <4>1, <4>2 DEF RowsNamed, Save
    <3> QED BY <3>1, <3>2
  <2>4. ASSUME NEW d \in Consumer, NEW e \in Consumer, HasRow(d)', HasRow(e)', row'[d] = row'[e]
        PROVE  d = e
    BY <1>1, <2>1, <2>2, <2>4 DEF RowsNamed
  <2> QED BY <2>3, <2>4 DEF RowsNamed
<1>8. \A m \in Message : RowsOf(m) \subseteq RowsOf(m)' /\ CallsOf(m)' = CallsOf(m)
  BY <1>3, <1>4 DEF RowsOf, CallsOf
<1>9. AcksHeld' /\ Holding'
  <2>1. AcksHeld'
    BY DEF AcksHeld, Save
  <2>2. \A d \in connected : d \in Consumer
    BY DEF ConsumerTypeOK
  <2>3. Holding'
    BY <1>1, <2>2 DEF Holding, Save
  <2> QED BY <2>1, <2>3
<1>10. Logged'
  BY <1>8 DEF Logged, Acking, GoneIsLogged, Save
<1>11. \A m \in Message : Callers(m)' = Callers(m) /\ Waits(m)' = Waits(m)
  BY <1>1 DEF Callers, Waits, Save
<1>12. CallsPaid'
  BY <1>8, <1>11 DEF CallsPaid, Save
<1>13. \A d \in Consumer : Doomed(d)' <=> Doomed(d)
  BY <1>1 DEF Doomed, Save
<1>14. Lost' \subseteq Lost
  BY <1>8, <1>13 DEF Lost, Save
<1>15. LossPaid'
  BY <1>14, LossPaidKept DEF Save, ConsumerTypeOK
<1> QED BY <1>5, <1>6, <1>7, <1>9, <1>10, <1>12, <1>15

LEMMA AckInv ==
  ASSUME ConsumerAssumption, Inv, NEW c \in Consumer, Ack(c)
  PROVE  Inv'
<1> USE DEF Inv
<1>1. /\ \A d \in Consumer : pc'[d] = IF d = c THEN "acked" ELSE pc[d]
      /\ pc[c] = "saved" /\ c \in connected
      /\ current[c] \in Message /\ broker[current[c]] = c
  BY DEF Ack, ConsumerTypeOK, AtWork, Holding
<1>2. /\ acks[c] \in Seq(Message) /\ DOMAIN acks[c] = 1 .. Len(acks[c]) /\ Len(acks[c]) \in Nat
      /\ \A d \in Consumer : d # c => acks'[d] = acks[d]
      /\ acks'[c] = Append(acks[c], current[c])
      /\ acks'[c] \in Seq(Message)
  BY <1>1 DEF Ack, ConsumerTypeOK
<1>3. /\ DOMAIN acks'[c] = 1 .. Len(acks[c]) + 1
      /\ \A i \in DOMAIN acks[c] : acks'[c][i] = acks[c][i]
      /\ acks'[c][Len(acks[c]) + 1] = current[c]
  BY <1>1, <1>2
<1>4. ConsumerTypeOK'
  BY <1>2 DEF ConsumerTypeOK, Ack, Position
<1>5. AtWork' /\ RowsNamed'
  BY <1>1 DEF AtWork, RowsNamed, HasRow, Ack
<1>6. \A i \in DOMAIN acks[c] : acks[c][i] # current[c]
  BY <1>1 DEF Holding
<1>7. AcksHeld'
  <2> SUFFICES ASSUME NEW d \in Consumer
               PROVE  /\ \A i \in DOMAIN acks'[d] : broker[acks'[d][i]] = d
                      /\ \A i, j \in DOMAIN acks'[d] : acks'[d][i] = acks'[d][j] => i = j
                      /\ d \notin connected => \A m \in Message : broker[m] # d
    BY DEF AcksHeld, Ack
  <2>1. CASE d = c
    <3>1. \A i \in DOMAIN acks'[c] : i \in DOMAIN acks[c] \/ i = Len(acks[c]) + 1
      BY <1>2, <1>3
    <3>2. \A i \in DOMAIN acks'[c] : broker[acks'[c][i]] = c
      BY <1>1, <1>3, <3>1 DEF AcksHeld
    <3>3. \A i, j \in DOMAIN acks'[c] : acks'[c][i] = acks'[c][j] => i = j
      BY <1>3, <1>6, <3>1 DEF AcksHeld
    <3> QED BY <2>1, <3>2, <3>3 DEF AcksHeld
  <2>2. CASE d # c
    BY <1>2, <2>2 DEF AcksHeld
  <2> QED BY <2>1, <2>2
<1>8. Holding'
  <2> SUFFICES ASSUME NEW d \in connected
               PROVE  /\ pc'[d] \in {"received", "saved"} =>
                           /\ broker[current[d]] = d
                           /\ \A i \in DOMAIN acks'[d] : acks'[d][i] # current[d]
                      /\ pc'[d] \in {"acked", "processing"} => broker[current[d]] \in {d, "gone"}
    BY DEF Holding, Ack
  <2>1. d \in Consumer
    BY DEF ConsumerTypeOK
  <2>2. CASE d = c
    BY <1>1, <2>2
  <2>3. CASE d # c
    BY <1>1, <1>2, <2>1, <2>3 DEF Holding
  <2> QED BY <2>2, <2>3
<1>9. \A m \in Message : RowsOf(m)' = RowsOf(m) /\ CallsOf(m)' = CallsOf(m)
  BY DEF Ack, RowsOf, CallsOf
<1>10. Logged'
  <2>1. RowsOf(current[c]) # {}
    BY <1>1 DEF RowsNamed, HasRow, RowsOf
  <2>2. \A d \in Consumer, m \in Message :
          Acking(d, m)' => Acking(d, m) \/ (d = c /\ m = current[c])
    <3>1. \A m \in Message : Acking(c, m)' => Acking(c, m) \/ m = current[c]
      BY <1>2, <1>3 DEF Acking
    <3>2. \A d \in Consumer, m \in Message : d # c /\ Acking(d, m)' => Acking(d, m)
      BY <1>2 DEF Acking
    <3> QED BY <3>1, <3>2
  <2> QED BY <1>1, <1>9, <2>1, <2>2 DEF Logged, GoneIsLogged, Ack
<1>11. \A m \in Message : Callers(m)' = Callers(m) /\ Waits(m)' = Waits(m)
  BY <1>1 DEF Callers, Waits, Ack
<1>12. CallsPaid'
  BY <1>9, <1>11 DEF CallsPaid, Ack
<1>13. \A d \in Consumer : Doomed(d)' <=> Doomed(d)
  BY <1>1 DEF Doomed, Ack
<1>14. Lost' \subseteq Lost
  BY <1>9, <1>13 DEF Lost, Ack
<1>15. LossPaid'
  BY <1>14, LossPaidKept DEF Ack, ConsumerTypeOK
<1> QED BY <1>4, <1>5, <1>7, <1>8, <1>10, <1>12, <1>15

LEMMA AckArrivesInv ==
  ASSUME ConsumerAssumption, Inv, NEW c \in Consumer, AckArrives(c)
  PROVE  Inv'
<1> USE DEF Inv
<1> DEFINE m == Head(acks[c])
<1>1. /\ acks[c] \in Seq(Message) /\ DOMAIN acks[c] = 1 .. Len(acks[c]) /\ Len(acks[c]) \in Nat
      /\ acks[c] # <<>> /\ 1 \in DOMAIN acks[c] /\ m = acks[c][1] /\ m \in Message
  BY DEF AckArrives, ConsumerTypeOK
<1>2. /\ \A d \in Consumer : d # c => acks'[d] = acks[d]
      /\ acks'[c] = Tail(acks[c]) /\ acks'[c] \in Seq(Message)
      /\ \A x \in Message : broker'[x] = IF x = m THEN "gone" ELSE broker[x]
  BY <1>1 DEF AckArrives, ConsumerTypeOK
<1>3. /\ DOMAIN acks'[c] = 1 .. Len(acks[c]) - 1
      /\ \A i \in DOMAIN acks'[c] : i + 1 \in DOMAIN acks[c] /\ acks'[c][i] = acks[c][i + 1]
  BY <1>1, <1>2
<1>4. /\ broker[m] = c /\ c \in connected
      /\ \A d \in Consumer : d \notin {"unpublished", "ready", "gone"}
  BY <1>1 DEF AcksHeld, ConsumerAssumption
<1> HIDE DEF m
<1>5. ConsumerTypeOK'
  BY <1>1, <1>2 DEF ConsumerTypeOK, AckArrives
<1>6. AtWork' /\ RowsNamed'
  BY DEF AtWork, RowsNamed, HasRow, AckArrives
<1>7. \A i \in DOMAIN acks'[c] : acks'[c][i] \in Message /\ acks'[c][i] # m
  <2> SUFFICES ASSUME NEW i \in DOMAIN acks'[c]
               PROVE  acks'[c][i] \in Message /\ acks'[c][i] # m
    OBVIOUS
  <2>1. i + 1 # 1
    BY <1>1, <1>3
  <2> QED BY <1>1, <1>3, <2>1 DEF AcksHeld
<1>8. AcksHeld'
  <2> SUFFICES ASSUME NEW d \in Consumer
               PROVE  /\ \A i \in DOMAIN acks'[d] : broker'[acks'[d][i]] = d
                      /\ \A i, j \in DOMAIN acks'[d] : acks'[d][i] = acks'[d][j] => i = j
                      /\ d \notin connected => \A x \in Message : broker'[x] # d
    BY DEF AcksHeld, AckArrives
  <2>1. d \notin connected => \A x \in Message : broker'[x] # d
    BY <1>2, <1>4 DEF AcksHeld
  <2>2. CASE d = c
    <3>1. \A i \in DOMAIN acks'[c] : broker'[acks'[c][i]] = c
      BY <1>2, <1>3, <1>7 DEF AcksHeld
    <3>2. ASSUME NEW i \in DOMAIN acks'[c], NEW j \in DOMAIN acks'[c], acks'[c][i] = acks'[c][j]
          PROVE  i = j
      <4>1. i + 1 = j + 1
        BY <1>3, <3>2 DEF AcksHeld
      <4> QED BY <1>1, <1>3, <4>1
    <3> QED BY <2>1, <2>2, <3>1, <3>2
  <2>3. CASE d # c
    <3>1. \A i \in DOMAIN acks[d] : acks[d][i] \in Message /\ broker[acks[d][i]] = d
      BY DEF AcksHeld, ConsumerTypeOK
    <3> QED BY <1>2, <1>4, <2>1, <2>3, <3>1 DEF AcksHeld
  <2> QED BY <2>2, <2>3
<1>9. Holding'
  <2> SUFFICES ASSUME NEW d \in connected
               PROVE  /\ pc[d] \in {"received", "saved"} =>
                           /\ broker'[current[d]] = d
                           /\ \A i \in DOMAIN acks'[d] : acks'[d][i] # current[d]
                      /\ pc[d] \in {"acked", "processing"} => broker'[current[d]] \in {d, "gone"}
    BY DEF Holding, AckArrives
  <2>1. d \in Consumer /\ (pc[d] \notin {"idle", "down"} => current[d] \in Message)
    BY DEF ConsumerTypeOK, AtWork
  <2>2. CASE pc[d] \in {"acked", "processing"}
    BY <1>2, <2>1, <2>2 DEF Holding
  <2>3. CASE pc[d] \in {"received", "saved"}
    <3>1. broker[current[d]] = d /\ \A i \in DOMAIN acks[d] : acks[d][i] # current[d]
      BY <2>3 DEF Holding
    <3>2. current[d] # m
      BY <1>1, <1>4, <3>1
    <3>3. CASE d = c
      <4>1. \A i \in DOMAIN acks'[d] : acks'[d][i] # current[d]
        BY <1>3, <3>1, <3>3
      <4> QED BY <1>2, <2>1, <2>3, <3>1, <3>2, <4>1
    <3>4. CASE d # c
      BY <1>2, <2>1, <2>3, <3>1, <3>2, <3>4
    <3> QED BY <3>3, <3>4
  <2> QED BY <2>2, <2>3
<1>10. \A x \in Message : RowsOf(x)' = RowsOf(x) /\ CallsOf(x)' = CallsOf(x)
  BY DEF AckArrives, RowsOf, CallsOf
<1>11. RowsOf(m) # {} /\ (current[c] = m \/ CallsOf(m) # {})
  BY <1>1 DEF Logged, Acking
<1>12. Logged'
  <2>1. \A d \in Consumer, x \in Message : Acking(d, x)' => Acking(d, x)
    <3>1. \A x \in Message : Acking(c, x)' => Acking(c, x)
      BY <1>3 DEF Acking
    <3>2. \A d \in Consumer, x \in Message : d # c /\ Acking(d, x)' => Acking(d, x)
      BY <1>2 DEF Acking
    <3> QED BY <3>1, <3>2
  <2> QED BY <1>2, <1>10, <1>11, <2>1 DEF Logged, GoneIsLogged, AckArrives
<1>13. \A x \in Message : Callers(x)' = Callers(x) /\ Waits(x)' = Waits(x)
  BY <1>2, <1>4 DEF Callers, Waits, AckArrives
<1>14. CallsPaid'
  BY <1>10, <1>13 DEF CallsPaid, AckArrives
<1>15. Lost' \subseteq Lost
  <2> SUFFICES ASSUME NEW x \in Lost'
               PROVE  x \in Lost
    OBVIOUS
  <2>1. x \in Message /\ CallsOf(x) = {} /\ \A d \in Consumer : current[d] = x => Doomed(d)
    BY <1>10 DEF Lost, Doomed, AckArrives
  <2>2. x # m
    BY <1>4, <1>11, <2>1 DEF Doomed
  <2> QED BY <1>2, <2>1, <2>2 DEF Lost
<1>16. LossPaid'
  BY <1>15, LossPaidKept DEF AckArrives, ConsumerTypeOK
<1> QED BY <1>5, <1>6, <1>8, <1>9, <1>12, <1>14, <1>16

LEMMA ProcessInv ==
  ASSUME ConsumerAssumption, Inv, NEW c \in Consumer, Process(c)
  PROVE  Inv'
<1> USE DEF Inv
<1>1. /\ \A d \in Consumer : pc'[d] = IF d = c THEN "processing" ELSE pc[d]
      /\ pc[c] = "acked" /\ current[c] \in Message
  BY DEF Process, ConsumerTypeOK, AtWork
<1>2. /\ row[c] \in DOMAIN log /\ log[row[c]].msg = current[c]
      /\ log[row[c]].handler = "uncalled"
  BY <1>1 DEF RowsNamed, HasRow
<1>3. /\ log' \in Seq(RowType) /\ DOMAIN log' = DOMAIN log
      /\ \A j \in DOMAIN log : j # row[c] => log'[j] = log[j]
      /\ log'[row[c]].msg = log[row[c]].msg /\ log'[row[c]].handler = "called"
      /\ \A m \in Message : RowsOf(m)' = RowsOf(m)
      /\ \A m \in Message :
           CallsOf(m)' = IF current[c] = m THEN CallsOf(m) \cup {row[c]} ELSE CallsOf(m)
  <2>1. log \in Seq(RowType) /\ log' = [log EXCEPT ![row[c]].handler = "called"]
    BY DEF ConsumerTypeOK, Process
  <2>2. "called" \in {"called", "ok", "failed"}
    OBVIOUS
  <2>3. row[c] \in DOMAIN log
    BY <1>2
  <2>4. /\ log' \in Seq(RowType) /\ DOMAIN log' = DOMAIN log
        /\ \A j \in DOMAIN log : j # row[c] => log'[j] = log[j]
        /\ log'[row[c]].msg = log[row[c]].msg /\ log'[row[c]].handler = "called"
        /\ \A m \in Message : RowsOf(m)' = RowsOf(m)
        /\ \A m \in Message :
             CallsOf(m)' = IF log[row[c]].msg = m THEN CallsOf(m) \cup {row[c]} ELSE CallsOf(m)
    BY <2>1, <2>2, <2>3, HandlerWritten
  <2> QED BY <1>2, <2>4
<1>4. ConsumerTypeOK'
  BY <1>3 DEF ConsumerTypeOK, Process, Position
<1>5. AtWork'
  BY <1>1 DEF AtWork, Process
<1>6. RowsNamed'
  BY <1>1, <1>2, <1>3 DEF RowsNamed, HasRow, Process
<1>7. AcksHeld' /\ Holding'
  BY <1>1 DEF AcksHeld, Holding, Process, ConsumerTypeOK
<1>8. Logged'
  <2>1. \A m \in Message : RowsOf(m)' = RowsOf(m) /\ CallsOf(m) \subseteq CallsOf(m)'
    BY <1>3
  <2> QED BY <2>1 DEF Logged, Acking, GoneIsLogged, Process
<1>9. CallsPaid'
  <2> SUFFICES ASSUME NEW x \in Message
               PROVE  /\ IsFiniteSet(CallsOf(x)') /\ IsFiniteSet(Callers(x)')
                      /\ Cardinality(CallsOf(x)') + Cardinality(Callers(x)') + Waits(x)'
                           <= failures + 1
    BY DEF CallsPaid, Process
  <2>1. /\ IsFiniteSet(CallsOf(x)) /\ IsFiniteSet(Callers(x)) /\ failures \in Nat
        /\ Cardinality(CallsOf(x)) + Cardinality(Callers(x)) + Waits(x) <= failures + 1
    BY DEF CallsPaid, ConsumerTypeOK
  <2>2. Waits(x)' = Waits(x)
    BY DEF Waits, Process
  <2>3. CASE x = current[c]
    <3>1. Callers(x)' = Callers(x) \ {c} /\ c \in Callers(x)
      BY <1>1, <2>3 DEF Callers, Process
    <3>2. CallsOf(x)' = CallsOf(x) \cup {row[c]} /\ row[c] \notin CallsOf(x)
      BY <1>2, <1>3, <2>3 DEF CallsOf
    <3>3. /\ IsFiniteSet(Callers(x)') /\ IsFiniteSet(CallsOf(x)')
          /\ Cardinality(Callers(x)') = Cardinality(Callers(x)) - 1
          /\ Cardinality(CallsOf(x)') = Cardinality(CallsOf(x)) + 1
      BY <2>1, <3>1, <3>2, FS_AddElement, FS_RemoveElement
    <3>4. /\ Cardinality(Callers(x)) \in Nat /\ Cardinality(CallsOf(x)) \in Nat
          /\ Waits(x) \in Nat
      BY <2>1, FS_CardinalityType DEF Waits
    <3> QED BY <2>1, <2>2, <3>3, <3>4
  <2>4. CASE x # current[c]
    <3>1. Callers(x)' = Callers(x) /\ CallsOf(x)' = CallsOf(x)
      BY <1>1, <1>3, <2>4 DEF Callers, Process
    <3> QED BY <2>1, <2>2, <3>1
  <2> QED BY <2>3, <2>4
<1>10. Lost' \subseteq Lost
  <2> SUFFICES ASSUME NEW x \in Lost'
               PROVE  x \in Lost
    OBVIOUS
  <2>1. x \in Message /\ broker[x] = "gone" /\ x # current[c] /\ CallsOf(x) = {}
    BY <1>3 DEF Lost, Process
  <2>2. \A d \in Consumer : current[d] = x => Doomed(d)
    BY <1>1, <2>1 DEF Lost, Doomed, Process
  <2> QED BY <2>1, <2>2 DEF Lost
<1>11. LossPaid'
  BY <1>10, LossPaidKept DEF Process, ConsumerTypeOK
<1> QED BY <1>4, <1>5, <1>6, <1>7, <1>8, <1>9, <1>11

\* A consumer goes on to its next message after the handlers returned or
\* raised.
LEMMA IdleInv ==
  ASSUME ConsumerAssumption, Inv, NEW c \in Consumer, LogKept(c),
         pc[c] = "processing", Idle(c), UNCHANGED <<broker, acks, connected, failures>>
  PROVE  Inv'
<1> USE DEF Inv
<1>1. /\ \A d \in Consumer : pc'[d] = IF d = c THEN "idle" ELSE pc[d]
      /\ \A d \in Consumer : current'[d] = IF d = c THEN NoMessage ELSE current[d]
      /\ \A d \in Consumer : row'[d] = IF d = c THEN 0 ELSE row[d]
      /\ NoMessage \notin Message
  BY DEF Idle, ConsumerTypeOK, ConsumerAssumption
<1>2. ConsumerTypeOK'
  BY DEF ConsumerTypeOK, Idle, LogKept, Position
<1>3. AtWork'
  BY <1>1 DEF AtWork
<1>4. RowsNamed'
  <2>1. \A d \in Consumer : HasRow(d)' => d # c /\ HasRow(d) /\ row[d] # row[c]
    BY <1>1 DEF HasRow, RowsNamed
  <2>2. \A d \in Consumer : HasRow(d)' => log'[row[d]] = log[row[d]] /\ row[d] \in DOMAIN log'
    BY <2>1 DEF LogKept, RowsNamed
  <2> QED BY <1>1, <2>1, <2>2 DEF RowsNamed
<1>5. AcksHeld'
  BY DEF AcksHeld
<1>6. Holding'
  BY <1>1 DEF Holding, ConsumerTypeOK
<1>7. Logged'
  <2>1. CallsOf(current[c]) # {}
    BY ProcessedCalled
  <2> QED BY <1>1, <2>1 DEF Logged, Acking, GoneIsLogged, LogKept
<1>8. \A m \in Message : Callers(m)' = Callers(m) /\ Waits(m)' = Waits(m)
  BY <1>1 DEF Callers, Waits
<1>9. CallsPaid'
  BY <1>8 DEF CallsPaid, LogKept
<1>10. Lost' \subseteq Lost
  <2>1. CallsOf(current[c]) # {}
    BY ProcessedCalled
  <2> QED BY <1>1, <2>1 DEF Lost, Doomed, LogKept
<1>11. LossPaid'
  BY <1>10, LossPaidKept DEF ConsumerTypeOK
<1> QED BY <1>2, <1>3, <1>4, <1>5, <1>6, <1>7, <1>9, <1>11

\* What a connection leaves behind.
LEMMA Disconnected ==
  ASSUME ConsumerAssumption, Inv, NEW c \in Consumer, Disconnect(c)
  PROVE  /\ broker' \in [Message -> {"unpublished", "ready", "gone"} \cup Consumer]
         /\ acks' \in [Consumer -> Seq(Message)]
         /\ connected' \subseteq Consumer /\ c \notin connected'
         /\ \A d \in Consumer : d # c => acks'[d] = acks[d] /\ (d \in connected' <=> d \in connected)
         /\ acks'[c] = <<>> /\ DOMAIN acks'[c] = {}
         /\ \A m \in Message : broker'[m] = IF broker[m] = c THEN "ready" ELSE broker[m]
         /\ \A m \in Message : broker'[m] = "gone" <=> broker[m] = "gone"
         /\ \A m \in Message : Waits(m)' <= Waits(m) + 1
         /\ c \notin connected => \A m \in Message : Waits(m)' = Waits(m)
         /\ AcksHeld'
<1> USE DEF Inv
<1>0. \A d \in Consumer : d \notin {"unpublished", "ready", "gone"}
  BY DEF ConsumerAssumption
<1>1. /\ broker' \in [Message -> {"unpublished", "ready", "gone"} \cup Consumer]
      /\ acks' \in [Consumer -> Seq(Message)]
      /\ connected' \subseteq Consumer /\ c \notin connected'
      /\ \A m \in Message : broker'[m] = IF broker[m] = c THEN "ready" ELSE broker[m]
  BY DEF Disconnect, ConsumerTypeOK
<1>2. /\ \A d \in Consumer : d # c => acks'[d] = acks[d] /\ (d \in connected' <=> d \in connected)
      /\ acks'[c] = <<>> /\ DOMAIN acks'[c] = {}
  BY DEF Disconnect, ConsumerTypeOK
<1>3. \A m \in Message : broker'[m] = "gone" <=> broker[m] = "gone"
  BY <1>0, <1>1
<1>4. \A m \in Message : Waits(m)' <= Waits(m) + 1
  BY <1>1 DEF Waits
<1>5. c \notin connected => \A m \in Message : Waits(m)' = Waits(m)
  BY <1>1 DEF AcksHeld, Waits
<1>6. AcksHeld'
  <2> SUFFICES ASSUME NEW d \in Consumer
               PROVE  /\ \A i \in DOMAIN acks'[d] : broker'[acks'[d][i]] = d
                      /\ \A i, j \in DOMAIN acks'[d] : acks'[d][i] = acks'[d][j] => i = j
                      /\ d \notin connected' => \A m \in Message : broker'[m] # d
    BY DEF AcksHeld
  <2>1. CASE d = c
    BY <1>0, <1>1, <1>2, <2>1
  <2>2. CASE d # c
    <3>1. \A i \in DOMAIN acks[d] : acks[d][i] \in Message /\ broker[acks[d][i]] = d
      BY DEF AcksHeld, ConsumerTypeOK
    <3> QED BY <1>0, <1>1, <1>2, <2>2, <3>1 DEF AcksHeld
  <2> QED BY <2>1, <2>2
<1> QED BY <1>1, <1>2, <1>3, <1>4, <1>5, <1>6

\* A process ends; by itself, or because it notices that it has lost its
\* connection, which costs no failure of its own.
LEMMA DownInv ==
  ASSUME ConsumerAssumption, Inv, NEW c \in Consumer, LogKept(c), Down(c),
         \/ failures' = failures + 1
         \/ /\ failures' = failures
            /\ c \notin connected /\ pc[c] \in {"idle", "saved"}
  PROVE  Inv'
<1> USE DEF Inv
<1>0. /\ \A d \in Consumer : pc'[d] = IF d = c THEN "down" ELSE pc[d]
      /\ \A d \in Consumer : current'[d] = IF d = c THEN NoMessage ELSE current[d]
      /\ \A d \in Consumer : row'[d] = IF d = c THEN 0 ELSE row[d]
      /\ NoMessage \notin Message /\ failures \in Nat
      /\ \A d \in Consumer : d \notin {"unpublished", "ready", "gone"}
  BY DEF Down, ConsumerTypeOK, ConsumerAssumption
<1>1. /\ broker' \in [Message -> {"unpublished", "ready", "gone"} \cup Consumer]
      /\ acks' \in [Consumer -> Seq(Message)]
      /\ connected' \subseteq Consumer /\ c \notin connected'
      /\ \A d \in Consumer : d # c => acks'[d] = acks[d] /\ (d \in connected' <=> d \in connected)
      /\ acks'[c] = <<>> /\ DOMAIN acks'[c] = {}
      /\ \A m \in Message : broker'[m] = IF broker[m] = c THEN "ready" ELSE broker[m]
      /\ \A m \in Message : broker'[m] = "gone" <=> broker[m] = "gone"
      /\ \A m \in Message : Waits(m)' <= Waits(m) + 1
      /\ c \notin connected => \A m \in Message : Waits(m)' = Waits(m)
      /\ AcksHeld'
  BY Disconnected DEF Down
<1>2. ConsumerTypeOK'
  <2>1. /\ pc' \in [Consumer -> Position] /\ current' \in [Consumer -> Message \cup {NoMessage}]
        /\ row' \in [Consumer -> Nat]
    BY DEF Down, ConsumerTypeOK, Position
  <2>2. failures' \in Nat
    BY <1>0
  <2> QED BY <1>1, <2>1, <2>2 DEF ConsumerTypeOK, LogKept
<1>3. AtWork'
  BY <1>0, <1>1 DEF AtWork
<1>4. RowsNamed'
  <2>1. \A d \in Consumer : HasRow(d)' => d # c /\ HasRow(d) /\ (HasRow(c) => row[d] # row[c])
    BY <1>0 DEF HasRow, RowsNamed
  <2>2. \A d \in Consumer : HasRow(d)' => log'[row[d]] = log[row[d]] /\ row[d] \in DOMAIN log'
    BY <2>1 DEF LogKept, RowsNamed
  <2> QED BY <1>0, <2>1, <2>2 DEF RowsNamed
<1>5. Holding'
  <2> SUFFICES ASSUME NEW d \in connected'
               PROVE  /\ pc[d] \in {"received", "saved"} =>
                           /\ broker'[current[d]] = d
                           /\ \A i \in DOMAIN acks[d] : acks[d][i] # current[d]
                      /\ pc[d] \in {"acked", "processing"} => broker'[current[d]] \in {d, "gone"}
    BY <1>0, <1>1 DEF Holding
  <2>1. d # c /\ d \in Consumer /\ d \in connected
    BY <1>1
  <2>2. pc[d] \notin {"idle", "down"} => current[d] \in Message
    BY <2>1 DEF ConsumerTypeOK, AtWork
  <2> QED BY <1>0, <1>1, <2>1, <2>2 DEF Holding
<1>6. Logged'
  <2>1. \A d \in Consumer, m \in Message : Acking(d, m)' => d # c /\ Acking(d, m)
    BY <1>1 DEF Acking
  <2> QED BY <1>0, <1>1, <2>1 DEF Logged, GoneIsLogged, LogKept
<1>7. CallsPaid'
  <2>1. \A m \in Message : CallsOf(m)' = CallsOf(m) /\ Callers(m)' \subseteq Callers(m)
    BY <1>0 DEF Callers, LogKept
  <2>2. \A m \in Message : Waits(m)' <= Waits(m) + failures' - failures
    BY <1>0, <1>1 DEF Waits
  <2>3. failures' \in Nat /\ failures <= failures'
    BY <1>0
  <2> QED BY <2>1, <2>2, <2>3, CallsPaidKept
<1>8. \A d \in Consumer : d # c => (Doomed(d)' <=> Doomed(d))
  BY <1>0, <1>1 DEF Doomed
<1>9. Lost' \subseteq Lost \cup {current[c]}
  BY <1>0, <1>1, <1>8 DEF Lost, LogKept
<1>10. CASE failures' = failures + 1
  <2>1. LossPaid'
    BY <1>9, <1>10, LossPaidByFailure
  <2> QED BY <1>1, <1>2, <1>3, <1>4, <1>5, <1>6, <1>7, <2>1
<1>11. CASE failures' = failures /\ c \notin connected /\ pc[c] \in {"idle", "saved"}
  <2>1. current[c] \in Message => Doomed(c)
    BY <1>0, <1>11 DEF AtWork, Doomed
  <2>2. Lost' \subseteq Lost
    <3> SUFFICES ASSUME NEW x \in Lost', NEW d \in Consumer, current[d] = x
                 PROVE  Doomed(d)
      BY <1>1 DEF Lost, LogKept
    <3>1. x \in Message /\ (d # c => current'[d] = x)
      BY <1>0 DEF Lost
    <3> QED BY <1>8, <2>1, <3>1 DEF Lost
  <2>3. LossPaid'
    BY <1>0, <1>11, <2>2, LossPaidKept
  <2> QED BY <1>1, <1>2, <1>3, <1>4, <1>5, <1>6, <1>7, <2>3
<1> QED BY <1>10, <1>11

LEMMA DropInv ==
  ASSUME ConsumerAssumption, Inv, NEW c \in Consumer, Drop(c)
  PROVE  Inv'
<1> USE DEF Inv
<1>1. /\ broker' \in [Message -> {"unpublished", "ready", "gone"} \cup Consumer]
      /\ acks' \in [Consumer -> Seq(Message)]
      /\ connected' \subseteq Consumer /\ c \notin connected'
      /\ \A d \in Consumer : d # c => acks'[d] = acks[d] /\ (d \in connected' <=> d \in connected)
      /\ acks'[c] = <<>> /\ DOMAIN acks'[c] = {}
      /\ \A m \in Message : broker'[m] = IF broker[m] = c THEN "ready" ELSE broker[m]
      /\ \A m \in Message : broker'[m] = "gone" <=> broker[m] = "gone"
      /\ \A m \in Message : Waits(m)' <= Waits(m) + 1
      /\ AcksHeld'
  BY Disconnected DEF Drop
<1>2. /\ c \in connected /\ failures' = failures + 1 /\ failures \in Nat
      /\ UNCHANGED <<pc, current, log, row>>
      /\ \A d \in Consumer : d \notin {"unpublished", "ready", "gone"}
  BY DEF Drop, ConsumerTypeOK, ConsumerAssumption
<1>3. ConsumerTypeOK'
  BY <1>1, <1>2 DEF ConsumerTypeOK
<1>4. AtWork' /\ RowsNamed'
  BY <1>1, <1>2 DEF AtWork, RowsNamed, HasRow
<1>5. Holding'
  <2> SUFFICES ASSUME NEW d \in connected'
               PROVE  /\ pc[d] \in {"received", "saved"} =>
                           /\ broker'[current[d]] = d
                           /\ \A i \in DOMAIN acks[d] : acks[d][i] # current[d]
                      /\ pc[d] \in {"acked", "processing"} => broker'[current[d]] \in {d, "gone"}
    BY <1>1, <1>2 DEF Holding
  <2>1. d # c /\ d \in Consumer /\ d \in connected
    BY <1>1
  <2>2. pc[d] \notin {"idle", "down"} => current[d] \in Message
    BY <2>1 DEF ConsumerTypeOK, AtWork
  <2> QED BY <1>1, <1>2, <2>1, <2>2 DEF Holding
<1>6. \A m \in Message : RowsOf(m)' = RowsOf(m) /\ CallsOf(m)' = CallsOf(m)
  BY <1>2 DEF RowsOf, CallsOf
<1>7. Logged'
  <2>1. \A d \in Consumer, m \in Message : Acking(d, m)' => d # c /\ Acking(d, m)
    BY <1>1 DEF Acking
  <2> QED BY <1>1, <1>2, <1>6, <2>1 DEF Logged, GoneIsLogged
<1>8. CallsPaid'
  <2>1. \A m \in Message : CallsOf(m)' = CallsOf(m) /\ Callers(m)' \subseteq Callers(m)
    BY <1>2, <1>6 DEF Callers
  <2>2. \A m \in Message : Waits(m)' <= Waits(m) + failures' - failures
    BY <1>1, <1>2 DEF Waits
  <2>3. failures' \in Nat /\ failures <= failures'
    BY <1>2
  <2> QED BY <2>1, <2>2, <2>3, CallsPaidKept
<1>9. Lost' \subseteq Lost
  <2> SUFFICES ASSUME NEW x \in Lost', NEW d \in Consumer, current[d] = x
               PROVE  Doomed(d)
    BY <1>1, <1>6 DEF Lost
  <2>1. x \in Message /\ broker[x] = "gone" /\ Doomed(d)'
    BY <1>1, <1>2 DEF Lost
  <2>2. CASE d # c
    BY <1>1, <1>2, <2>1, <2>2 DEF Doomed
  <2>3. CASE d = c
    <3>1. pc[c] \in {"received", "saved"}
      BY <1>2, <2>1, <2>3 DEF Doomed
    <3>2. broker[x] = c
      BY <1>2, <2>3, <3>1 DEF Holding
    <3> QED BY <1>2, <2>1, <3>2
  <2> QED BY <2>2, <2>3
<1>10. LossPaid'
  BY <1>2, <1>9, LossPaidKept
<1> QED BY <1>1, <1>3, <1>4, <1>5, <1>7, <1>8, <1>10

LEMMA RestartInv ==
  ASSUME ConsumerAssumption, Inv, NEW c \in Consumer, Restart(c)
  PROVE  Inv'
<1> USE DEF Inv
<1>1. /\ \A d \in Consumer : pc'[d] = IF d = c THEN "idle" ELSE pc[d]
      /\ connected' = connected \cup {c} /\ pc[c] = "down" /\ current[c] = NoMessage
      /\ UNCHANGED <<broker, acks, current, log, row, failures>>
      /\ NoMessage \notin Message
  BY DEF Restart, ConsumerTypeOK, AtWork, ConsumerAssumption
<1>2. ConsumerTypeOK'
  BY <1>1 DEF ConsumerTypeOK, Restart, Position
<1>3. AtWork' /\ RowsNamed'
  BY <1>1 DEF AtWork, RowsNamed, HasRow
<1>4. AcksHeld'
  BY <1>1 DEF AcksHeld
<1>5. Holding'
  BY <1>1 DEF Holding, ConsumerTypeOK
<1>6. \A m \in Message : RowsOf(m)' = RowsOf(m) /\ CallsOf(m)' = CallsOf(m)
  BY <1>1 DEF RowsOf, CallsOf
<1>7. Logged'
  BY <1>1, <1>6 DEF Logged, Acking, GoneIsLogged
<1>8. \A m \in Message : Callers(m)' = Callers(m) /\ Waits(m)' = Waits(m)
  BY <1>1 DEF Callers, Waits
<1>9. CallsPaid'
  BY <1>1, <1>6, <1>8 DEF CallsPaid
<1>10. Lost' \subseteq Lost
  BY <1>1, <1>6 DEF Lost, Doomed
<1>11. LossPaid'
  BY <1>1, <1>10, LossPaidKept DEF ConsumerTypeOK
<1> QED BY <1>2, <1>3, <1>4, <1>5, <1>7, <1>9, <1>11

LEMMA StutterInv == ASSUME Inv, UNCHANGED consumerVars PROVE Inv'
<1>1. (ConsumerTypeOK /\ AtWork /\ RowsNamed /\ AcksHeld /\ Holding)'
  BY DEF Inv, consumerVars, ConsumerTypeOK, AtWork, RowsNamed, HasRow, AcksHeld, Holding
<1>2. \A m \in Message :
        /\ RowsOf(m)' = RowsOf(m) /\ CallsOf(m)' = CallsOf(m)
        /\ Callers(m)' = Callers(m) /\ Waits(m)' = Waits(m)
  BY DEF consumerVars, RowsOf, CallsOf, Callers, Waits
<1>3. Logged' /\ CallsPaid'
  BY <1>2 DEF Inv, consumerVars, Logged, Acking, GoneIsLogged, CallsPaid
<1>4. Lost' = Lost
  BY <1>2 DEF consumerVars, Lost, Doomed
<1>5. LossPaid'
  BY <1>4 DEF Inv, consumerVars, LossPaid
<1> QED BY <1>1, <1>3, <1>5 DEF Inv

LEMMA NextInv ==
  ASSUME ConsumerAssumption, Inv, [ConsumerNext]_consumerVars
  PROVE  Inv'
<1>1. CASE \E m \in Message : Publish(m)
  BY <1>1, PublishInv
<1>2. ASSUME NEW c \in Consumer,
             \/ \E m \in Message : Receive(c, m)
             \/ Save(c) \/ Ack(c) \/ Process(c) \/ AckArrives(c) \/ Restart(c) \/ Drop(c)
      PROVE  Inv'
  BY <1>2, ReceiveInv, SaveInv, AckInv, ProcessInv, AckArrivesInv, RestartInv, DropInv
<1>3. ASSUME NEW c \in Consumer, Return(c) \/ Raise(c)
      PROVE  Inv'
  <2>1. LogKept(c) /\ pc[c] = "processing"
    BY <1>3, OutcomeWritten DEF Return, Raise
  <2>2. CASE Idle(c) /\ UNCHANGED <<broker, acks, connected, failures>>
    BY <2>1, <2>2, IdleInv
  <2>3. CASE Down(c) /\ failures' = failures + 1
    BY <2>1, <2>3, DownInv
  <2> QED BY <1>3, <2>2, <2>3 DEF Return, Raise
<1>4. ASSUME NEW c \in Consumer, CrashConsumer(c) \/ Notice(c)
      PROVE  Inv'
  <2>1. LogKept(c)
    BY <1>4, UnchangedLog DEF CrashConsumer, Notice, Inv
  <2> QED BY <1>4, <2>1, DownInv DEF CrashConsumer, Notice
<1>5. CASE UNCHANGED consumerVars
  BY <1>5, StutterInv
<1> QED BY <1>1, <1>2, <1>3, <1>4, <1>5 DEF ConsumerNext, Work

LEMMA InvHolds == ConsumerSpec => []Inv
<1>1. ConsumerInit => Inv
  BY ConsumerAssumption, InitInv
<1>2. Inv /\ [ConsumerNext]_consumerVars => Inv'
  BY ConsumerAssumption, NextInv
<1> QED BY <1>1, <1>2, PTL DEF ConsumerSpec

\* A message that is gone from the broker has left a row, wherever consumers
\* died or lost their connections.
THEOREM AcknowledgedIsLogged == ConsumerSpec => []GoneIsLogged
<1>1. Inv => GoneIsLogged
  BY DEF Inv, Logged
<1> QED BY <1>1, InvHolds, PTL

\* Two consumers with a connection have different messages: what a consumer
\* takes is ready, and Holding keeps the others' messages from being that.
LEMMA HandsApart ==
  ASSUME ConsumerAssumption, Inv, OneHolder, [ConsumerNext]_consumerVars
  PROVE  OneHolder'
<1> USE DEF Inv
<1>1. ASSUME NEW e \in Consumer, \E m \in Message : Receive(e, m)
      PROVE  OneHolder'
  <2>1. PICK m \in Message : Receive(e, m)
    BY <1>1
  <2>2. /\ \A c \in Consumer : current'[c] = IF c = e THEN m ELSE current[c]
        /\ connected' = connected /\ connected \subseteq Consumer
        /\ broker[m] = "ready" /\ m # NoMessage
    BY <2>1 DEF Receive, ConsumerTypeOK, ConsumerAssumption
  <2>3. ASSUME NEW c \in connected, c # e
        PROVE  current[c] # m
    <3>1. c \in Consumer /\ c # "ready" /\ pc[c] \in Position
      BY <2>2 DEF ConsumerTypeOK, ConsumerAssumption
    <3>2. CASE pc[c] \in {"idle", "down"}
      BY <2>2, <3>1, <3>2 DEF AtWork
    <3>3. CASE pc[c] \notin {"idle", "down"}
      BY <2>2, <3>1, <3>3 DEF Holding, Position
    <3> QED BY <3>2, <3>3
  <2> QED BY <2>2, <2>3 DEF OneHolder
<1>2. ASSUME NEW e \in Consumer, Restart(e)
      PROVE  OneHolder'
  <2>1. current[e] = NoMessage /\ connected' = connected \cup {e} /\ current' = current
    BY <1>2 DEF Restart, AtWork
  <2> QED BY <2>1 DEF OneHolder
<1>3. ASSUME NEW e \in Consumer, connected' \subseteq connected,
             current' = [current EXCEPT ![e] = NoMessage]
      PROVE  OneHolder'
  <2>1. \A c \in connected' :
          c \in Consumer /\ c \in connected /\ current'[c] = IF c = e THEN NoMessage ELSE current[c]
    BY <1>3 DEF ConsumerTypeOK
  <2> QED BY <2>1 DEF OneHolder
<1>4. CASE connected' \subseteq connected /\ current' = current
  BY <1>4 DEF OneHolder
<1>5. ASSUME NEW e \in Consumer, Return(e) \/ Raise(e) \/ CrashConsumer(e) \/ Notice(e)
      PROVE  OneHolder'
  BY <1>3, <1>5 DEF Return, Raise, CrashConsumer, Notice, Idle, Down, Disconnect
<1>6. ASSUME NEW e \in Consumer, Save(e) \/ Ack(e) \/ Process(e) \/ AckArrives(e) \/ Drop(e)
      PROVE  OneHolder'
  BY <1>4, <1>6 DEF Save, Ack, Process, AckArrives, Drop, Disconnect
<1>7. CASE (\E m \in Message : Publish(m)) \/ UNCHANGED consumerVars
  BY <1>4, <1>7 DEF Publish, consumerVars
<1> QED BY <1>1, <1>2, <1>5, <1>6, <1>7 DEF ConsumerNext, Work

\* However many consumers there are and whatever fails: a failure costs at
\* most one message that no handler sees and one call that is made again, and
\* two consumers with a connection never work on the same message.
THEOREM FailuresCostOne == ConsumerSpec => []FailureCostsOne
<1>1. Inv /\ OneHolder => FailureCostsOne
  <2> SUFFICES ASSUME Inv, OneHolder PROVE FailureCostsOne
    OBVIOUS
  <2> USE DEF Inv
  <2>1. FailureSkipsOne
    <3>1. Skipped \in SUBSET Lost
      BY DEF Skipped, Lost
    <3>2. IsFiniteSet(Lost) /\ Cardinality(Lost) <= failures /\ failures \in Nat
      BY DEF LossPaid, ConsumerTypeOK
    <3>3. IsFiniteSet(Skipped) /\ Cardinality(Skipped) <= Cardinality(Lost)
      BY <3>1, <3>2, FS_Subset
    <3>4. Cardinality(Skipped) \in Nat /\ Cardinality(Lost) \in Nat
      BY <3>2, <3>3, FS_CardinalityType
    <3> QED BY <3>2, <3>3, <3>4 DEF FailureSkipsOne
  <2>2. CallsBounded
    <3> SUFFICES ASSUME NEW m \in Message PROVE Cardinality(CallsOf(m)) <= failures + 1
      BY DEF CallsBounded
    <3>1. /\ IsFiniteSet(CallsOf(m)) /\ IsFiniteSet(Callers(m)) /\ failures \in Nat
          /\ Cardinality(CallsOf(m)) + Cardinality(Callers(m)) + Waits(m) <= failures + 1
      BY DEF CallsPaid, ConsumerTypeOK
    <3>2. Cardinality(CallsOf(m)) \in Nat /\ Cardinality(Callers(m)) \in Nat /\ Waits(m) \in Nat
      BY <3>1, FS_CardinalityType DEF Waits
    <3> QED BY <3>1, <3>2
  <2> QED BY <2>1, <2>2 DEF FailureCostsOne
<1>2. ConsumerInit => OneHolder
  BY DEF ConsumerInit, OneHolder
<1>3. Inv /\ OneHolder /\ [ConsumerNext]_consumerVars => OneHolder'
  BY ConsumerAssumption, HandsApart
<1> QED BY <1>1, <1>2, <1>3, InvHolds, PTL DEF ConsumerSpec
================================================================================
