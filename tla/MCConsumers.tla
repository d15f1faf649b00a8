----------------------------- MODULE MCConsumers -----------------------------
(* MessageConsumer and ProductDetailSync on a few messages, products and   *)
(* brands: the two kinds of consumers the application runs.  They share no *)
(* state, so a behaviour is about one of them.  The other one has nothing  *)
(* to do and is not owed a step: the fairness of both is assumed together. *)
EXTENDS MessageConsumer, ProductDetailSync

VARIABLE part  \* which consumers the behaviour is about

ConsumersInit ==
  /\ ConsumerInit /\ Init
  /\ part \in {"messages", "details"}

ConsumersNext ==
  \/ part = "messages" /\ ConsumerNext /\ UNCHANGED <<vars, part>>
  \/ part = "details" /\ Next /\ UNCHANGED <<consumerVars, part>>

ConsumersSpec ==
  /\ ConsumersInit /\ [][ConsumersNext]_<<consumerVars, vars, part>>
  /\ ConsumerFairness /\ Fairness
=============================================================================
