---------------------------- MODULE MessageFifo ----------------------------
(***************************************************************************)
(* What one direction of a mailbox channel promises: the packages a       *)
(* producer has published are delivered to the consumer in the order they *)
(* were published, each exactly once, and none is delivered that was not  *)
(* published.  queue is what is published and not yet delivered;         *)
(* delivered is the history of deliveries.                                 *)
(***************************************************************************)
EXTENDS Sequences

CONSTANT Msgs

VARIABLES queue, delivered

fifoVars == <<queue, delivered>>

Init ==
  /\ queue = <<>>
  /\ delivered = <<>>

Publish(m) ==
  /\ queue' = Append(queue, m)
  /\ UNCHANGED delivered

Deliver ==
  /\ queue # <<>>
  /\ delivered' = Append(delivered, Head(queue))
  /\ queue' = Tail(queue)

Next == (\E m \in Msgs : Publish(m)) \/ Deliver

Spec == Init /\ [][Next]_fifoVars

\* A consumer that keeps running delivers everything published.
FairSpec == Spec /\ WF_fifoVars(Deliver)

=============================================================================
