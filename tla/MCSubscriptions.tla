-------------------------- MODULE MCSubscriptions --------------------------
(* Instances of Subscriptions for TLC.                                     *)
EXTENDS Subscriptions, TLC

CONSTANTS t1, t2

(* Either operation on one topic, and a subscription to another.           *)
MCRequests ==
  {[op |-> "subscribe", topic |-> t1], [op |-> "unsubscribe", topic |-> t1],
   [op |-> "subscribe", topic |-> t2]}

(* As a filter, the second topic matches the first, too.                   *)
MCMatches == {<<t1, t1>>, <<t1, t2>>, <<t2, t2>>}

(* Without filters, on one topic.                                          *)
MCSubscribe == {[op |-> "subscribe", topic |-> t1]}
MCExact     == {<<t1, t1>>}

CallSymmetry == Permutations(Calls)
=============================================================================
