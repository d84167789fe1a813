------------------------- MODULE MCPublishTracking -------------------------
(* Instances of PublishTracking for TLC.                                   *)
EXTENDS PublishTracking, TLC

(* The requests that use the table, and so can disturb one another.        *)
MCRequests ==
  {[api |-> "publish",      qos |-> 1, cb |-> FALSE],
   [api |-> "publishAsync", qos |-> 1, cb |-> TRUE]}

(* All of them.                                                            *)
MCAllRequests == Request

(* The calls only ask whether the client is connected.                     *)
MCStates == {"Disconnected", "Connected"}

CallSymmetry == Permutations(Calls)
=============================================================================
