------------------------ MODULE MCPublisherLifecycle ------------------------
(* Instances of PublisherLifecycle for TLC.                                *)
EXTENDS PublisherLifecycle, TLC

(* Threads and descriptors are interchangeable.                            *)
Interchange == Permutations(Apps) \cup Permutations(Recvs) \cup Permutations(Keeps)
                 \cup Permutations(Sockets)
=============================================================================
