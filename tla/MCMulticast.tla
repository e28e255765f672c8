---------------------------- MODULE MCMulticast -----------------------------
(***************************************************************************)
(* Multicast for model checking: the nodes that exist, and sender tags.    *)
(***************************************************************************)
EXTENDS Multicast, TLC

CONSTANTS s1, s2, s3, x, y, z

MCNodes == Msgs \X Peers

PeerSymmetry == Permutations(Peers)

\* s1 sends two messages, the others one.
TwoAndOne == s1 :> 2 @@ s2 :> 1 @@ s3 :> 1

\* Every sender sends one message.
OneEach == s1 :> 1 @@ s2 :> 1 @@ s3 :> 1

\* Every sending thread belongs to a peer of its own.
DistinctTags == s1 :> 1 @@ s2 :> 2 @@ s3 :> 3

\* s1 and s2 are two threads of one peer.
SharedTag == s1 :> 1 @@ s2 :> 1 @@ s3 :> 3

\* Every sender may address any set of peers.
AnyRoute == [s \in Senders |-> SUBSET Peers]

\* Three multicasts that overlap pairwise in one peer each.
Ring == s1 :> {{x, y}} @@ s2 :> {{y, z}} @@ s3 :> {{z, x}}

=============================================================================
