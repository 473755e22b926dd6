------------------------- MODULE MCErasureCoordinator -------------------------
(* Instances of ErasureCoordinator for TLC.                                *)
EXTENDS ErasureCoordinator, TLC

CONSTANTS u1, u2, s1, s2

\* The ids a_b, a1 and b, as localeCompare sorts them; SQL sorts a1 before a_b.
Ids == 1..3
BinaryRank == <<2, 1, 3>>
Alike == {1, 3}
Clashing == {1, 2}

RequestFor(T) == [subject |-> s1, targets |-> [t \in T |-> u1]]

\* One subject and one target set: the calls are retries of one request.
OneRequest == {RequestFor(Alike)}
OneClashing == {RequestFor(Clashing)}

\* Retries and a request for another subject, one whose second target has
\* moved, one that has lost its second target and one for ids that clash.
MixedRequests ==
    {RequestFor(Alike), RequestFor({1}), RequestFor(Clashing),
     [RequestFor(Alike) EXCEPT !.subject = s2],
     [RequestFor(Alike) EXCEPT !.targets[3] = u2]}

CallSymmetry == Permutations(Calls)
=============================================================================
