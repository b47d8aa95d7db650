---------------------------- MODULE MCAggregates ----------------------------
EXTENDS Aggregates, TLC

Inspecting == [c \in Clients |-> MODIFY]
EveryKind == AllKinds
Interchangeable ==
    Permutations(Clients) \cup Permutations(Aggregates)
        \cup Permutations(Children)
=============================================================================
