-------------------------------- MODULE MCChat ---------------------------------
(* Chat with model values for its sets, and a few kinds of behaviour.           *)
EXTENDS Chat, TLC

Symmetric == Permutations(Readers) \cup Permutations(Stories) \cup Permutations(Messages)

\* first: pages of one reader; other: of everybody else.
Plan(first, other, texts, faults) ==
    {[visits |-> [c \in Readers |-> IF c = d THEN first ELSE other], texts |-> texts,
      faults |-> faults] : d \in Readers}

\* A reader alone that moves, types or is disconnected; then in company.
Plans ==
    UNION {Plan(3, 0, 0, 0), Plan(1, 0, 3, 0), Plan(2, 0, 1, 0), Plan(2, 0, 0, 1), Plan(1, 0, 2, 1),
           Plan(2, 1, 0, 0), Plan(1, 1, 0, 1), Plan(1, 1, 1, 0)}
===============================================================================
