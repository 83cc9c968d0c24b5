-------------------------- MODULE MCAsebaEndpoint --------------------------
(* Calls of one, two and three messages, and an empty one. *)
EXTENDS AsebaEndpoint

CONSTANTS one, two, three, empty

MCBatches == {one, two, three, empty}

MCFilled == MCBatches \ {empty}

MCBatchSize ==
  [b \in Batches |-> CASE b = one -> 1 [] b = two -> 2 [] b = three -> 3 [] b = empty -> 0]
=============================================================================
