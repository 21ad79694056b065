--------------------------- MODULE MCLocalTimers ---------------------------
(* A small instance of LocalTimers: two slots, two ids that a name cannot  *)
(* tell apart, one device task.                                            *)
EXTENDS LocalTimers

CONSTANTS i1, i2, n1, d1

MCRequests ==
  {[id |-> i1, name |-> n1, duration |-> d1, replace |-> FALSE],
   [id |-> i2, name |-> n1, duration |-> d1, replace |-> TRUE]}

MCPayloads ==
  {EmptyPayload,
   [EmptyPayload EXCEPT !.id = i1],
   [EmptyPayload EXCEPT !.name = n1]}

=============================================================================
