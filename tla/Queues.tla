-------------------------------- MODULE Queues --------------------------------
(***************************************************************************)
(* Unlinking elements from a queue: q without the elements of S, the       *)
(* others in their order.                                                  *)
(***************************************************************************)
EXTENDS Integers, Sequences

Excluding(q, S) ==
  LET keep[n \in 0..Len(q)] ==
        IF n = 0 THEN <<>>
        ELSE IF q[n] \in S THEN keep[n - 1] ELSE Append(keep[n - 1], q[n])
  IN  keep[Len(q)]

(* The elements of a queue.                                                *)
Elements(q) == {q[i] : i \in 1..Len(q)}
===============================================================================
