------------------------------ MODULE MCOutbox ------------------------------
(* Instances of Outbox.  Row 1 has two subscribers; row 2 is a gateway      *)
(* proposal; row 3 has one subscriber; row 4 is one the secret scanner      *)
(* objects to; row 5 has a blank subscription only.                          *)
EXTENDS Outbox, TLC, Sequences

CONSTANTS d1, d2, t1, t2, blank

MCTargets == {t1, t2, blank}

MCSubs == [k \in Keys |-> IF k = 1 THEN <<t1, t2>>
                           ELSE IF k = 5 THEN <<blank>> ELSE <<t2>>]

Symmetry == Permutations({d1, d2})

=============================================================================
