------------------------------ MODULE MCLease ------------------------------
(* Two controller-managers with clocks one unit apart; one of them faulty. *)
EXTENDS Lease

CONSTANTS m1, m2

MCManagers == {m1, m2}
MCFaulty == {m1}
MCOffset == [m \in Managers |-> IF m = m1 THEN 0 ELSE 1]
=============================================================================
