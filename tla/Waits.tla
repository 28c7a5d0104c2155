-------------------------------- MODULE Waits --------------------------------
(***************************************************************************)
(* Sessions that wait for row locks of others, as PostgreSQL's deadlock    *)
(* detector sees them: a set S of sessions and the set E of the pairs      *)
(* <<s, u>> such that s waits for u.                                       *)
(***************************************************************************)

(* The pairs of E do not lead out of R. *)
Closed(R, E) == \A e \in E : e[1] \in R => e[2] \in R

(* s waits for u, directly or through others: whatever set holds whom s     *)
(* waits for, and whom these wait for, and so on, holds u.                  *)
Behind(s, u, E, S) ==
    \A R \in SUBSET S : Closed(R, E) /\ {v \in S : <<s, v>> \in E} \subseteq R => u \in R

OnCycle(s, E, S) == Behind(s, s, E, S)

(* s itself, or one it waits for in the end, is one of M. *)
HasWayOut(s, M, E, S) == \E u \in S \intersect M : u = s \/ Behind(s, u, E, S)
=============================================================================
