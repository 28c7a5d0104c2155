---------------------------- MODULE MCDeployment ----------------------------
(* Two containers, each of an old or the last release, started by either script. *)
EXTENDS Deployment
CONSTANTS c1, c2

\* The containers are alike, so one order of their images is enough.
Rank(i) == 2 * i.release + (IF i.script = "combined" THEN 1 ELSE 0)
MCInit == Init /\ Rank(image[c1]) <= Rank(image[c2])
MCSpec == MCInit /\ [][Next]_vars /\ Fairness
=============================================================================
