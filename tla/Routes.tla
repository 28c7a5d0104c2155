-------------------------------- MODULE Routes --------------------------------
(***************************************************************************)
(* Where the revisions lead: the places - a revision and the schema found  *)
(* with it - that upgrades and downgrades reach from an empty database, in *)
(* any order and number.  The assumptions name no constant: they are       *)
(* computations on the 23 revisions there are.                             *)
(***************************************************************************)
EXTENDS Revisions

Latest == Len(Revisions)
Start == [version |-> 0, schema |-> Empty]

Raised(p) == [version |-> p.version + 1, schema |-> Run(p.schema, Revisions[p.version + 1].up)]
Lowered(p) == [version |-> p.version - 1, schema |-> Run(p.schema, Revisions[p.version].down)]

\* One revision up or down, unless PostgreSQL or the revision refuses.
After(p) ==
  {q \in (IF p.version < Latest THEN {Raised(p)} ELSE {})
         \cup (IF p.version > 0 THEN {Lowered(p)} ELSE {}) : q.schema.ok}

Uphill[v \in 0 .. Latest] == IF v = 0 THEN Start ELSE Raised(Uphill[v - 1])

\* Forty steps are more than enough, as RoutesAreKnown says.
Reached[n \in 0 .. 40] ==
  IF n = 0 THEN {Start} ELSE UNION {{p} \cup After(p) : p \in Reached[n - 1]}
Known == Reached[40]

Fits(s, m) ==
  /\ m.table \in s.tables
  /\ RefsOf(m.table, m.to) \subseteq s.refs
  /\ PartsOf(m.table, m.names) \subseteq s.parts

(* A revision is a list of operations in either direction. *)
ASSUME RevisionsAreLists ==
  /\ Latest \in Nat
  /\ \A v \in 1 .. Latest : \A l \in {Revisions[v].up, Revisions[v].down} :
       Len(l) \in Nat /\ DOMAIN l = 1 .. Len(l)

(* No order of upgrades and downgrades leads anywhere else. *)
ASSUME RoutesAreKnown == Start \in Known /\ \A p \in Known : After(p) \subseteq Known

(* Wherever one arrives at the last revision, what the models name is there. *)
ASSUME LatestFits == \A p \in Known : p.version = Latest => \A m \in Models : Fits(p.schema, m)

(* On tables without rows all upgrades go through. *)
ASSUME UpgradesGoThrough ==
  /\ Uphill[0] = Start
  /\ \A v \in 1 .. Latest : Uphill[v] = Raised(Uphill[v - 1]) /\ Uphill[v].schema.ok
=============================================================================
