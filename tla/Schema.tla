------------------------------- MODULE Schema -------------------------------
(***************************************************************************)
(* A PostgreSQL schema and what the operations of a migration do to it.    *)
(*                                                                         *)
(* A schema is its tables, the references between them (table, table),     *)
(* its parts (columns, named constraints and indexes that matter to some   *)
(* migration: table, name), its enumeration types and the tables that hold *)
(* rows.  An operation that PostgreSQL or Alembic refuses makes it         *)
(* Broken, as the exception ends the run.                                  *)
(***************************************************************************)
EXTENDS Integers, Sequences

Empty == [ok |-> TRUE, tables |-> {}, refs |-> {}, parts |-> {}, types |-> {}, rows |-> {}]
Broken == [Empty EXCEPT !.ok = FALSE]

Op(kind, table, to, names) == [kind |-> kind, table |-> table, to |-> to, names |-> names]

Create(t, to, names)        == Op("create", t, to, names)
CreateMissing(t, to, names) == Op("create missing", t, to, names)
Drop(t)                     == Op("drop", t, {}, {})
DropPresent(t)              == Op("drop present", t, {}, {})
Add(t, names)               == Op("add", t, {}, names)
Fill(t, names)              == Op("fill", t, {}, names)     \* NOT NULL and no default
AddMissing(ts, names)       == Op("add missing", "", ts, names)
Ensure(t, names)            == Op("ensure", t, {}, names)
Lose(t, names)              == Op("lose", t, {}, names)
LosePresent(ts, names)      == Op("lose present", "", ts, names)
Refer(t, u)                 == Op("refer", t, {u}, {})
ReferMissing(t, u)          == Op("refer missing", t, {u}, {})
Unrefer(t, u)               == Op("unrefer", t, {u}, {})
Types(names)                == Op("types", "", {}, names)
TypeMissing(name)           == Op("type missing", "", {}, {name})
DropType(name)              == Op("drop type", "", {}, {name})
Raise                       == Op("raise", "", {}, {})

PartsOf(t, names) == {t} \X names
RefsOf(t, to) == {t} \X to

\* What PostgreSQL drops with these columns: an index on created_at goes with it.
Lost(ts, names) ==
  ts \X (names \cup IF "created_at" \in names THEN {"idx_created"} ELSE {})

(* What PostgreSQL accepts: a new table has a new name and refers to tables *)
(* that exist; a table others refer to is not dropped; nothing is added     *)
(* twice or dropped when it is not there; a column that may not be null and *)
(* has no default is not added to a table that holds rows.                  *)
Legal(s, o) ==
  /\ s.ok /\ o.kind # "raise"
  /\ o.kind \in {"create", "create missing"} =>
        /\ o.to \subseteq s.tables \cup {o.table}
        /\ o.kind = "create" => o.table \notin s.tables
  /\ o.kind = "drop" => o.table \in s.tables
  /\ o.kind \in {"drop", "drop present"} =>
        \A r \in s.refs : r[2] = o.table => r[1] = o.table
  /\ o.kind \in {"add", "fill", "lose"} => o.table \in s.tables
  /\ o.kind = "add missing" => o.to \subseteq s.tables
  /\ o.kind \in {"add", "fill"} => PartsOf(o.table, o.names) \cap s.parts = {}
  /\ o.kind = "fill" => o.table \notin s.rows
  /\ o.kind = "lose" => PartsOf(o.table, o.names) \subseteq s.parts
  /\ o.kind = "refer" => {o.table} \cup o.to \subseteq s.tables
  /\ o.kind = "unrefer" => RefsOf(o.table, o.to) \subseteq s.refs
  /\ o.kind = "types" => o.names \cap s.types = {}

\* A table goes with its rows, references and parts.
Without(s, t) ==
  [s EXCEPT !.tables = @ \ {t}, !.rows = @ \ {t},
            !.refs = {r \in @ : r[1] # t}, !.parts = {p \in @ : p[1] # t}]

Effect(s, o) ==
  CASE o.kind = "create" \/ (o.kind = "create missing" /\ o.table \notin s.tables) ->
         [s EXCEPT !.tables = @ \cup {o.table}, !.refs = @ \cup RefsOf(o.table, o.to),
                   !.parts = @ \cup PartsOf(o.table, o.names)]
    [] o.kind \in {"drop", "drop present"} -> Without(s, o.table)
    [] o.kind = "add missing" -> [s EXCEPT !.parts = @ \cup (o.to \X o.names)]
    [] o.kind \in {"add", "fill"} \/ (o.kind = "ensure" /\ o.table \in s.tables) ->
         [s EXCEPT !.parts = @ \cup PartsOf(o.table, o.names)]
    [] o.kind = "lose" -> [s EXCEPT !.parts = @ \ Lost({o.table}, o.names)]
    [] o.kind = "lose present" -> [s EXCEPT !.parts = @ \ Lost(o.to, o.names)]
    [] o.kind = "refer" \/ (o.kind = "refer missing" /\ o.table \in s.tables) ->
         [s EXCEPT !.refs = @ \cup RefsOf(o.table, o.to)]
    [] o.kind = "unrefer" -> [s EXCEPT !.refs = @ \ RefsOf(o.table, o.to)]
    [] o.kind \in {"types", "type missing"} -> [s EXCEPT !.types = @ \cup o.names]
    [] o.kind = "drop type" -> [s EXCEPT !.types = @ \ o.names]
    [] OTHER -> s

\* The sets of one make TLC evaluate their element once, also in ENABLED.
Apply(s, o) ==
  CHOOSE r \in {IF Legal(b, p) THEN Effect(b, p) ELSE Broken : b \in {s}, p \in {o}} : TRUE

\* The operations of l one after the other.
Run(s, l) ==
  LET after[i \in 0 .. Len(l)] == IF i = 0 THEN s ELSE Apply(after[i - 1], l[i])
  IN  after[Len(l)]

Model(t, to, names) == [table |-> t, to |-> to, names |-> names]
=============================================================================
