----------------------------- MODULE Deployment -----------------------------
(***************************************************************************)
(* Containers of several releases start, migrate the database and serve.   *)
(*                                                                         *)
(* scripts/entrypoint.sh takes a lock in Redis (SET NX EX 300) around      *)
(* `alembic upgrade head`; scripts/start_combined.sh migrates without one  *)
(* and goes on when that fails.  Alembic reads the revision of the         *)
(* database, applies the missing revisions in one transaction              *)
(* (migrations/env.py) and commits.  The lock expires, containers crash    *)
(* and are started again, Redis goes away, an operator downgrades at the   *)
(* console, and an orchestrator replaces a container by another release.   *)
(***************************************************************************)
EXTENDS Routes

CONSTANTS
  Containers,   \* the API containers
  Releases,     \* the releases, each by the last revision it ships
  Busy,         \* tables the program writes to while it serves
  MaxFaults,    \* bound: crashes, outages, downgrades and redeployments
  None

ASSUME DeploymentAssumption ==
  /\ Releases \subseteq 1 .. Latest /\ MaxFaults \in Nat
  /\ None \notin Containers

VARIABLES
  db,          \* the committed revision and schema
  tx,          \* the open migration transaction, or None
  lock,        \* who set lock:alembic_migration, or None; the code does not look
  redis,       \* whether Redis answers
  at,          \* where each container is
  image,       \* the release each container runs, and the script it starts with
  saw,         \* the revision its alembic found
  faults,
  overran,     \* history: the lock expired under a migration that was still running
  downgraded   \* history: somebody downgraded the database
vars == <<db, tx, lock, redis, at, image, saw, faults, overran, downgraded>>

Images == [release : Releases, script : {"entrypoint", "combined"}]
Combined(c) == image[c].script = "combined"
Migrating(c) == at[c] \in {"check", "revise", "unlock"}

TypeOK ==
  /\ db.version \in 0 .. Latest /\ db.schema.ok
  /\ tx # None => (tx.by \in Containers /\ tx.version \in 1 .. Latest /\ tx.schema.ok)
  /\ lock \in Containers \cup {None}
  /\ redis \in BOOLEAN /\ overran \in BOOLEAN /\ downgraded \in BOOLEAN
  /\ at \in [Containers -> {"start", "wait", "check", "revise", "unlock", "serve", "failed", "down"}]
  /\ image \in [Containers -> Images]
  /\ saw \in [Containers -> 0 .. Latest]
  /\ faults \in 0 .. MaxFaults

Init ==
  /\ db = Start
  /\ tx = None /\ lock = None /\ redis = TRUE
  /\ at = [c \in Containers |-> "start"]
  /\ image \in [Containers -> Images]
  /\ saw = [c \in Containers |-> 0]
  /\ faults = 0 /\ overran = FALSE /\ downgraded = FALSE

Goes(c, place) == at' = [at EXCEPT ![c] = place]

-----------------------------------------------------------------------------
(* entrypoint.sh: run_migrations.                                           *)

Acquire_NotNX(c) ==
  /\ at[c] = "start" /\ ~Combined(c)
  /\ Goes(c, IF redis THEN "check" ELSE "down")
  /\ lock' = IF redis THEN c ELSE lock
  /\ UNCHANGED <<db, tx, redis, image, saw, faults, overran, downgraded>>

\* Without Redis the client raises, and set -e ends the script.
Acquire(c) ==
  /\ at[c] = "start" /\ ~Combined(c)
  /\ Goes(c, IF ~redis THEN "down" ELSE IF lock = None THEN "check" ELSE "wait")
  /\ lock' = IF redis /\ lock = None THEN c ELSE lock
  /\ UNCHANGED <<db, tx, redis, image, saw, faults, overran, downgraded>>

\* The lock is gone, or 300 polls have passed: exit code 10, which set -e takes for a
\* failure before the script can look at it.
Wait(c) ==
  /\ at[c] = "wait"
  /\ Goes(c, "down")
  /\ UNCHANGED <<db, tx, lock, redis, image, saw, faults, overran, downgraded>>

Skip(c) ==
  /\ at[c] = "start" /\ Combined(c)
  /\ Goes(c, "check")
  /\ UNCHANGED <<db, tx, lock, redis, image, saw, faults, overran, downgraded>>

\* A migration that ended well: entrypoint.sh releases the lock, start_combined.sh serves.
Done(c) == Goes(c, IF Combined(c) THEN "serve" ELSE "unlock")

Failed_GoesOn(c) == Goes(c, IF Combined(c) THEN "serve" ELSE "unlock")

\* A migration that raised: set -e ends entrypoint.sh; start_combined.sh has no set -e.
Failed(c) == Goes(c, IF Combined(c) THEN "serve" ELSE "failed")

\* alembic finds the revision of the database; one it does not know is an error.
Check(c) ==
  /\ at[c] = "check"
  /\ saw' = [saw EXCEPT ![c] = db.version]
  /\ CASE db.version = image[c].release -> Done(c)
       [] db.version > image[c].release -> Failed(c)
       [] OTHER                 -> Goes(c, "revise")
  /\ UNCHANGED <<db, tx, lock, redis, image, faults, overran, downgraded>>

\* A revision that sees only what is committed, as if each had a transaction of its own.
Working_Committed(c) ==
  [version |-> (IF tx = None THEN db ELSE tx).version, schema |-> db.schema]

\* What the open transaction of c sees, with the rows committed meanwhile.
Working(c) ==
  LET base == IF tx = None THEN db ELSE tx
  IN  [version |-> base.version, schema |-> [base.schema EXCEPT !.rows = db.schema.rows]]

\* A revision whose exception is swallowed counts as applied.
Revise_Swallowed(c) ==
  /\ at[c] = "revise"
  /\ tx # None => tx.by = c /\ tx.version < image[c].release
  /\ \E w \in {Working(c)} :
       IF tx = None /\ db.version # saw[c]
       THEN Failed(c) /\ UNCHANGED tx
       ELSE \E s \in {Run(w.schema, Revisions[w.version + 1].up)} :
              /\ tx' = [by |-> c, version |-> w.version + 1, schema |-> IF s.ok THEN s ELSE w.schema]
              /\ UNCHANGED at
  /\ UNCHANGED <<db, lock, redis, image, saw, faults, overran, downgraded>>

\* The next revision.  Another migration's uncommitted changes are waited for; once they
\* are committed the statement, or the update of alembic_version, fails.
Revise(c) ==
  /\ at[c] = "revise"
  /\ tx # None => tx.by = c /\ tx.version < image[c].release
  /\ \E w \in {Working(c)} :
       IF tx = None /\ db.version # saw[c]
       THEN Failed(c) /\ UNCHANGED tx
       ELSE \E s \in {Run(w.schema, Revisions[w.version + 1].up)} :
              IF s.ok
              THEN tx' = [by |-> c, version |-> w.version + 1, schema |-> s] /\ UNCHANGED at
              ELSE tx' = None /\ Failed(c)
  /\ UNCHANGED <<db, lock, redis, image, saw, faults, overran, downgraded>>

CommitMigration(c) ==
  /\ at[c] = "revise" /\ tx # None
  /\ tx.by = c /\ tx.version = image[c].release
  /\ db' = [version |-> tx.version,
            schema |-> [tx.schema EXCEPT !.rows = db.schema.rows \cap tx.schema.tables]]
  /\ tx' = None
  /\ Done(c)
  /\ UNCHANGED <<lock, redis, image, saw, faults, overran, downgraded>>

\* DEL lock:alembic_migration, whoever holds it by now.
Unlock(c) ==
  /\ at[c] = "unlock"
  /\ Goes(c, IF redis THEN "serve" ELSE "down")
  /\ lock' = IF redis THEN None ELSE lock
  /\ UNCHANGED <<db, tx, redis, image, saw, faults, overran, downgraded>>

-----------------------------------------------------------------------------
(* What happens around them.                                                *)

Expire_NoEX == FALSE /\ UNCHANGED vars

\* The lock's 300 seconds are over.
Expire ==
  /\ lock # None
  /\ lock' = None
  /\ overran' = (overran \/ Migrating(lock))
  /\ UNCHANGED <<db, tx, redis, at, image, saw, faults, downgraded>>

\* The program inserts a row into a table that no open transaction has altered.
Write(c, t) ==
  /\ at[c] = "serve" /\ t \in db.schema.tables
  /\ tx # None => {p \in tx.schema.parts : p[1] = t} = {p \in db.schema.parts : p[1] = t}
  /\ db' = [db EXCEPT !.schema.rows = @ \cup {t}]
  /\ UNCHANGED <<tx, lock, redis, at, image, saw, faults, overran, downgraded>>

Fault == faults < MaxFaults /\ faults' = faults + 1

\* A container is lost; PostgreSQL rolls its transaction back.
Crash(c) ==
  /\ Fault /\ at[c] \notin {"failed", "down"}
  /\ Goes(c, "down")
  /\ tx' = IF tx # None /\ tx.by = c THEN None ELSE tx
  /\ UNCHANGED <<db, lock, redis, image, saw, overran, downgraded>>

Restart(c) ==
  /\ at[c] \in {"failed", "down"}
  /\ Goes(c, "start")
  /\ UNCHANGED <<db, tx, lock, redis, image, saw, faults, overran, downgraded>>

\* A deployment, or its rollback, replaces a container by one of another release.
Redeploy(c) ==
  /\ Fault /\ at[c] \in {"serve", "failed", "down"}
  /\ \E i \in Images : image' = [image EXCEPT ![c] = i]
  /\ Goes(c, "start")
  /\ UNCHANGED <<db, tx, lock, redis, saw, overran, downgraded>>

Outage ==
  /\ Fault /\ redis /\ redis' = FALSE
  /\ UNCHANGED <<db, tx, lock, at, image, saw, overran, downgraded>>

Recover ==
  /\ ~redis /\ redis' = TRUE
  /\ UNCHANGED <<db, tx, lock, at, image, saw, faults, overran, downgraded>>

(* `alembic downgrade` at a console, to the revision below: as `-1`, or by  *)
(* its name at the merge 121021f2b187, whose two parents (one an ancestor   *)
(* of the other) make `-1` ambiguous.  A revision that raises changes       *)
(* nothing.                                                                 *)
Downgrade ==
  /\ Fault /\ tx = None /\ db.version > 0
  /\ LET s == Run(db.schema, Revisions[db.version].down)
     IN  s.ok /\ db' = [version |-> db.version - 1, schema |-> s]
  /\ downgraded' = TRUE
  /\ UNCHANGED <<tx, lock, redis, at, image, saw, overran>>

Step(c) ==
  \/ Acquire(c) \/ Wait(c) \/ Skip(c) \/ Check(c) \/ Revise(c) \/ CommitMigration(c)
  \/ Unlock(c) \/ Restart(c)

Next ==
  \/ \E c \in Containers : Step(c) \/ Crash(c) \/ Redeploy(c) \/ \E t \in Busy : Write(c, t)
  \/ Expire \/ Outage \/ Recover \/ Downgrade

(* The scripts run, the orchestrator starts what is down, keys expire and Redis comes back. *)
Fairness ==
  /\ \A c \in Containers : WF_vars(Step(c))
  /\ WF_vars(Expire) /\ WF_vars(Recover)

Spec == Init /\ [][Next]_vars /\ Fairness

-----------------------------------------------------------------------------
(* Properties.                                                              *)

(* Whatever upgrades, downgrades and upgrades again led to the last revision, every table, *)
(* reference and tracked column the models name is in the database.                        *)
LatestFitsModels == db.version = Latest => \A m \in Models : Fits(db.schema, m)

(* What holds of the schema in every state. *)
SchemaInv == TypeOK /\ LatestFitsModels

(* A container that entrypoint.sh let serve finds at least the revision its release ships, *)
(* unless somebody downgraded the database under it.                                      *)
ServedIsMigrated ==
  \A c \in Containers :
    at[c] = "serve" /\ ~Combined(c) /\ ~downgraded => db.version >= image[c].release

(* The lock does what entrypoint.sh takes it for: two containers never migrate at once, as *)
(* long as no migration outlived the lock's 300 seconds.                                   *)
OneMigrator ==
  ~overran => \A c, d \in {b \in Containers : ~Combined(b)} :
                Migrating(c) /\ Migrating(d) => c = d

\* Revision i gives a table that holds rows a column that may not be null.
Obstructed(i) ==
  \E n \in DOMAIN Revisions[i].up :
    Revisions[i].up[n].kind = "fill" /\ Revisions[i].up[n].table \in db.schema.rows

(* alembic gives up on an upgrade for one of three reasons: another migration committed    *)
(* first, a table that gets a NOT NULL column holds rows, or a downgrade left something    *)
(* behind.  The revisions as such go through, in every order of upgrades and deployments.  *)
GivesUpForAReason ==
  [][ \A c \in Containers :
        at[c] = "revise" /\ at'[c] \in {"failed", "serve"} /\ db' = db /\ faults' = faults =>
          \/ downgraded \/ db.version # saw[c]
          \/ \E i \in (saw[c] + 1) .. image[c].release : Obstructed(i) ]_vars

\* A release that cannot start: the database is ahead of it, or has rows in the way.
Stuck == \E c \in Containers :
  image[c].release < db.version \/ \E i \in (db.version + 1) .. image[c].release : Obstructed(i)

(* As long as no release is stuck, every container ends up serving, whatever crashed with  *)
(* the lock in its hands: the key expires and the orchestrator starts the container again. *)
EveryoneServes ==
  \A c \in Containers : []<>(at[c] = "serve" \/ downgraded \/ Stuck)
=============================================================================
