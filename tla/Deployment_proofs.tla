-------------------------- MODULE Deployment_proofs --------------------------
(***************************************************************************)
(* Proofs about the migration lock, what serves and the schema, for any    *)
(* number of containers, releases, faults and busy tables.                 *)
(*                                                                         *)
(* As long as the lock has not expired under a migration, a container that *)
(* migrates through entrypoint.sh is the one that set it.  The version in  *)
(* the database only grows, as the open transaction is always ahead of it, *)
(* until somebody downgrades.                                              *)
(*                                                                         *)
(* What a list of operations does to a schema does not depend on its rows, *)
(* except that it may fail (RunBare, by induction over the list).  So the  *)
(* schema in the database and that of the open transaction are always,     *)
(* their rows apart, at a place of Known, and before any downgrade at one  *)
(* of Uphill (SchemasSound): what the assumptions of Routes say of the 23  *)
(* revisions then holds of whatever the containers make of them.           *)
(***************************************************************************)
EXTENDS Deployment, Sums

Places == {"start", "wait", "check", "revise", "unlock", "serve", "failed", "down"}

Placed ==
  /\ at \in [Containers -> Places]
  /\ image \in [Containers -> Images]
  /\ lock \in Containers \cup {None}
  /\ overran \in BOOLEAN /\ downgraded \in BOOLEAN
  /\ \A c \in Containers : at[c] = "unlock" => ~Combined(c)

HoldsLock ==
  ~overran => \A c \in Containers : Migrating(c) /\ ~Combined(c) => lock = c

LockInv == Placed /\ HoldsLock

Versions ==
  /\ db = [version |-> db.version, schema |-> db.schema] /\ db.version \in Int
  /\ tx # None => tx.version \in Int /\ tx.version > db.version

Migrated ==
  ~downgraded => \A c \in Containers :
    at[c] \in {"unlock", "serve"} /\ ~Combined(c) => db.version >= image[c].release

VersionInv == Placed /\ Versions /\ Migrated

LEMMA ReleaseIsInt == \A i \in Images : i.release \in Int
<1>1. Latest \in Nat
  BY RevisionsAreLists
<1>2. 1 .. Latest \subseteq Int
  BY <1>1
<1>3. Releases \subseteq Int
  BY <1>1, <1>2, DeploymentAssumption
<1> QED
  BY <1>3 DEF Images

-----------------------------------------------------------------------------
(* Places.                                                                  *)

\* A container moves, within its image, and only with entrypoint.sh to the unlocking.
LEMMA MovesPlaced ==
  ASSUME Placed, NEW c \in Containers, NEW place \in Places, Goes(c, place),
         UNCHANGED image, lock' \in Containers \cup {None},
         overran' \in BOOLEAN, downgraded' \in BOOLEAN, place = "unlock" => ~Combined(c)
  PROVE  Placed'
  BY DEF Placed, Goes, Combined

LEMMA StaysPlaced ==
  ASSUME Placed, UNCHANGED <<at, image>>, lock' \in Containers \cup {None},
         overran' \in BOOLEAN, downgraded' \in BOOLEAN
  PROVE  Placed'
  BY DEF Placed, Combined

LEMMA StepPlaced ==
  ASSUME Placed, NEW c \in Containers, Step(c)
  PROVE  Placed'
<1> USE DEF Placed
<1>1. CASE Acquire(c)
  <2>1. PICK place \in {"down", "check", "wait"} : Goes(c, place)
    BY <1>1 DEF Acquire
  <2>2. lock' \in Containers \cup {None}
    BY <1>1 DEF Acquire
  <2> QED
    BY <1>1, <2>1, <2>2, MovesPlaced DEF Acquire, Places
<1>2. CASE Wait(c)
  BY <1>2, MovesPlaced DEF Wait, Places
<1>3. CASE Skip(c)
  BY <1>3, MovesPlaced DEF Skip, Places
<1>4. CASE Check(c)
  <2>1. PICK place \in Places : Goes(c, place) /\ (place = "unlock" => ~Combined(c))
    BY <1>4 DEF Check, Done, Failed, Places
  <2> QED
    BY <1>4, <2>1, MovesPlaced DEF Check
<1>5. CASE Revise(c)
  <2>1. \/ UNCHANGED at
        \/ \E place \in Places : Goes(c, place) /\ place # "unlock"
    BY <1>5 DEF Revise, Failed, Places
  <2> QED
    BY <1>5, <2>1, MovesPlaced, StaysPlaced DEF Revise
<1>6. CASE CommitMigration(c)
  <2>1. PICK place \in Places : Goes(c, place) /\ (place = "unlock" => ~Combined(c))
    BY <1>6 DEF CommitMigration, Done, Places
  <2> QED
    BY <1>6, <2>1, MovesPlaced DEF CommitMigration
<1>7. CASE Unlock(c)
  <2>1. PICK place \in {"serve", "down"} : Goes(c, place)
    BY <1>7 DEF Unlock
  <2> QED
    BY <1>7, <2>1, MovesPlaced DEF Unlock, Places
<1>8. CASE Restart(c)
  BY <1>8, MovesPlaced DEF Restart, Places
<1> QED
  BY <1>1, <1>2, <1>3, <1>4, <1>5, <1>6, <1>7, <1>8 DEF Step

LEMMA AroundPlaced ==
  ASSUME Placed,
         \/ \E c \in Containers : Crash(c) \/ Redeploy(c) \/ \E t \in Busy : Write(c, t)
         \/ Expire \/ Outage \/ Recover \/ Downgrade
  PROVE  Placed'
<1>1. ASSUME NEW c \in Containers, Crash(c) PROVE Placed'
  BY <1>1, MovesPlaced DEF Crash, Places, Placed
<1>2. ASSUME NEW c \in Containers, Redeploy(c) PROVE Placed'
  BY <1>2 DEF Redeploy, Goes, Placed, Combined, Places
<1>3. ASSUME NEW c \in Containers, NEW t \in Busy, Write(c, t) PROVE Placed'
  BY <1>3, StaysPlaced DEF Write, Placed
<1>4. CASE Expire
  BY <1>4, StaysPlaced DEF Expire, Placed, Migrating
<1>5. CASE Outage
  BY <1>5, StaysPlaced DEF Outage, Placed
<1>6. CASE Recover
  BY <1>6, StaysPlaced DEF Recover, Placed
<1>7. CASE Downgrade
  BY <1>7, StaysPlaced DEF Downgrade, Placed
<1> QED
  BY <1>1, <1>2, <1>3, <1>4, <1>5, <1>6, <1>7

LEMMA NextPlaced ==
  ASSUME Placed, [Next]_vars
  PROVE  Placed'
<1>1. CASE UNCHANGED vars
  BY <1>1, StaysPlaced DEF vars, Placed
<1> QED
  BY <1>1, StepPlaced, AroundPlaced DEF Next

-----------------------------------------------------------------------------
(* The lock.                                                                *)

\* A step that makes nobody migrate and leaves the lock alone.
LEMMA NobodyStarts ==
  ASSUME LockInv, Placed', overran => overran', lock' = lock,
         \A c \in Containers : Migrating(c)' /\ ~Combined(c)' => Migrating(c) /\ ~Combined(c)
  PROVE  LockInv'
  BY DEF LockInv, HoldsLock

LEMMA StepLocked ==
  ASSUME LockInv, Placed', NEW c \in Containers, Step(c)
  PROVE  LockInv'
<1> USE DEF LockInv
<1>0. at \in [Containers -> Places] /\ None \notin Containers
  BY DeploymentAssumption DEF Placed
<1>1. CASE Acquire(c)
  <2>1. UNCHANGED <<image, overran>> /\ ~Combined(c) /\ \A d \in Containers : d # c => at'[d] = at[d]
    BY <1>0, <1>1 DEF Acquire, Goes
  <2>2. CASE redis /\ lock = None
    <3>1. lock' = c
      BY <1>1, <2>2 DEF Acquire
    <3>2. overran \/ \A d \in Containers : Migrating(d) => Combined(d)
      BY <1>0, <2>2 DEF HoldsLock
    <3> QED
      BY <2>1, <3>1, <3>2 DEF HoldsLock, Migrating, Combined
  <2>3. CASE ~(redis /\ lock = None)
    <3>1. lock' = lock /\ at'[c] \in {"down", "wait"}
      BY <1>0, <1>1, <2>3 DEF Acquire, Goes
    <3> QED
      BY <2>1, <3>1, NobodyStarts DEF Migrating, Combined
  <2> QED
    BY <2>2, <2>3
<1>2. CASE Wait(c) \/ Restart(c) \/ Skip(c)
  <2>1. at' = [at EXCEPT ![c] = IF Skip(c) THEN "check" ELSE at'[c]]
        /\ at'[c] \in {"down", "start", "check"} /\ UNCHANGED <<image, lock, overran>>
    BY <1>0, <1>2 DEF Wait, Restart, Skip, Goes
  <2>2. at'[c] = "check" => Combined(c)
    BY <1>0, <1>2 DEF Wait, Restart, Skip, Goes
  <2> QED
    BY <1>0, <2>1, <2>2, NobodyStarts DEF Migrating, Combined
<1>3. CASE Check(c) \/ Revise(c) \/ CommitMigration(c)
  <2>1. Migrating(c) /\ UNCHANGED <<image, lock, overran>>
        /\ \A d \in Containers : d # c => at'[d] = at[d]
    BY <1>0, <1>3 DEF Check, Revise, CommitMigration, Migrating, Goes, Done, Failed
  <2> QED
    BY <2>1, NobodyStarts DEF Migrating, Combined
<1>4. CASE Unlock(c)
  <2>1. /\ at[c] = "unlock" /\ ~Combined(c)
        /\ at'[c] \in {"serve", "down"} /\ \A d \in Containers : d # c => at'[d] = at[d]
        /\ UNCHANGED <<image, overran>>
    BY <1>0, <1>4 DEF Unlock, Goes, Placed
  <2>2. overran \/ \A d \in Containers : Migrating(d) /\ ~Combined(d) => d = c
    BY <2>1 DEF HoldsLock, Migrating
  <2> QED
    BY <2>1, <2>2 DEF HoldsLock, Migrating, Combined
<1> QED
  BY <1>1, <1>2, <1>3, <1>4 DEF Step

LEMMA AroundLocked ==
  ASSUME LockInv, Placed',
         \/ \E c \in Containers : Crash(c) \/ Redeploy(c) \/ \E t \in Busy : Write(c, t)
         \/ Expire \/ Outage \/ Recover \/ Downgrade
  PROVE  LockInv'
<1>0. at \in [Containers -> Places] /\ image \in [Containers -> Images]
  BY DEF LockInv, Placed
<1>1. ASSUME NEW c \in Containers, Crash(c) \/ Redeploy(c) PROVE LockInv'
  <2>1. /\ at'[c] \in {"down", "start"} /\ UNCHANGED <<lock, overran>>
        /\ \A d \in Containers : d # c => at'[d] = at[d] /\ image'[d] = image[d]
    BY <1>0, <1>1 DEF Crash, Redeploy, Goes
  <2> QED
    BY <2>1, NobodyStarts DEF Migrating, Combined
<1>2. ASSUME NEW c \in Containers, NEW t \in Busy, Write(c, t) PROVE LockInv'
  BY <1>2, NobodyStarts DEF Write, Migrating, Combined
<1>3. CASE Expire
  <2>1. /\ UNCHANGED <<at, image>> /\ lock # None
        /\ overran' = (overran \/ Migrating(lock))
    BY <1>3 DEF Expire
  <2>2. lock \in Containers
    BY <2>1 DEF LockInv, Placed
  <2>3. ~overran' => \A c \in Containers : ~(Migrating(c) /\ ~Combined(c))
    BY <2>1, <2>2 DEF LockInv, HoldsLock
  <2> QED
    BY <2>1, <2>3 DEF LockInv, HoldsLock, Migrating, Combined
<1>4. CASE Outage \/ Recover \/ Downgrade
  BY <1>4, NobodyStarts DEF Outage, Recover, Downgrade, Migrating, Combined
<1> QED
  BY <1>1, <1>2, <1>3, <1>4

LEMMA LockInvariant == Spec => []LockInv
<1>1. Init => LockInv
  BY DEF Init, LockInv, Placed, HoldsLock, Migrating, Combined, Places
<1>2. LockInv /\ [Next]_vars => LockInv'
  <2> SUFFICES ASSUME LockInv, [Next]_vars PROVE LockInv'
    OBVIOUS
  <2>1. Placed'
    BY NextPlaced DEF LockInv
  <2>2. CASE UNCHANGED vars
    BY <2>1, <2>2, NobodyStarts DEF vars, Migrating, Combined
  <2> QED
    BY <2>1, <2>2, StepLocked, AroundLocked DEF Next
<1> QED
  BY <1>1, <1>2, PTL DEF Spec

(* The lock of entrypoint.sh: two containers never migrate at once, whoever crashes or is  *)
(* replaced, unless the lock's 300 seconds end under a migration.                          *)
THEOREM LockWorks == Spec => []OneMigrator
<1>1. LockInv => OneMigrator
  BY DEF LockInv, HoldsLock, OneMigrator
<1> QED
  BY <1>1, LockInvariant, PTL

-----------------------------------------------------------------------------
(* The version.                                                             *)

\* A step that leaves the database alone, or takes it forward, and lets nobody unlock or serve.
LEMMA NobodyServes ==
  ASSUME VersionInv, Placed', Versions', db'.version >= db.version, downgraded => downgraded',
         \A c \in Containers :
           at'[c] \in {"unlock", "serve"} /\ ~Combined(c)' =>
             at[c] \in {"unlock", "serve"} /\ ~Combined(c) /\ image'[c] = image[c]
  PROVE  VersionInv'
<1>1. ASSUME NEW c \in Containers
      PROVE  image[c].release \in Int
  BY ReleaseIsInt DEF VersionInv, Placed
<1> QED
  BY <1>1 DEF VersionInv, Versions, Migrated

LEMMA SameVersions ==
  ASSUME Versions, UNCHANGED db, UNCHANGED tx \/ tx' = None
  PROVE  Versions'
  BY DEF Versions

LEMMA StepMigrated ==
  ASSUME VersionInv, Placed', NEW c \in Containers, Step(c)
  PROVE  VersionInv'
<1> USE DEF VersionInv
<1>0. /\ at \in [Containers -> Places] /\ db.version \in Int
      /\ image[c].release \in Int
  BY ReleaseIsInt DEF Placed, Versions
<1>1. CASE Acquire(c) \/ Wait(c) \/ Skip(c) \/ Restart(c)
  <2>1. /\ at'[c] \in {"check", "wait", "down", "start"} /\ UNCHANGED <<db, tx, image, downgraded>>
        /\ \A d \in Containers : d # c => at'[d] = at[d]
    BY <1>0, <1>1 DEF Acquire, Wait, Skip, Restart, Goes
  <2> QED
    BY <1>0, <2>1, SameVersions, NobodyServes DEF Combined
<1>2. CASE Unlock(c)
  <2>1. /\ at[c] = "unlock" /\ UNCHANGED <<db, tx, image, downgraded>>
        /\ \A d \in Containers : d # c => at'[d] = at[d]
    BY <1>0, <1>2 DEF Unlock, Goes
  <2> QED
    BY <1>0, <2>1, SameVersions, NobodyServes DEF Combined
<1>3. CASE Check(c)
  <2>1. /\ UNCHANGED <<db, tx, image, downgraded>>
        /\ \A d \in Containers : d # c => at'[d] = at[d]
        /\ at'[c] \in {"unlock", "serve"} /\ ~Combined(c) => db.version = image[c].release
    BY <1>0, <1>3 DEF Check, Goes, Done, Failed
  <2>2. Versions'
    BY <2>1, SameVersions
  <2>3. Migrated'
    BY <1>0, <2>1 DEF Migrated, Combined
  <2> QED
    BY <2>2, <2>3
<1>4. CASE Revise(c)
  <2>1. /\ UNCHANGED <<db, image, downgraded>>
        /\ \A d \in Containers : d # c => at'[d] = at[d]
        /\ at'[c] \in {"unlock", "serve"} /\ ~Combined(c) => at'[c] = at[c]
    BY <1>0, <1>4 DEF Revise, Goes, Failed
  <2>2. \/ tx' = tx \/ tx' = None
        \/ \E s : tx' = [by |-> c, version |-> Working(c).version + 1, schema |-> s]
    BY <1>4 DEF Revise
  <2>3. Working(c).version \in Int /\ Working(c).version >= db.version
    BY <1>0 DEF Working, Versions
  <2>4. Versions'
    BY <1>0, <2>1, <2>2, <2>3 DEF Versions
  <2> QED
    BY <1>0, <2>1, <2>4, NobodyServes DEF Combined
<1>5. CASE CommitMigration(c)
  <2>1. /\ tx # None /\ tx.version = image[c].release /\ tx' = None
        /\ UNCHANGED <<image, downgraded>>
        /\ \A d \in Containers : d # c => at'[d] = at[d]
    BY <1>0, <1>5 DEF CommitMigration, Goes, Done
  <2>2. /\ db'.version = tx.version
        /\ db' = [version |-> db'.version, schema |-> db'.schema]
    BY <1>5 DEF CommitMigration
  <2>3. tx.version > db.version
    BY <2>1 DEF Versions
  <2>4. Versions'
    BY <1>0, <2>1, <2>2 DEF Versions
  <2>5. ASSUME NEW d \in Containers PROVE image[d].release \in Int
    BY ReleaseIsInt DEF Placed
  <2>6. Migrated'
    BY <1>0, <2>1, <2>2, <2>3, <2>5 DEF Migrated, Combined
  <2> QED
    BY <2>4, <2>6
<1> QED
  BY <1>1, <1>2, <1>3, <1>4, <1>5 DEF Step

LEMMA AroundMigrated ==
  ASSUME VersionInv, Placed',
         \/ \E c \in Containers : Crash(c) \/ Redeploy(c) \/ \E t \in Busy : Write(c, t)
         \/ Expire \/ Outage \/ Recover \/ Downgrade
  PROVE  VersionInv'
<1> USE DEF VersionInv
<1>0. /\ at \in [Containers -> Places] /\ image \in [Containers -> Images] /\ db.version \in Int
  BY DEF Placed, Versions
<1>1. ASSUME NEW c \in Containers, Crash(c) \/ Redeploy(c) PROVE VersionInv'
  <2>1. /\ at'[c] \in {"down", "start"} /\ UNCHANGED <<db, downgraded>> /\ (UNCHANGED tx \/ tx' = None)
        /\ \A d \in Containers : d # c => at'[d] = at[d] /\ image'[d] = image[d]
    BY <1>0, <1>1 DEF Crash, Redeploy, Goes
  <2> QED
    BY <1>0, <2>1, SameVersions, NobodyServes DEF Combined
<1>2. ASSUME NEW c \in Containers, NEW t \in Busy, Write(c, t) PROVE VersionInv'
  <2>1. UNCHANGED <<at, image, tx, downgraded>>
    BY <1>2 DEF Write
  <2>2. db'.version = db.version /\ db' = [version |-> db'.version, schema |-> db'.schema]
    BY <1>2 DEF Write, Versions
  <2>3. Versions'
    BY <1>0, <2>1, <2>2 DEF Versions
  <2> QED
    BY <1>0, <2>1, <2>2, <2>3, NobodyServes DEF Combined
<1>3. CASE Expire \/ Outage \/ Recover
  <2>1. UNCHANGED <<at, image, db, tx, downgraded>>
    BY <1>3 DEF Expire, Outage, Recover
  <2> QED
    BY <1>0, <2>1, SameVersions, NobodyServes DEF Combined
<1>4. CASE Downgrade
  <2>1. tx = None /\ UNCHANGED tx /\ downgraded'
    BY <1>4 DEF Downgrade
  <2>2. \E s : db' = [version |-> db.version - 1, schema |-> s]
    BY <1>4 DEF Downgrade
  <2>3. Versions'
    BY <1>0, <2>1, <2>2 DEF Versions
  <2> QED
    BY <2>1, <2>3 DEF Migrated
<1> QED
  BY <1>1, <1>2, <1>3, <1>4

LEMMA VersionInvariant == Spec => []VersionInv
<1>1. Init => VersionInv
  <2> SUFFICES ASSUME Init PROVE VersionInv
    OBVIOUS
  <2>1. Placed
    BY DEF Init, Placed, Places
  <2>2. Versions
    BY DEF Init, Versions, Start
  <2>3. Migrated
    BY DEF Init, Migrated
  <2> QED
    BY <2>1, <2>2, <2>3 DEF VersionInv
<1>2. VersionInv /\ [Next]_vars => VersionInv'
  <2> SUFFICES ASSUME VersionInv, [Next]_vars PROVE VersionInv'
    OBVIOUS
  <2>1. Placed'
    BY NextPlaced DEF VersionInv
  <2>2. CASE UNCHANGED vars
    <3>1. UNCHANGED <<at, image, db, tx, downgraded>> /\ db.version \in Int
      BY <2>2 DEF vars, VersionInv, Versions
    <3> QED
      BY <2>1, <3>1, SameVersions, NobodyServes DEF VersionInv, Combined
  <2> QED
    BY <2>1, <2>2, StepMigrated, AroundMigrated DEF Next
<1> QED
  BY <1>1, <1>2, PTL DEF Spec

(* What entrypoint.sh lets serve finds at least the revision its release ships, whatever   *)
(* crashes, overtakes or replaces it, until somebody downgrades the database.              *)
THEOREM ServesMigrated == Spec => []ServedIsMigrated
<1>1. VersionInv => ServedIsMigrated
  BY DEF VersionInv, Migrated, ServedIsMigrated
<1> QED
  BY <1>1, VersionInvariant, PTL

-----------------------------------------------------------------------------
(* A list of operations.                                                    *)

(* Run is what the operations do one after the other. *)
LEMMA RunIs ==
  ASSUME NEW s, NEW l, Len(l) \in Nat
  PROVE  \E h : /\ h[0] = s /\ Run(s, l) = h[Len(l)]
               /\ \A i \in 0 .. Len(l) - 1 : h[i + 1] = Apply(h[i], l[i + 1])
<1> DEFINE Steps(h, n) == h = [i \in 0 .. n |-> IF i = 0 THEN s ELSE Apply(h[i - 1], l[i])]
           S == {n \in Nat : \E h : Steps(h, n)}
<1>1. 0 \in S
  <2>1. Steps([i \in 0 .. 0 |-> s], 0)
    OBVIOUS
  <2> QED
    BY <2>1
<1>2. ASSUME NEW n \in 0 .. Len(l) - 1, n \in S PROVE n + 1 \in S
  <2>1. PICK h : Steps(h, n)
    BY <1>2
  <2> DEFINE g == [i \in 0 .. n + 1 |-> IF i = n + 1 THEN Apply(h[n], l[i]) ELSE h[i]]
  <2>2. n \in Nat
    OBVIOUS
  <2>3. \A i \in 0 .. n + 1 : i # 0 => g[i] = Apply(g[i - 1], l[i])
    <3> SUFFICES ASSUME NEW i \in 0 .. n + 1, i # 0 PROVE g[i] = Apply(g[i - 1], l[i])
      OBVIOUS
    <3>1. i - 1 \in 0 .. n /\ g[i - 1] = h[i - 1]
      BY <2>2
    <3>2. CASE i = n + 1
      BY <2>2, <3>1, <3>2
    <3>3. CASE i # n + 1
      <4>1. i \in 0 .. n
        BY <2>2, <3>3
      <4>2. h[i] = Apply(h[i - 1], l[i])
        BY <2>1, <4>1
      <4> QED
        BY <3>1, <3>3, <4>2
    <3> QED
      BY <3>2, <3>3
  <2>4. g[0] = s
    BY <2>1, <2>2
  <2>5. Steps(g, n + 1)
    <3> DEFINE e(i) == IF i = n + 1 THEN Apply(h[n], l[i]) ELSE h[i]
               w(i) == IF i = 0 THEN s ELSE Apply(g[i - 1], l[i])
    <3>1. \A i \in 0 .. n + 1 : e(i) = w(i)
      BY <2>3, <2>4
    <3> HIDE DEF g, e, w
    <3>2. g = [i \in 0 .. n + 1 |-> e(i)]
      BY DEF g, e
    <3>3. g = [i \in 0 .. n + 1 |-> w(i)]
      BY <3>1, <3>2
    <3> QED
      BY <3>3 DEF w
  <2>6. \E f : Steps(f, n + 1)
    <3> HIDE DEF g, Steps
    <3> QED
      BY <2>5
  <2> QED
    BY <2>2, <2>6
<1>3. Len(l) \in S
  <2> HIDE DEF S
  <2>1. Len(l) \in 0 .. Len(l)
    OBVIOUS
  <2> QED
    BY <1>1, <1>2, <2>1, Counting
<1> DEFINE h == CHOOSE h : Steps(h, Len(l))
<1>4. Steps(h, Len(l))
  BY <1>3
<1>5. Run(s, l) = h[Len(l)]
  BY Zenon DEF Run
<1>6. h[0] = s
  <2> HIDE DEF h
  <2> QED
    BY <1>4
<1>7. \A i \in 0 .. Len(l) - 1 : h[i + 1] = Apply(h[i], l[i + 1])
  <2> HIDE DEF h
  <2> QED
    BY <1>4
<1> QED
  BY <1>5, <1>6, <1>7

(* The rows apart. *)
Shaped(s) ==
  /\ s = [ok |-> s.ok, tables |-> s.tables, refs |-> s.refs, parts |-> s.parts,
          types |-> s.types, rows |-> s.rows]
  /\ s.ok \in BOOLEAN
Bare(s) == [s EXCEPT !.rows = {}]

LEMMA BareIs ==
  ASSUME NEW s, Shaped(s)
  PROVE  Bare(s) = [ok |-> s.ok, tables |-> s.tables, refs |-> s.refs, parts |-> s.parts,
                    types |-> s.types, rows |-> {}]
  BY DEF Bare, Shaped

LEMMA ApplyIs ==
  ASSUME NEW s, NEW o PROVE Apply(s, o) = IF Legal(s, o) THEN Effect(s, o) ELSE Broken
  BY DEF Apply

LEMMA Likewise ==
  ASSUME NEW ok \in BOOLEAN, NEW T, NEW R, NEW P, NEW Y, NEW W, NEW s, NEW t,
         s = [ok |-> ok, tables |-> T, refs |-> R, parts |-> P, types |-> Y, rows |-> W],
         t = [ok |-> ok, tables |-> T, refs |-> R, parts |-> P, types |-> Y, rows |-> {}]
  PROVE  Shaped(s) /\ t = Bare(s) /\ s.rows = W /\ s.ok = ok
<1>1. Shaped(s) /\ s.rows = W /\ s.ok = ok
  BY DEF Shaped
<1>2. t = Bare(s)
  BY <1>1, BareIs
<1> QED
  BY <1>1, <1>2

(* What an operation does to the rest of a schema does not depend on its    *)
(* rows, and no operation adds rows.                                        *)
LEMMA EffectBare ==
  ASSUME NEW s, Shaped(s), NEW o
  PROVE  /\ Shaped(Effect(s, o)) /\ Effect(s, o).ok = s.ok /\ Effect(s, o).rows \subseteq s.rows
         /\ Effect(Bare(s), o) = Bare(Effect(s, o))
<1> DEFINE e == Effect(s, o)
           f == Effect(Bare(s), o)
<1>1. PICK ok, T, R, P, Y, W :
        ok \in BOOLEAN /\ s = [ok |-> ok, tables |-> T, refs |-> R, parts |-> P, types |-> Y, rows |-> W]
  BY DEF Shaped
<1>2. PICK b : b = Bare(s)
  OBVIOUS
<1>3. b = [ok |-> ok, tables |-> T, refs |-> R, parts |-> P, types |-> Y, rows |-> {}]
      /\ s.ok = ok /\ s.rows = W
  <2>1. Bare(s) = [ok |-> s.ok, tables |-> s.tables, refs |-> s.refs, parts |-> s.parts,
                   types |-> s.types, rows |-> {}]
    BY BareIs
  <2>2. s.ok = ok /\ s.tables = T /\ s.refs = R /\ s.parts = P /\ s.types = Y /\ s.rows = W
    BY <1>1
  <2> QED
    BY <1>2, <2>1, <2>2
<1> DEFINE creates == o.kind = "create" \/ (o.kind = "create missing" /\ o.table \notin T)
           drops == o.kind \in {"drop", "drop present"}
           adds == o.kind \in {"add", "fill"} \/ (o.kind = "ensure" /\ o.table \in T)
           refers == o.kind = "refer" \/ (o.kind = "refer missing" /\ o.table \in T)
           others == /\ ~creates /\ ~drops /\ ~adds /\ ~refers
                     /\ o.kind \notin {"add missing", "lose", "lose present", "unrefer", "types",
                                      "type missing", "drop type"}
<1>4. CASE creates
  <2>1. Effect(s, o) = [ok |-> ok, tables |-> T \cup {o.table}, refs |-> R \cup RefsOf(o.table, o.to), parts |-> P \cup PartsOf(o.table, o.names), types |-> Y, rows |-> W]
    BY <1>1, <1>4 DEF Effect
  <2>2. Effect(b, o) = [ok |-> ok, tables |-> T \cup {o.table}, refs |-> R \cup RefsOf(o.table, o.to), parts |-> P \cup PartsOf(o.table, o.names), types |-> Y, rows |-> {}]
    BY <1>3, <1>4 DEF Effect
  <2> QED
    BY <1>1, <1>2, <1>3, <2>1, <2>2, Likewise
<1>5. CASE drops
  <2>1. PICK T1, R1, P1, W1 : /\ T1 = T \ {o.table} /\ R1 = {r \in R : r[1] # o.table}
                             /\ P1 = {p \in P : p[1] # o.table} /\ W1 = W \ {o.table}
    OBVIOUS
  <2>2. Effect(s, o) = [ok |-> ok, tables |-> T1, refs |-> R1, parts |-> P1, types |-> Y, rows |-> W1]
    BY <1>1, <1>5, <2>1 DEF Effect, Without
  <2>3. Effect(b, o) = [ok |-> ok, tables |-> T1, refs |-> R1, parts |-> P1, types |-> Y, rows |-> {}]
    BY <1>3, <1>5, <2>1 DEF Effect, Without
  <2>4. W1 \subseteq W
    BY <2>1
  <2> QED
    BY <1>1, <1>2, <1>3, <2>2, <2>3, <2>4, Likewise
<1>6. CASE o.kind = "add missing"
  <2>1. Effect(s, o) = [ok |-> ok, tables |-> T, refs |-> R, parts |-> P \cup (o.to \X o.names), types |-> Y, rows |-> W]
    BY <1>1, <1>6 DEF Effect
  <2>2. Effect(b, o) = [ok |-> ok, tables |-> T, refs |-> R, parts |-> P \cup (o.to \X o.names), types |-> Y, rows |-> {}]
    BY <1>3, <1>6 DEF Effect
  <2> QED
    BY <1>1, <1>2, <1>3, <2>1, <2>2, Likewise
<1>7. CASE adds
  <2>1. Effect(s, o) = [ok |-> ok, tables |-> T, refs |-> R, parts |-> P \cup PartsOf(o.table, o.names), types |-> Y, rows |-> W]
    BY <1>1, <1>7 DEF Effect
  <2>2. Effect(b, o) = [ok |-> ok, tables |-> T, refs |-> R, parts |-> P \cup PartsOf(o.table, o.names), types |-> Y, rows |-> {}]
    BY <1>3, <1>7 DEF Effect
  <2> QED
    BY <1>1, <1>2, <1>3, <2>1, <2>2, Likewise
<1>8. CASE o.kind = "lose"
  <2>1. Effect(s, o) = [ok |-> ok, tables |-> T, refs |-> R, parts |-> P \ Lost({o.table}, o.names), types |-> Y, rows |-> W]
    BY <1>1, <1>8 DEF Effect
  <2>2. Effect(b, o) = [ok |-> ok, tables |-> T, refs |-> R, parts |-> P \ Lost({o.table}, o.names), types |-> Y, rows |-> {}]
    BY <1>3, <1>8 DEF Effect
  <2> QED
    BY <1>1, <1>2, <1>3, <2>1, <2>2, Likewise
<1>9. CASE o.kind = "lose present"
  <2>1. Effect(s, o) = [ok |-> ok, tables |-> T, refs |-> R, parts |-> P \ Lost(o.to, o.names), types |-> Y, rows |-> W]
    BY <1>1, <1>9 DEF Effect
  <2>2. Effect(b, o) = [ok |-> ok, tables |-> T, refs |-> R, parts |-> P \ Lost(o.to, o.names), types |-> Y, rows |-> {}]
    BY <1>3, <1>9 DEF Effect
  <2> QED
    BY <1>1, <1>2, <1>3, <2>1, <2>2, Likewise
<1>10. CASE refers
  <2>1. Effect(s, o) = [ok |-> ok, tables |-> T, refs |-> R \cup RefsOf(o.table, o.to), parts |-> P, types |-> Y, rows |-> W]
    BY <1>1, <1>10 DEF Effect
  <2>2. Effect(b, o) = [ok |-> ok, tables |-> T, refs |-> R \cup RefsOf(o.table, o.to), parts |-> P, types |-> Y, rows |-> {}]
    BY <1>3, <1>10 DEF Effect
  <2> QED
    BY <1>1, <1>2, <1>3, <2>1, <2>2, Likewise
<1>11. CASE o.kind = "unrefer"
  <2>1. Effect(s, o) = [ok |-> ok, tables |-> T, refs |-> R \ RefsOf(o.table, o.to), parts |-> P, types |-> Y, rows |-> W]
    BY <1>1, <1>11 DEF Effect
  <2>2. Effect(b, o) = [ok |-> ok, tables |-> T, refs |-> R \ RefsOf(o.table, o.to), parts |-> P, types |-> Y, rows |-> {}]
    BY <1>3, <1>11 DEF Effect
  <2> QED
    BY <1>1, <1>2, <1>3, <2>1, <2>2, Likewise
<1>12. CASE o.kind \in {"types", "type missing"}
  <2>1. Effect(s, o) = [ok |-> ok, tables |-> T, refs |-> R, parts |-> P, types |-> Y \cup o.names, rows |-> W]
    BY <1>1, <1>12 DEF Effect
  <2>2. Effect(b, o) = [ok |-> ok, tables |-> T, refs |-> R, parts |-> P, types |-> Y \cup o.names, rows |-> {}]
    BY <1>3, <1>12 DEF Effect
  <2> QED
    BY <1>1, <1>2, <1>3, <2>1, <2>2, Likewise
<1>13. CASE o.kind = "drop type"
  <2>1. Effect(s, o) = [ok |-> ok, tables |-> T, refs |-> R, parts |-> P, types |-> Y \ o.names, rows |-> W]
    BY <1>1, <1>13 DEF Effect
  <2>2. Effect(b, o) = [ok |-> ok, tables |-> T, refs |-> R, parts |-> P, types |-> Y \ o.names, rows |-> {}]
    BY <1>3, <1>13 DEF Effect
  <2> QED
    BY <1>1, <1>2, <1>3, <2>1, <2>2, Likewise
<1>14. CASE others
  <2>1. Effect(s, o) = [ok |-> ok, tables |-> T, refs |-> R, parts |-> P, types |-> Y, rows |-> W]
    BY <1>1, <1>14 DEF Effect
  <2>2. Effect(b, o) = [ok |-> ok, tables |-> T, refs |-> R, parts |-> P, types |-> Y, rows |-> {}]
    BY <1>3, <1>14 DEF Effect
  <2> QED
    BY <1>1, <1>2, <1>3, <2>1, <2>2, Likewise
<1> QED
  BY <1>4, <1>5, <1>6, <1>7, <1>8, <1>9, <1>10, <1>11, <1>12, <1>13, <1>14

(* A list of operations that goes through does the same to the schema       *)
(* without its rows; and it goes through, when it does so without them and  *)
(* no table that holds rows is to get a column that may not be null.        *)
LEMMA LegalBare ==
  ASSUME NEW s, Shaped(s), NEW o
  PROVE  /\ Legal(s, o) => Legal(Bare(s), o) /\ s.ok
         /\ Legal(Bare(s), o) /\ ~(o.kind = "fill" /\ o.table \in s.rows) => Legal(s, o)
<1>1. PICK b : b = Bare(s)
  OBVIOUS
<1>2. b.ok = s.ok /\ b.tables = s.tables /\ b.refs = s.refs /\ b.parts = s.parts /\ b.types = s.types
      /\ b.rows = {}
  <2>1. b = [ok |-> s.ok, tables |-> s.tables, refs |-> s.refs, parts |-> s.parts,
             types |-> s.types, rows |-> {}]
    BY <1>1, BareIs
  <2> QED
    BY <2>1
<1>3. (Legal(s, o) => Legal(b, o) /\ s.ok)
      /\ (Legal(b, o) /\ ~(o.kind = "fill" /\ o.table \in s.rows) => Legal(s, o))
  BY <1>2 DEF Legal
<1> QED
  BY <1>1, <1>3

LEMMA ApplyBare ==
  ASSUME NEW s, Shaped(s), NEW o
  PROVE  /\ Shaped(Apply(s, o))
         /\ Apply(s, o).ok => s.ok /\ Apply(Bare(s), o) = Bare(Apply(s, o))
         /\ Apply(Bare(s), o).ok /\ ~(o.kind = "fill" /\ o.table \in s.rows) => Apply(s, o).ok
         /\ Apply(s, o).ok => Apply(s, o).rows \subseteq s.rows
<1>1. Broken = [ok |-> FALSE, tables |-> {}, refs |-> {}, parts |-> {}, types |-> {}, rows |-> {}]
  <2>1. Empty = [ok |-> TRUE, tables |-> {}, refs |-> {}, parts |-> {}, types |-> {}, rows |-> {}]
    BY DEF Empty
  <2>2. PICK e : e = Empty
    OBVIOUS
  <2>3. Broken = [e EXCEPT !.ok = FALSE]
    BY <2>2 DEF Broken
  <2> QED
    BY <2>1, <2>2, <2>3
<1>2. Shaped(Broken) /\ ~Broken.ok
  BY <1>1 DEF Shaped
<1>3. CASE Legal(s, o)
  <2>1. Legal(Bare(s), o) /\ s.ok
    BY <1>3, LegalBare
  <2>2. Apply(s, o) = Effect(s, o) /\ Apply(Bare(s), o) = Effect(Bare(s), o)
    BY <1>3, <2>1, ApplyIs
  <2>3. /\ Shaped(Effect(s, o)) /\ Effect(s, o).ok /\ Effect(s, o).rows \subseteq s.rows
        /\ Effect(Bare(s), o) = Bare(Effect(s, o))
    BY <2>1, EffectBare
  <2> QED
    BY <2>1, <2>2, <2>3
<1>4. CASE ~Legal(s, o)
  <2>1. Apply(s, o) = Broken
    BY <1>4, ApplyIs
  <2>2. CASE Legal(Bare(s), o)
    <3>1. o.kind = "fill" /\ o.table \in s.rows
      BY <1>4, <2>2, LegalBare
    <3> QED
      BY <1>2, <2>1, <3>1
  <2>3. CASE ~Legal(Bare(s), o)
    <3>1. Apply(Bare(s), o) = Broken
      BY <2>3, ApplyIs
    <3> QED
      BY <1>2, <2>1, <3>1
  <2> QED
    BY <2>2, <2>3
<1> QED
  BY <1>3, <1>4

LEMMA RunBare ==
  ASSUME NEW s, Shaped(s), NEW l, Len(l) \in Nat
  PROVE  /\ Shaped(Run(s, l))
         /\ Run(s, l).ok => Run(Bare(s), l) = Bare(Run(s, l))
         /\ Run(Bare(s), l).ok =>
              Run(s, l).ok \/ \E n \in 1 .. Len(l) : l[n].kind = "fill" /\ l[n].table \in s.rows
<1> DEFINE n == Len(l)
           obstructed == \E i \in 1 .. n : l[i].kind = "fill" /\ l[i].table \in s.rows
<1>1. PICK h : /\ h[0] = s /\ Run(s, l) = h[n]
               /\ \A i \in 0 .. n - 1 : h[i + 1] = Apply(h[i], l[i + 1])
  BY RunIs
<1>2. PICK g : /\ g[0] = Bare(s) /\ Run(Bare(s), l) = g[n]
               /\ \A i \in 0 .. n - 1 : g[i + 1] = Apply(g[i], l[i + 1])
  BY RunIs
<1> DEFINE S == {i \in 0 .. n : /\ Shaped(h[i])
                                /\ h[i].ok => g[i] = Bare(h[i]) /\ h[i].rows \subseteq s.rows
                                /\ ~h[i].ok => obstructed \/ ~g[i].ok}
<1>3. 0 \in S
  <2>1. Shaped(h[0]) /\ g[0] = Bare(h[0]) /\ h[0].rows \subseteq s.rows
    BY <1>1, <1>2
  <2>2. g[0].ok = h[0].ok
    BY <2>1, BareIs
  <2> HIDE DEF obstructed
  <2> QED
    BY <2>1, <2>2
<1>4. ASSUME NEW i \in 0 .. n - 1, i \in S PROVE i + 1 \in S
  <2>1. h[i + 1] = Apply(h[i], l[i + 1]) /\ g[i + 1] = Apply(g[i], l[i + 1]) /\ i + 1 \in 1 .. n
        /\ i + 1 \in 0 .. n
    BY <1>1, <1>2
  <2>2. /\ Shaped(h[i]) /\ (h[i].ok => g[i] = Bare(h[i]) /\ h[i].rows \subseteq s.rows)
        /\ ~h[i].ok => obstructed \/ ~g[i].ok
    BY <1>4
  <2>3. Shaped(h[i + 1])
    BY <2>1, <2>2, ApplyBare
  <2>4. ASSUME h[i + 1].ok PROVE g[i + 1] = Bare(h[i + 1]) /\ h[i + 1].rows \subseteq s.rows
    <3>1. PICK a, o : a = h[i] /\ o = l[i + 1]
      OBVIOUS
    <3>2. Shaped(a) /\ h[i + 1] = Apply(a, o) /\ Apply(a, o).ok
      BY <2>1, <2>2, <2>4, <3>1
    <3>3. a.ok /\ Apply(Bare(a), o) = Bare(Apply(a, o)) /\ Apply(a, o).rows \subseteq a.rows
      BY <3>2, ApplyBare
    <3>4. g[i] = Bare(a) /\ a.rows \subseteq s.rows /\ g[i + 1] = Apply(g[i], o)
      BY <2>1, <2>2, <3>1, <3>3
    <3> QED
      BY <3>2, <3>3, <3>4
  <2>5. ASSUME ~h[i + 1].ok, ~obstructed PROVE ~g[i + 1].ok
    <3>1. CASE h[i].ok
      <4>1. ~(l[i + 1].kind = "fill" /\ l[i + 1].table \in h[i].rows)
        BY <2>1, <2>2, <2>5, <3>1
      <4>2. PICK a, o : a = h[i] /\ o = l[i + 1]
        OBVIOUS
      <4>3. Shaped(a) /\ h[i + 1] = Apply(a, o) /\ g[i + 1] = Apply(Bare(a), o)
        BY <2>1, <2>2, <3>1, <4>2
      <4>4. ~(o.kind = "fill" /\ o.table \in a.rows)
        BY <4>1, <4>2
      <4>5. Apply(Bare(a), o).ok => Apply(a, o).ok
        BY <4>3, <4>4, ApplyBare
      <4> QED
        BY <2>5, <4>3, <4>5
    <3>2. CASE ~h[i].ok
      <4>1. ~g[i].ok
        BY <2>2, <2>5, <3>2
      <4>2. ~Legal(g[i], l[i + 1])
        BY <4>1 DEF Legal
      <4> QED
        BY <2>1, <4>2, ApplyIs DEF Broken, Empty
    <3> QED
      BY <3>1, <3>2
  <2> HIDE DEF obstructed
  <2> QED
    BY <2>1, <2>3, <2>4, <2>5
<1>5. n \in S
  <2> HIDE DEF S, n
  <2>1. n \in Nat /\ n \in 0 .. n
    BY DEF n
  <2> QED
    BY <1>3, <1>4, <2>1, Counting
<1> QED
  BY <1>1, <1>2, <1>5

-----------------------------------------------------------------------------
(* The schema.                                                              *)

(* A schema, but for its rows, is at a place that a route leads to; and at  *)
(* the one that upgrades alone lead to.                                     *)
Place(v, s) == [version |-> v, schema |-> Bare(s)]
Sound(v, s) == v \in 0 .. Latest /\ Shaped(s) /\ s.ok /\ Place(v, s) \in Known
OnWay(v, s) == Place(v, s) = Uphill[v]

SchemasSound ==
  /\ db = [version |-> db.version, schema |-> db.schema] /\ Sound(db.version, db.schema)
  /\ tx # None => tx.by \in Containers /\ tx.version >= 1 /\ Sound(tx.version, tx.schema)
  /\ ~downgraded => OnWay(db.version, db.schema) /\ (tx # None => OnWay(tx.version, tx.schema))

\* A container that is to migrate has found less than its release.
Found ==
  /\ saw \in [Containers -> 0 .. Latest] /\ faults \in 0 .. MaxFaults /\ redis \in BOOLEAN
  /\ \A c \in Containers : at[c] = "revise" => saw[c] < image[c].release

DatabaseInv == Placed /\ SchemasSound /\ Found

LEMMA ReleaseIsKnown == \A i \in Images : i.release \in 1 .. Latest
  BY DeploymentAssumption DEF Images

LEMMA RowsApart ==
  ASSUME NEW v, NEW s, Shaped(s), NEW rows
  PROVE  /\ Shaped([s EXCEPT !.rows = rows]) /\ Place(v, [s EXCEPT !.rows = rows]) = Place(v, s)
         /\ [s EXCEPT !.rows = rows].ok = s.ok /\ [s EXCEPT !.rows = rows].rows = rows
<1>1. PICK r : r = [s EXCEPT !.rows = rows]
  OBVIOUS
<1>2. r = [ok |-> s.ok, tables |-> s.tables, refs |-> s.refs, parts |-> s.parts,
           types |-> s.types, rows |-> rows] /\ s.ok \in BOOLEAN
  BY <1>1 DEF Shaped
<1>3. Shaped(r) /\ r.ok = s.ok /\ r.rows = rows
  BY <1>2 DEF Shaped
<1>4. Bare(r) = [ok |-> s.ok, tables |-> s.tables, refs |-> s.refs, parts |-> s.parts,
                 types |-> s.types, rows |-> {}]
  BY <1>2, <1>3, BareIs
<1>5. Bare(r) = Bare(s)
  BY <1>4, BareIs
<1> QED
  BY <1>1, <1>3, <1>5 DEF Place

LEMMA WayUp ==
  ASSUME NEW v \in 0 .. Latest, v + 1 \in 1 .. Latest
  PROVE  Uphill[v + 1] = Raised(Uphill[v]) /\ Uphill[v + 1].schema.ok
<1>1. PICK u : u = v + 1
  OBVIOUS
<1>2. u \in 1 .. Latest /\ u - 1 = v
  BY <1>1, RevisionsAreLists
<1>3. Uphill[u] = Raised(Uphill[u - 1]) /\ Uphill[u].schema.ok
  BY <1>2, UpgradesGoThrough
<1> QED
  BY <1>1, <1>2, <1>3

(* One revision up leads from a place to the next, also on the way up alone. *)
LEMMA RaisedSound ==
  ASSUME NEW v, NEW s, Sound(v, s), v < Latest, Run(s, Revisions[v + 1].up).ok
  PROVE  /\ Sound(v + 1, Run(s, Revisions[v + 1].up))
         /\ OnWay(v, s) => OnWay(v + 1, Run(s, Revisions[v + 1].up))
<1> DEFINE l == Revisions[v + 1].up
           p == Place(v, s)
<1>1. v \in 0 .. Latest /\ Latest \in Nat /\ v + 1 \in 1 .. Latest /\ v = v + 1 - 1
  BY RevisionsAreLists DEF Sound
<1>2. Len(l) \in Nat
  BY <1>1, RevisionsAreLists
<1>3. Shaped(Run(s, l)) /\ Run(Bare(s), l) = Bare(Run(s, l))
  <2> HIDE DEF l
  <2> QED
    BY <1>2, RunBare DEF Sound, l
<1>4. Raised(p) = Place(v + 1, Run(s, l))
  BY <1>3 DEF Raised, Place
<1>5. Bare(Run(s, l)).ok
  BY <1>3, BareIs
<1>6. Raised(p) \in After(p)
  <2>1. p.version = v /\ Raised(p).schema = Bare(Run(s, l))
    BY <1>4 DEF Place
  <2> HIDE DEF p, l
  <2> QED
    BY <1>5, <2>1 DEF After
<1>7. Sound(v + 1, Run(s, l))
  BY <1>1, <1>3, <1>4, <1>6, RoutesAreKnown DEF Sound
<1>8. ASSUME OnWay(v, s) PROVE OnWay(v + 1, Run(s, l))
  <2>1. Uphill[v + 1] = Raised(Uphill[v])
    BY <1>1, WayUp
  <2> QED
    BY <1>4, <1>8, <2>1 DEF OnWay
<1> QED
  BY <1>7, <1>8

LEMMA LoweredSound ==
  ASSUME NEW v, NEW s, Sound(v, s), v > 0, Run(s, Revisions[v].down).ok
  PROVE  Sound(v - 1, Run(s, Revisions[v].down))
<1> DEFINE l == Revisions[v].down
           p == Place(v, s)
<1>1. v \in 1 .. Latest /\ Latest \in Nat /\ v - 1 \in 0 .. Latest
  BY RevisionsAreLists DEF Sound
<1>2. Len(l) \in Nat
  BY <1>1, RevisionsAreLists
<1>3. Shaped(Run(s, l)) /\ Run(Bare(s), l) = Bare(Run(s, l))
  <2> HIDE DEF l
  <2> QED
    BY <1>2, RunBare DEF Sound, l
<1>4. Lowered(p) = Place(v - 1, Run(s, l))
  BY <1>3 DEF Lowered, Place
<1>5. Bare(Run(s, l)).ok
  BY <1>3, BareIs
<1>6. Lowered(p) \in After(p)
  <2>1. p.version = v /\ Lowered(p).schema = Bare(Run(s, l))
    BY <1>4 DEF Place
  <2> HIDE DEF p, l
  <2> QED
    BY <1>5, <2>1 DEF After
<1> QED
  BY <1>1, <1>3, <1>4, <1>6, RoutesAreKnown DEF Sound

(* It fails on the way up only when rows are in the way. *)
LEMMA RaisedFails ==
  ASSUME NEW v, NEW s, Sound(v, s), OnWay(v, s), v < Latest, ~Run(s, Revisions[v + 1].up).ok
  PROVE  \E n \in DOMAIN Revisions[v + 1].up :
           Revisions[v + 1].up[n].kind = "fill" /\ Revisions[v + 1].up[n].table \in s.rows
<1> DEFINE l == Revisions[v + 1].up
<1>1. v \in 0 .. Latest /\ v + 1 \in 1 .. Latest
  BY RevisionsAreLists DEF Sound
<1>2. Len(l) \in Nat /\ DOMAIN l = 1 .. Len(l)
  BY <1>1, RevisionsAreLists
<1>3. Uphill[v + 1] = Raised(Uphill[v]) /\ Uphill[v + 1].schema.ok
  BY <1>1, WayUp
<1>4. Raised(Uphill[v]).schema = Run(Bare(s), l)
  BY DEF OnWay, Place, Raised
<1>5. Run(Bare(s), l).ok
  BY <1>3, <1>4
<1>6. \E n \in 1 .. Len(l) : l[n].kind = "fill" /\ l[n].table \in s.rows
  <2> HIDE DEF l
  <2> QED
    BY <1>2, <1>5, RunBare DEF Sound, l
<1> QED
  BY <1>2, <1>6

(* A step that leaves the schemas alone, or drops the open transaction. *)
LEMMA SameSchemas ==
  ASSUME SchemasSound, UNCHANGED db, UNCHANGED tx \/ tx' = None, downgraded => downgraded'
  PROVE  SchemasSound'
  BY DEF SchemasSound

LEMMA ReviseSound ==
  ASSUME DatabaseInv, NEW c \in Containers, Revise(c)
  PROVE  SchemasSound'
<1> USE DEF DatabaseInv
<1>1. PICK w : w = Working(c)
  OBVIOUS
<1>2. image[c].release \in 1 .. Latest /\ Latest \in Nat /\ saw[c] \in 0 .. Latest /\ saw[c] < image[c].release
  BY ReleaseIsKnown, RevisionsAreLists DEF Placed, Found, Revise
<1>3. PICK base : base = IF tx = None THEN db ELSE tx
  OBVIOUS
<1>4. Sound(base.version, base.schema) /\ (~downgraded => OnWay(base.version, base.schema))
  BY <1>3 DEF SchemasSound
<1>5. w.version = base.version /\ w.schema = [base.schema EXCEPT !.rows = db.schema.rows]
  BY <1>1, <1>3 DEF Working
<1>6. Sound(w.version, w.schema) /\ (~downgraded => OnWay(w.version, w.schema))
  BY <1>4, <1>5, RowsApart DEF Sound, OnWay
<1> DEFINE s == Run(w.schema, Revisions[w.version + 1].up)
<1>7. UNCHANGED <<db, downgraded>>
  BY DEF Revise
<1>8. CASE tx' = tx \/ tx' = None
  BY <1>7, <1>8, SameSchemas
<1>9. CASE tx' = [by |-> c, version |-> w.version + 1, schema |-> s] /\ s.ok /\ ~(tx = None /\ db.version # saw[c])
  <2>1. w.version < image[c].release
    BY <1>2, <1>3, <1>5, <1>9 DEF Revise
  <2>2. w.version < Latest /\ w.version + 1 >= 1
    BY <1>2, <1>6, <2>1 DEF Sound
  <2>3. Sound(w.version + 1, s) /\ (~downgraded => OnWay(w.version + 1, s))
    BY <1>6, <1>9, <2>2, RaisedSound
  <2>4. tx'.by = c /\ tx'.version = w.version + 1 /\ tx'.schema = s
    <3> HIDE DEF s
    <3> QED
      BY <1>9
  <2> HIDE DEF s
  <2> QED
    BY <1>7, <2>2, <2>3, <2>4 DEF SchemasSound
<1> QED
  <2>1. \/ tx' = tx \/ tx' = None
        \/ /\ tx' = [by |-> c, version |-> w.version + 1, schema |-> s] /\ s.ok
           /\ ~(tx = None /\ db.version # saw[c])
    BY <1>1 DEF Revise
  <2> QED
    BY <1>8, <1>9, <2>1

LEMMA CommitSound ==
  ASSUME DatabaseInv, NEW c \in Containers, CommitMigration(c)
  PROVE  SchemasSound'
<1> USE DEF DatabaseInv
<1>1. tx # None /\ tx' = None /\ UNCHANGED downgraded
  BY DEF CommitMigration
<1>2. PICK s : s = [tx.schema EXCEPT !.rows = db.schema.rows \cap tx.schema.tables]
  OBVIOUS
<1>3. db' = [version |-> tx.version, schema |-> s]
  BY <1>2 DEF CommitMigration
<1>4. Sound(tx.version, s) /\ (~downgraded => OnWay(tx.version, s))
  BY <1>1, <1>2, RowsApart DEF SchemasSound, Sound, OnWay
<1>5. db'.version = tx.version /\ db'.schema = s /\ db' = [version |-> db'.version, schema |-> db'.schema]
  BY <1>3
<1> QED
  BY <1>1, <1>4, <1>5 DEF SchemasSound

LEMMA WriteSound ==
  ASSUME DatabaseInv, NEW c \in Containers, NEW t \in Busy, Write(c, t)
  PROVE  SchemasSound'
<1> USE DEF DatabaseInv
<1>1. UNCHANGED <<tx, downgraded>>
  BY DEF Write
<1>2. PICK v, d : v = db.version /\ d = db.schema
  OBVIOUS
<1>3. db = [version |-> v, schema |-> d] /\ Sound(v, d) /\ (~downgraded => OnWay(v, d))
  BY <1>2 DEF SchemasSound
<1>4. PICK s : s = [d EXCEPT !.rows = d.rows \cup {t}]
  OBVIOUS
<1>5. db' = [version |-> v, schema |-> s]
  BY <1>3, <1>4 DEF Write
<1>6. Sound(v, s) /\ (~downgraded => OnWay(v, s))
  BY <1>3, <1>4, RowsApart DEF Sound, OnWay
<1>7. db'.version = v /\ db'.schema = s /\ db' = [version |-> db'.version, schema |-> db'.schema]
  BY <1>5
<1> QED
  BY <1>1, <1>6, <1>7 DEF SchemasSound

LEMMA DowngradeSound ==
  ASSUME DatabaseInv, Downgrade
  PROVE  SchemasSound'
<1> USE DEF DatabaseInv
<1> DEFINE s == Run(db.schema, Revisions[db.version].down)
<1>1. s.ok /\ db' = [version |-> db.version - 1, schema |-> s] /\ db.version > 0 /\ tx' = None /\ downgraded'
  BY DEF Downgrade
<1>2. Sound(db.version - 1, s)
  BY <1>1, LoweredSound DEF SchemasSound
<1> HIDE DEF s
<1>3. db'.version = db.version - 1 /\ db'.schema = s /\ db' = [version |-> db'.version, schema |-> db'.schema]
  BY <1>1
<1> QED
  BY <1>1, <1>2, <1>3 DEF SchemasSound

LEMMA NextSound ==
  ASSUME DatabaseInv, [Next]_vars
  PROVE  SchemasSound'
<1> USE DEF DatabaseInv
<1>1. CASE UNCHANGED vars
  BY <1>1, SameSchemas DEF vars
<1>2. ASSUME NEW c \in Containers, Acquire(c) \/ Wait(c) \/ Skip(c) \/ Check(c) \/ Unlock(c) \/ Restart(c)
      PROVE  SchemasSound'
  BY <1>2, SameSchemas DEF Acquire, Wait, Skip, Check, Unlock, Restart
<1>3. ASSUME NEW c \in Containers, Crash(c) \/ Redeploy(c) PROVE SchemasSound'
  BY <1>3, SameSchemas DEF Crash, Redeploy
<1>4. CASE Expire \/ Outage \/ Recover
  BY <1>4, SameSchemas DEF Expire, Outage, Recover
<1> QED
  BY <1>1, <1>2, <1>3, <1>4, ReviseSound, CommitSound, WriteSound, DowngradeSound DEF Next, Step

(* What a container has found. *)
LEMMA SameFound ==
  ASSUME Found, UNCHANGED <<saw, faults, redis>>,
         \A c \in Containers : at'[c] = "revise" => at[c] = "revise" /\ image'[c] = image[c]
  PROVE  Found'
  BY DEF Found

LEMMA NextFound ==
  ASSUME DatabaseInv, [Next]_vars
  PROVE  Found'
<1>0. /\ Found /\ at \in [Containers -> Places] /\ image \in [Containers -> Images] /\ MaxFaults \in Nat
      /\ db.version \in 0 .. Latest /\ Latest \in Nat
  BY DeploymentAssumption, RevisionsAreLists DEF DatabaseInv, Placed, SchemasSound, Sound
<1>1. CASE UNCHANGED vars
  BY <1>0, <1>1, SameFound DEF vars
<1>2. ASSUME NEW c \in Containers,
             Acquire(c) \/ Wait(c) \/ Skip(c) \/ Unlock(c) \/ Restart(c) \/ Revise(c) \/ CommitMigration(c)
      PROVE  Found'
  <2>1. /\ UNCHANGED <<saw, faults, redis, image>> /\ \A d \in Containers : d # c => at'[d] = at[d]
        /\ at'[c] = "revise" => at[c] = "revise"
    BY <1>0, <1>2 DEF Acquire, Wait, Skip, Unlock, Restart, Revise, CommitMigration, Goes, Done, Failed
  <2> QED
    BY <1>0, <2>1, SameFound
<1>3. ASSUME NEW c \in Containers, Check(c) PROVE Found'
  <2>1. /\ UNCHANGED <<faults, redis, image>> /\ \A d \in Containers : d # c => at'[d] = at[d]
        /\ saw' = [saw EXCEPT ![c] = db.version]
    BY <1>0, <1>3 DEF Check, Goes, Done, Failed
  <2>2. image[c].release \in 1 .. Latest
    BY <1>0, ReleaseIsKnown
  <2>3. at'[c] = "revise" => db.version < image[c].release
    BY <1>0, <1>3, <2>2 DEF Check, Goes, Done, Failed
  <2> QED
    BY <1>0, <2>1, <2>3 DEF Found
<1>4. ASSUME NEW c \in Containers, Crash(c) \/ Redeploy(c) PROVE Found'
  <2>1. /\ UNCHANGED <<saw, redis>> /\ faults' \in 0 .. MaxFaults /\ at'[c] # "revise"
        /\ \A d \in Containers : d # c => at'[d] = at[d] /\ image'[d] = image[d]
    BY <1>0, <1>4 DEF Crash, Redeploy, Goes, Fault, Found
  <2> QED
    BY <1>0, <2>1 DEF Found
<1>5. ASSUME NEW c \in Containers, NEW t \in Busy, Write(c, t) PROVE Found'
  BY <1>0, <1>5, SameFound DEF Write
<1>6. CASE Expire \/ Outage \/ Recover \/ Downgrade
  <2>1. UNCHANGED <<at, image, saw>> /\ redis' \in BOOLEAN
    BY <1>0, <1>6 DEF Expire, Outage, Recover, Downgrade, Found
  <2>2. UNCHANGED faults \/ Fault
    BY <1>6 DEF Expire, Outage, Recover, Downgrade
  <2>3. faults' \in 0 .. MaxFaults
    BY <1>0, <2>2 DEF Fault, Found
  <2> QED
    BY <1>0, <2>1, <2>3 DEF Found
<1> QED
  BY <1>1, <1>2, <1>3, <1>4, <1>5, <1>6 DEF Next, Step

LEMMA DatabaseInvariant == Spec => []DatabaseInv
<1>1. Init => DatabaseInv
  <2> SUFFICES ASSUME Init PROVE DatabaseInv
    OBVIOUS
  <2>1. Placed
    BY DEF Init, Placed, Places
  <2>2. Found
    BY DeploymentAssumption, RevisionsAreLists DEF Init, Found
  <2>3. Start = [version |-> 0, schema |-> Empty]
    BY DEF Start
  <2>4. Empty = [ok |-> TRUE, tables |-> {}, refs |-> {}, parts |-> {}, types |-> {}, rows |-> {}]
    BY DEF Empty
  <2>5. Shaped(Empty) /\ Empty.ok
    BY <2>4 DEF Shaped
  <2>6. Bare(Empty) = Empty
    BY <2>4, <2>5, BareIs
  <2>7. Place(0, Empty) = Start
    BY <2>3, <2>6 DEF Place
  <2>8. db = Start /\ tx = None /\ db.version = 0 /\ db.schema = Empty
    BY <2>3 DEF Init
  <2>9. Sound(0, Empty) /\ OnWay(0, Empty)
    BY <2>5, <2>7, RevisionsAreLists, RoutesAreKnown, UpgradesGoThrough DEF Sound, OnWay
  <2>10. SchemasSound
    BY <2>3, <2>8, <2>9 DEF SchemasSound
  <2> QED
    BY <2>1, <2>2, <2>10 DEF DatabaseInv
<1>2. DatabaseInv /\ [Next]_vars => DatabaseInv'
  BY NextPlaced, NextSound, NextFound DEF DatabaseInv
<1> QED
  BY <1>1, <1>2, PTL DEF Spec

LEMMA SchemaHolds == DatabaseInv => SchemaInv
<1> SUFFICES ASSUME DatabaseInv PROVE SchemaInv
  OBVIOUS
<1> USE DEF DatabaseInv
<1>1. TypeOK
  BY DEF TypeOK, Placed, SchemasSound, Found, Sound, Places
<1>2. ASSUME db.version = Latest, NEW m \in Models PROVE Fits(db.schema, m)
  <2>1. Place(db.version, db.schema) \in Known /\ Shaped(db.schema)
    BY DEF SchemasSound, Sound
  <2>2. Fits(Bare(db.schema), m)
    BY <1>2, <2>1, LatestFits DEF Place
  <2>3. /\ Bare(db.schema).tables = db.schema.tables /\ Bare(db.schema).refs = db.schema.refs
        /\ Bare(db.schema).parts = db.schema.parts
    BY <2>1, BareIs
  <2> QED
    BY <2>2, <2>3 DEF Fits
<1> QED
  BY <1>1, <1>2 DEF SchemaInv, LatestFitsModels

(* Any number of containers of any releases start, crash, are replaced, and the database   *)
(* is downgraded and upgraded in any order: whenever it is at the last revision, what the  *)
(* models name is in it.                                                                   *)
THEOREM SchemaFits == Spec => []SchemaInv
  BY SchemaHolds, DatabaseInvariant, PTL

-----------------------------------------------------------------------------
(* Giving up.                                                               *)

LEMMA RevisesOrGivesUp ==
  ASSUME DatabaseInv, Versions, NEW c \in Containers, Revise(c), at'[c] \in {"failed", "serve"}
  PROVE  \/ downgraded \/ db.version # saw[c]
         \/ \E i \in (saw[c] + 1) .. image[c].release : Obstructed(i)
<1> USE DEF DatabaseInv
<1> SUFFICES ASSUME ~downgraded, db.version = saw[c]
             PROVE  \E i \in (saw[c] + 1) .. image[c].release : Obstructed(i)
  OBVIOUS
<1>1. PICK w : w = Working(c)
  OBVIOUS
<1>2. image[c].release \in 1 .. Latest /\ Latest \in Nat /\ saw[c] \in 0 .. Latest /\ saw[c] < image[c].release
  BY ReleaseIsKnown, RevisionsAreLists DEF Placed, Found, Revise
<1>3. PICK base : base = IF tx = None THEN db ELSE tx
  OBVIOUS
<1>4. Sound(base.version, base.schema) /\ OnWay(base.version, base.schema)
  BY <1>3 DEF SchemasSound
<1>5. w.version = base.version /\ w.schema = [base.schema EXCEPT !.rows = db.schema.rows]
  BY <1>1, <1>3 DEF Working
<1>6. Sound(w.version, w.schema) /\ OnWay(w.version, w.schema) /\ w.schema.rows = db.schema.rows
  BY <1>4, <1>5, RowsApart DEF Sound, OnWay
<1>7. w.version >= saw[c] /\ w.version < image[c].release
  BY <1>2, <1>3, <1>5 DEF Versions, Revise
<1>8. ~Run(w.schema, Revisions[w.version + 1].up).ok
  <2>1. at[c] = "revise"
    BY DEF Revise
  <2>2. ~UNCHANGED at
    BY <2>1
  <2> QED
    BY <1>1, <2>2 DEF Revise
<1>9. w.version < Latest /\ w.version + 1 \in (saw[c] + 1) .. image[c].release
  BY <1>2, <1>6, <1>7 DEF Sound
<1>10. Obstructed(w.version + 1)
  BY <1>6, <1>8, <1>9, RaisedFails DEF Obstructed
<1> QED
  BY <1>9, <1>10

LEMMA GivingUp ==
  ASSUME DatabaseInv, Versions, [Next]_vars, NEW c \in Containers, at[c] = "revise",
         at'[c] \in {"failed", "serve"}, db' = db, faults' = faults
  PROVE  Revise(c)
<1>0. at \in [Containers -> Places] /\ faults \in Int
  BY DEF DatabaseInv, Placed, Found
<1>1. at'[c] # at[c]
  OBVIOUS
<1>2. ASSUME NEW d \in Containers, d # c, Step(d) \/ Crash(d) \/ Redeploy(d) PROVE FALSE
  BY <1>0, <1>1, <1>2 DEF Step, Acquire, Wait, Skip, Check, Revise, CommitMigration, Unlock, Restart,
       Crash, Redeploy, Goes, Done, Failed
<1>3. ASSUME Crash(c) \/ Redeploy(c) PROVE FALSE
  BY <1>0, <1>3 DEF Crash, Redeploy, Fault
<1>4. ASSUME NEW d \in Containers, NEW t \in Busy, Write(d, t) PROVE FALSE
  BY <1>1, <1>4 DEF Write
<1>5. ~(UNCHANGED vars \/ Expire \/ Outage \/ Recover \/ Downgrade)
  BY <1>1 DEF vars, Expire, Outage, Recover, Downgrade
<1>6. ASSUME CommitMigration(c) PROVE FALSE
  <2>1. tx # None /\ db'.version = tx.version
    BY <1>6 DEF CommitMigration
  <2> QED
    BY <2>1 DEF Versions
<1>7. Step(c)
  BY <1>2, <1>3, <1>4, <1>5 DEF Next
<1> QED
  BY <1>6, <1>7 DEF Step, Acquire, Wait, Skip, Check, Unlock, Restart

(* alembic gives up only when another migration came first, rows are in the way, or a      *)
(* downgrade left something behind, whatever containers, releases and tables there are.    *)
THEOREM GivesUpRightly == Spec => GivesUpForAReason
<1>1. DatabaseInv /\ VersionInv /\ [Next]_vars =>
        [ \A c \in Containers :
            at[c] = "revise" /\ at'[c] \in {"failed", "serve"} /\ db' = db /\ faults' = faults =>
              \/ downgraded \/ db.version # saw[c]
              \/ \E i \in (saw[c] + 1) .. image[c].release : Obstructed(i) ]_vars
  BY GivingUp, RevisesOrGivesUp DEF VersionInv
<1> QED
  BY <1>1, DatabaseInvariant, VersionInvariant, PTL DEF Spec, GivesUpForAReason
=============================================================================
