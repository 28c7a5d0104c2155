----------------------------- MODULE UsageSync -----------------------------
(***************************************************************************)
(* The count of API calls of one application, endpoint and minute on its   *)
(* way from a Redis hash to api_usage_records: sync_api_usage.             *)
(*                                                                         *)
(* For each hash the task reads the count, reads the record, adds the one  *)
(* to the other in its session, and deletes the hash; it commits once, at  *)
(* the end.  A call counted between the read and the delete goes with the  *)
(* hash, and a session that fails after it takes the whole count along.    *)
(* (app_id, endpoint, method, minute) is not unique, so two first runs     *)
(* insert two records; the query takes any of them.                        *)
(***************************************************************************)
EXTENDS Integers, Sequences, FiniteSetsExt

CONSTANTS
  Workers,
  MaxCalls,  \* bound
  None

VARIABLES
  hash,     \* request_count of the usage:* hash; 0 if there is none
  records,  \* request_count of each api_usage_records row
  job,      \* what each worker is doing
  calls,    \* history: calls counted
  gone,     \* history: calls whose count was deleted or rolled back with nothing left of it
  twice,    \* history: calls that two runs added
  stale     \* history: what commits overwrote in a record that had changed since it was read
vars == <<hash, records, job, calls, gone, twice, stale>>

Idle == [at |-> "none", count |-> 0, row |-> None, old |-> 0, deleted |-> 0]

TypeOK ==
  /\ hash \in 0 .. MaxCalls /\ records \in Seq(Nat)
  /\ \A w \in Workers : job[w].count \in Nat /\ job[w].row \in DOMAIN records \cup {None}
  /\ calls \in 0 .. MaxCalls
  /\ gone \in Nat /\ twice \in Nat /\ stale \in Int

Init ==
  /\ hash = 0 /\ records = <<>>
  /\ job = [w \in Workers |-> Idle]
  /\ calls = 0 /\ gone = 0 /\ twice = 0 /\ stale = 0

Call ==
  /\ calls < MaxCalls
  /\ hash' = hash + 1 /\ calls' = calls + 1
  /\ UNCHANGED <<records, job, gone, twice, stale>>

\* redis.keys finds no hash: nothing to do.
NoHash(w) == job[w] = Idle /\ hash = 0 /\ UNCHANGED vars

\* redis.keys and hgetall.
ReadHash(w) ==
  /\ job[w] = Idle /\ hash > 0
  /\ job' = [job EXCEPT ![w] = [Idle EXCEPT !.at = "row", !.count = hash]]
  /\ UNCHANGED <<hash, records, calls, gone, twice, stale>>

FindRecord(w) ==
  /\ job[w].at = "row"
  /\ \/ \E n \in DOMAIN records :
          job' = [job EXCEPT ![w] = [@ EXCEPT !.at = "delete", !.row = n, !.old = records[n]]]
     \/ records = <<>> /\ job' = [job EXCEPT ![w].at = "delete"]
  /\ UNCHANGED <<hash, records, calls, gone, twice, stale>>

\* What the delete takes beyond what was read is gone; what another run had deleted before
\* it is counted twice.
DeleteHash(w) ==
  /\ job[w].at = "delete"
  /\ hash' = 0
  /\ job' = [job EXCEPT ![w].at = "commit", ![w].deleted = hash]
  /\ UNCHANGED <<records, calls, gone, twice, stale>>

Commit_OverCount(w) ==
  LET j == job[w]
  IN  /\ j.at = "commit"
      /\ records' = IF j.row = None THEN Append(records, j.count)
                    ELSE [records EXCEPT ![j.row] = j.count]
      /\ gone' = gone + Max({0, j.deleted - j.count})
      /\ twice' = twice + Max({0, j.count - j.deleted})
      /\ job' = [job EXCEPT ![w] = Idle]
      /\ UNCHANGED <<hash, calls, stale>>

Commit(w) ==
  LET j == job[w]
  IN  /\ j.at = "commit"
      /\ IF j.row = None
         THEN records' = Append(records, j.count) /\ UNCHANGED stale
         ELSE /\ records' = [records EXCEPT ![j.row] = j.old + j.count]
              /\ stale' = stale + (records[j.row] - j.old)
      /\ gone' = gone + Max({0, j.deleted - j.count})
      /\ twice' = twice + Max({0, j.count - j.deleted})
      /\ job' = [job EXCEPT ![w] = Idle]
      /\ UNCHANGED <<hash, calls>>

\* The commit fails or the worker is lost; a hash that was deleted stays deleted.
Fail(w) ==
  /\ job[w] # Idle
  /\ gone' = gone + job[w].deleted
  /\ job' = [job EXCEPT ![w] = Idle]
  /\ UNCHANGED <<hash, records, calls, twice, stale>>

Next ==
  \/ Call
  \/ \E w \in Workers :
       NoHash(w) \/ ReadHash(w) \/ FindRecord(w) \/ DeleteHash(w) \/ Commit(w) \/ Fail(w)

Spec == Init /\ [][Next]_vars

-----------------------------------------------------------------------------
(* Properties. *)

Sum(f, S) == FoldSet(LAMBDA x, acc : f[x] + acc, 0, S)

(* Every call is in the hash, in a record, or in the hands of a run, but for those a      *)
(* delete or a failure took, those added twice and those an update overwrote.             *)
CallsExplained ==
  calls = hash + Sum(records, DOMAIN records) + Sum([w \in Workers |-> job[w].deleted], Workers)
          + gone - twice + stale
=============================================================================
