------------------------------- MODULE SignIn -------------------------------
(***************************************************************************)
(* One person's way in: registration, one-time codes and refresh tokens of *)
(* app/auth.                                                               *)
(*                                                                         *)
(* The account is a row in PostgreSQL; the code and the tokens are keys in *)
(* Redis, which no rollback undoes.  A code is stored and mailed before    *)
(* the registration commits, and it is checked by a get and a delete.      *)
(* When Redis fails the handlers go on: a code that was not stored is      *)
(* mailed, and a token that was not stored is handed out.                  *)
(*                                                                         *)
(* Codes and tokens are numbered as they are made.                         *)
(***************************************************************************)
EXTENDS Naturals, FiniteSets

CONSTANTS
  Threads,
  MaxCodes,   \* bound
  MaxTokens,  \* bound
  MaxFaults,  \* bound: failures of Redis, of the mail server or of a thread
  None

VARIABLES
  user,       \* the row of users: None, "inactive" or "active"
  inserting,  \* the thread whose insert of it is flushed and not committed, or None
  code,       \* otp:<address> in Redis, or None
  inbox,      \* codes that were mailed
  tokens,     \* refresh_token:* in Redis
  session,    \* what each thread is doing
  made,       \* codes and tokens made so far
  faults,
  spent,      \* history: codes that were used or ran out
  starts,     \* history: verifications that signed the person in
  extra,      \* history: refreshes whose token another had taken, or that could not delete it
  lost,       \* history: tokens logged out, run out, or not stored
  crowded     \* history: two threads were busy at once
vars == <<user, inserting, code, inbox, tokens, session, made, faults, spent, starts, extra, lost, crowded>>

\* A request at some place in its handler, with a code or a token.
Asks(op, place, c, n) == [op |-> op, at |-> place, code |-> c, token |-> n]
Idle == Asks("none", "none", None, None)
CodeIds == 1 .. MaxCodes

TypeOK ==
  /\ user \in {None, "inactive", "active"}
  /\ inserting \in Threads \cup {None}
  /\ code \in CodeIds \cup {None} /\ inbox \subseteq CodeIds /\ spent \subseteq CodeIds
  /\ tokens \subseteq 1 .. MaxTokens
  /\ made \in [codes : 0 .. MaxCodes, tokens : 0 .. MaxTokens]
  /\ faults \in 0 .. MaxFaults /\ starts \in Nat /\ extra \in Nat /\ lost \in Nat /\ crowded \in BOOLEAN

Init ==
  /\ user = None /\ inserting = None /\ code = None /\ inbox = {} /\ tokens = {}
  /\ session = [t \in Threads |-> Idle]
  /\ made = [codes |-> 0, tokens |-> 0]
  /\ faults = 0 /\ spent = {} /\ starts = 0 /\ extra = 0 /\ lost = 0 /\ crowded = FALSE

Begin(t, s) ==
  /\ session[t] = Idle
  /\ session' = [session EXCEPT ![t] = s]
  /\ crowded' = (crowded \/ \E u \in Threads : session[u] # Idle)

GoTo(t, stage) == session' = [session EXCEPT ![t].at = stage] /\ UNCHANGED crowded
End(t) == session' = [session EXCEPT ![t] = Idle] /\ UNCHANGED crowded
At(t, stage) == session[t].at = stage

\* The bounds: requests that may still make a code or a token.
Pending(stages) == Cardinality({u \in Threads : session[u].at \in stages})
MoreCodes == made.codes + Pending({"insert", "store"}) < MaxCodes
MoreTokens == made.tokens + Pending({"use", "activate", "rotate", "issue"}) < MaxTokens

Works == UNCHANGED faults
Fails == faults < MaxFaults /\ faults' = faults + 1

-----------------------------------------------------------------------------
(* Registration and codes. *)

FindNobody(t) ==
  /\ user = None /\ MoreCodes
  /\ Begin(t, Asks("register", "insert", None, None))
  /\ UNCHANGED <<user, inserting, code, inbox, tokens, made, faults, spent, starts, extra, lost>>

\* The unique address makes a second insert wait for the first and then fail.
InsertUser(t) ==
  /\ At(t, "insert") /\ inserting = None
  /\ IF user = None THEN inserting' = t /\ GoTo(t, "store") ELSE UNCHANGED inserting /\ End(t)
  /\ UNCHANGED <<user, code, inbox, tokens, made, faults, spent, starts, extra, lost>>

\* resend-otp, and login with an address: whether the account is active is not asked.
FindUser_Anyone(t) ==
  /\ MoreCodes
  /\ Begin(t, Asks("resend", "store", None, None))
  /\ UNCHANGED <<user, inserting, code, inbox, tokens, made, faults, spent, starts, extra, lost>>

FindUser(t) ==
  /\ user # None /\ MoreCodes
  /\ Begin(t, Asks("resend", "store", None, None))
  /\ UNCHANGED <<user, inserting, code, inbox, tokens, made, faults, spent, starts, extra, lost>>

StoreCode(t) ==
  LET n == made.codes + 1
  IN  /\ At(t, "store")
      /\ made' = [made EXCEPT !.codes = n]
      /\ session' = [session EXCEPT ![t].at = "mail", ![t].code = n]
      /\ \/ Works /\ code' = n
         \/ Fails /\ UNCHANGED code
      /\ UNCHANGED <<user, inserting, inbox, tokens, spent, starts, extra, lost, crowded>>

\* A registration whose mail fails is rolled back; its code stays.
MailCode(t) ==
  /\ At(t, "mail")
  /\ \/ /\ Works /\ inbox' = inbox \cup {session[t].code}
        /\ IF inserting = t THEN GoTo(t, "commit") ELSE End(t)
        /\ UNCHANGED inserting
     \/ /\ Fails /\ UNCHANGED inbox
        /\ inserting' = IF inserting = t THEN None ELSE inserting
        /\ End(t)
  /\ UNCHANGED <<user, code, tokens, made, spent, starts, extra, lost>>

CommitUser(t) ==
  /\ At(t, "commit")
  /\ user' = "inactive" /\ inserting' = None
  /\ End(t)
  /\ UNCHANGED <<code, inbox, tokens, made, faults, spent, starts, extra, lost>>

\* The person types a code from the inbox.
CheckCode(t) ==
  /\ MoreTokens
  /\ \E c \in inbox : c = code /\ Begin(t, Asks("verify", "use", c, None))
  /\ UNCHANGED <<user, inserting, code, inbox, tokens, made, faults, spent, starts, extra, lost>>

\* The delete takes whatever code is there by now; if it fails the code is refused.
UseCode(t) ==
  /\ At(t, "use")
  /\ \/ Works /\ code' = None /\ spent' = spent \cup {session[t].code} /\ GoTo(t, "activate")
     \/ Fails /\ UNCHANGED <<code, spent>> /\ End(t)
  /\ UNCHANGED <<user, inserting, inbox, tokens, made, starts, extra, lost>>

Activate(t) ==
  /\ At(t, "activate")
  /\ IF user = None
     THEN UNCHANGED <<user, starts>> /\ End(t)
     ELSE user' = "active" /\ starts' = starts + 1 /\ GoTo(t, "issue")
  /\ UNCHANGED <<inserting, code, inbox, tokens, made, faults, spent, extra, lost>>

ExpireCode ==
  /\ code # None
  /\ code' = None /\ spent' = spent \cup {code}
  /\ UNCHANGED <<user, inserting, inbox, tokens, session, made, faults, starts, extra, lost, crowded>>

-----------------------------------------------------------------------------
(* Refresh tokens. *)

IssueToken(t) ==
  LET n == made.tokens + 1
  IN  /\ At(t, "issue")
      /\ made' = [made EXCEPT !.tokens = n]
      /\ \/ Works /\ tokens' = tokens \cup {n} /\ UNCHANGED lost
         \/ Fails /\ UNCHANGED tokens /\ lost' = lost + 1
      /\ End(t)
      /\ UNCHANGED <<user, inserting, code, inbox, spent, starts, extra>>

FindToken(t) ==
  /\ user = "active" /\ MoreTokens
  /\ \E n \in tokens : Begin(t, Asks("refresh", "rotate", None, n))
  /\ UNCHANGED <<user, inserting, code, inbox, tokens, made, faults, spent, starts, extra, lost>>

\* Redis does not say whether the delete found the token, and a failure is passed over.
Rotate_Kept(t) ==
  /\ At(t, "rotate")
  /\ Works /\ UNCHANGED <<tokens, extra>>
  /\ GoTo(t, "issue")
  /\ UNCHANGED <<user, inserting, code, inbox, made, spent, starts, lost>>

Rotate(t) ==
  LET old == session[t].token
  IN  /\ At(t, "rotate")
      /\ \/ /\ Works /\ tokens' = tokens \ {old}
            /\ extra' = extra + (IF old \in tokens THEN 0 ELSE 1)
         \/ Fails /\ UNCHANGED tokens /\ extra' = extra + 1
      /\ GoTo(t, "issue")
      /\ UNCHANGED <<user, inserting, code, inbox, made, spent, starts, lost>>

\* Logging out with the token, or its expiry.
DropToken ==
  /\ \E n \in tokens : tokens' = tokens \ {n}
  /\ lost' = lost + 1
  /\ UNCHANGED <<user, inserting, code, inbox, session, made, faults, spent, starts, extra, crowded>>

-----------------------------------------------------------------------------
\* A code or a token that Redis does not have, an address that is taken or unknown.
Refuse(t) == session[t] = Idle /\ UNCHANGED vars

\* The thread dies and PostgreSQL rolls back; what it put into Redis stays.
Crash(t) ==
  /\ session[t] # Idle /\ Fails
  /\ inserting' = IF inserting = t THEN None ELSE inserting
  /\ lost' = lost + (IF At(t, "issue") THEN 1 ELSE 0)
  /\ End(t)
  /\ UNCHANGED <<user, code, inbox, tokens, made, spent, starts, extra>>

Next ==
  \/ ExpireCode \/ DropToken
  \/ \E t \in Threads :
       \/ FindNobody(t) \/ InsertUser(t) \/ FindUser(t) \/ StoreCode(t) \/ MailCode(t) \/ CommitUser(t)
       \/ CheckCode(t) \/ UseCode(t) \/ Activate(t) \/ IssueToken(t) \/ FindToken(t) \/ Rotate(t)
       \/ Refuse(t) \/ Crash(t)

Spec == Init /\ [][Next]_vars

-----------------------------------------------------------------------------
(* Properties. *)

Busy(op) == \E t \in Threads : session[t].op = op
Entitled == Cardinality({t \in Threads : At(t, "issue")})

(* With one request at a time and nothing failing, the newest code works until it is used  *)
(* or runs out, and whoever uses it has an account.                                        *)
SerialCodesWork ==
  ~crowded /\ faults = 0 =>
    /\ code = made.codes \/ made.codes \in spent \cup {0}
    /\ code # None /\ ~Busy("register") => user # None

(* Each activation starts one chain of refresh tokens, whose links replace each other: a   *)
(* chain has a second end only if a refresh took a token that was gone or stayed.          *)
SessionsExplained == Cardinality(tokens) + Entitled + lost = starts + extra
=============================================================================
