----------------------------- MODULE GstFiling -----------------------------
(***************************************************************************)
(* One store's GST returns and e-invoices: app/gst, app/einvoicing and     *)
(* compile_monthly_gst.                                                    *)
(*                                                                         *)
(* A sale adds a row to gst_transactions.  The compilation sums the rows   *)
(* of a period, lists them in a file, and writes the figures to the        *)
(* period's row of gst_filing_periods; filing marks the row FILED and      *)
(* stamps the file.  Files are written before the commit and are not       *)
(* rolled back.  Nothing is locked: a session keeps the row it read, and   *)
(* its commit sends the columns that then differ.                          *)
(*                                                                         *)
(* One period.  Figures are represented by the set of sales summed, so the *)
(* amounts stay out; a file is written and read in one step.               *)
(***************************************************************************)
EXTENDS Naturals, Sequences, FiniteSets, SequencesExt

CONSTANTS
  Threads,       \* request threads and task processes
  Sales,
  Configs,       \* what PUT /gst/config may set, whether sales are taxed
  Categories,
  Codes,         \* HSN codes
  MaxInvoices,   \* bound: e-invoices of one sale
  MaxCrashes,    \* bound
  None

VARIABLES
  config,     \* the store_gst_config row: whether a sale adds a GST row, or None
  rows,       \* sales with a gst_transactions row
  filing,     \* the gst_filing_periods row, or None
  inserting,  \* the session whose insert of that row is flushed and not committed, or None
  file,       \* GSTR1_<store>_<period>.json, or None
  mappings,   \* gst_hsn_mappings
  invoices,   \* e_invoices of each sale, oldest first: their statuses
  sess,       \* what each thread is doing
  crashes,
  overlapped, \* history: two sessions were open at once
  torn        \* history: a crash cut off a session that had written the file or an invoice
vars == <<config, rows, filing, inserting, file, mappings, invoices, sess, crashes, overlapped,
          torn>>

Mapping == [category : Categories, code : Codes]
Filing == [counted : (SUBSET Sales) \cup {None}, status : {"READY", "COMPILED", "FILED"},
           path : BOOLEAN, compiled : BOOLEAN]
File == [counted : SUBSET Sales, listed : SUBSET Sales, acknowledged : BOOLEAN]

\* What a session knows: the rows it read, what it counted, what it will write.
Idle == [op |-> "none", at |-> "end", sale |-> None, row |-> None, new |-> None,
         counted |-> {}, listed |-> {}, file |-> None, wrote |-> FALSE]

TypeOK ==
  /\ config \in BOOLEAN \cup {None} /\ rows \subseteq Sales
  /\ filing = None \/ filing \in Filing
  /\ inserting \in Threads \cup {None}
  /\ file = None \/ file \in File
  /\ mappings \subseteq Mapping
  /\ \A m, n \in mappings : m.category = n.category <=> m.code = n.code
  /\ invoices \in [Sales -> Seq({"DRAFT", "ACCEPTED"})]
  /\ \A t \in Threads : sess[t].counted \subseteq Sales /\ sess[t].listed \subseteq Sales
  /\ crashes \in 0 .. MaxCrashes /\ overlapped \in BOOLEAN /\ torn \in BOOLEAN

Init ==
  /\ config = None /\ rows = {} /\ filing = None /\ inserting = None /\ file = None
  /\ mappings = {} /\ invoices = [s \in Sales |-> <<>>]
  /\ sess = [t \in Threads |-> Idle]
  /\ crashes = 0 /\ overlapped = FALSE /\ torn = FALSE

-----------------------------------------------------------------------------
(* Sessions. *)

Begin(t, s) ==
  /\ sess[t] = Idle
  /\ sess' = [sess EXCEPT ![t] = s]
  /\ overlapped' = (overlapped \/ \E u \in Threads : sess[u] # Idle)
  /\ UNCHANGED <<crashes, torn>>

At(t, op, place) == sess[t].op = op /\ sess[t].at = place

Go(t, s) == sess' = [sess EXCEPT ![t] = s] /\ UNCHANGED <<crashes, overlapped, torn>>
End(t) == Go(t, Idle)

books == <<config, rows, filing, inserting, file, mappings, invoices>>

-----------------------------------------------------------------------------
(* The configuration, and the sales it taxes. *)

ReadConfig(t) ==
  /\ \E c \in Configs : Begin(t, [Idle EXCEPT !.op = "config", !.row = config, !.new = c])
  /\ UNCHANGED books

\* An insert beside another one breaks the unique store_id; the request fails.
PutConfig(t) ==
  /\ At(t, "config", "end")
  /\ config' = IF sess[t].row = None => config = None THEN sess[t].new ELSE config
  /\ End(t)
  /\ UNCHANGED <<rows, filing, inserting, file, mappings, invoices>>

RingUp(t) ==
  /\ \E s \in Sales \ (rows \cup {sess[u].sale : u \in Threads}) :
       Begin(t, [Idle EXCEPT !.op = "sale", !.sale = s, !.row = config])
  /\ UNCHANGED books

RecordSale(t) ==
  /\ At(t, "sale", "end")
  /\ rows' = IF sess[t].row = TRUE THEN rows \cup {sess[t].sale} ELSE rows
  /\ End(t)
  /\ UNCHANGED <<config, filing, inserting, file, mappings, invoices>>

-----------------------------------------------------------------------------
(* compile_monthly_gst. *)

\* One query sums and counts; a period with no rows is left alone.
Sum(t) ==
  /\ rows # {}
  /\ Begin(t, [Idle EXCEPT !.op = "compile", !.at = "row", !.counted = rows])
  /\ UNCHANGED books

FindPeriod(t) ==
  /\ At(t, "compile", "row")
  /\ Go(t, [sess[t] EXCEPT !.at = "list", !.row = filing])
  /\ UNCHANGED books

\* The rows are queried again for the list.
List(t) ==
  /\ At(t, "compile", "list")
  /\ Go(t, [sess[t] EXCEPT !.at = "file", !.listed = rows])
  /\ UNCHANGED books

WriteFile_Recount(t) ==
  /\ At(t, "compile", "file")
  /\ file' = [counted |-> rows, listed |-> sess[t].listed, acknowledged |-> FALSE]
  /\ Go(t, [sess[t] EXCEPT !.at = "end", !.wrote = TRUE])
  /\ UNCHANGED <<config, rows, filing, inserting, mappings, invoices>>

WriteFile(t) ==
  /\ At(t, "compile", "file")
  /\ file' = [counted |-> sess[t].counted, listed |-> sess[t].listed, acknowledged |-> FALSE]
  /\ Go(t, [sess[t] EXCEPT !.at = "end", !.wrote = TRUE])
  /\ UNCHANGED <<config, rows, filing, inserting, mappings, invoices>>

Compiled_Status(r) ==
  LET new == [counted |-> r.counted, status |-> "COMPILED", path |-> TRUE, compiled |-> TRUE]
  IN  IF r.row = None THEN IF filing = None THEN new ELSE filing ELSE new

\* The update of the columns that differ from the row as it was read, or the insert; an
\* insert waits for another one and fails on the unique (store_id, period), which is logged.
Compiled(r) ==
  LET new == [counted |-> r.counted, status |-> "COMPILED", path |-> TRUE, compiled |-> TRUE]
  IN  IF r.row = None THEN IF filing = None THEN new ELSE filing
      ELSE [f \in DOMAIN new |-> IF new[f] # r.row[f] THEN new[f] ELSE filing[f]]

CommitCompiled(t) ==
  /\ At(t, "compile", "end")
  /\ sess[t].row = None => inserting = None
  /\ filing' = Compiled(sess[t])
  /\ End(t)
  /\ UNCHANGED <<config, rows, inserting, file, mappings, invoices>>

-----------------------------------------------------------------------------
(* POST /gst/gstr1/file. *)

FindReturn(t) ==
  /\ Begin(t, [Idle EXCEPT !.op = "file", !.row = filing,
                           !.at = IF filing = None THEN "insert" ELSE "load"])
  /\ UNCHANGED books

InsertReturn(t) ==
  /\ At(t, "file", "insert")
  /\ inserting = None
  /\ IF filing = None
     THEN /\ inserting' = t
          /\ Go(t, [sess[t] EXCEPT !.at = "end"])
     ELSE End(t) /\ UNCHANGED inserting
  /\ UNCHANGED <<config, rows, filing, file, mappings, invoices>>

LoadFile(t) ==
  /\ At(t, "file", "load")
  /\ Go(t, IF sess[t].row.path /\ file # None
           THEN [sess[t] EXCEPT !.at = "stamp", !.file = file]
           ELSE [sess[t] EXCEPT !.at = "end"])
  /\ UNCHANGED books

StampFile_Unstamped(t) ==
  /\ At(t, "file", "stamp")
  /\ file' = sess[t].file
  /\ Go(t, [sess[t] EXCEPT !.at = "end", !.wrote = TRUE])
  /\ UNCHANGED <<config, rows, filing, inserting, mappings, invoices>>

StampFile(t) ==
  /\ At(t, "file", "stamp")
  /\ file' = [sess[t].file EXCEPT !.acknowledged = TRUE]
  /\ Go(t, [sess[t] EXCEPT !.at = "end", !.wrote = TRUE])
  /\ UNCHANGED <<config, rows, filing, inserting, mappings, invoices>>

Filed(r) ==
  IF r.row = None
  THEN [counted |-> None, status |-> "FILED", path |-> FALSE, compiled |-> TRUE]
  ELSE [filing EXCEPT !.status = IF r.row.status # "FILED" THEN "FILED" ELSE @,
                      !.compiled = @ \/ ~r.row.compiled]

CommitFiled(t) ==
  /\ At(t, "file", "end")
  /\ filing' = Filed(sess[t])
  /\ inserting' = IF inserting = t THEN None ELSE inserting
  /\ End(t)
  /\ UNCHANGED <<config, rows, file, mappings, invoices>>

-----------------------------------------------------------------------------
(* HSN mappings; a duplicate category or code breaks a unique constraint.  *)

Free(m, others) == \A n \in others : n.category # m.category /\ n.code # m.code

CreateMapping_Unconstrained == \E m \in Mapping : mappings' = mappings \cup {m}

\* A mapping request in one step: two of them on one mapping end as if run in some order,
\* or in an error.
CreateMapping ==
  \E m \in Mapping : Free(m, mappings) /\ mappings' = mappings \cup {m}

UpdateMapping ==
  \E m \in mappings, c \in Categories :
    /\ Free([m EXCEPT !.category = c], mappings \ {m})
    /\ mappings' = (mappings \ {m}) \cup {[m EXCEPT !.category = c]}

DeleteMapping == \E m \in mappings : mappings' = mappings \ {m}

Map ==
  /\ CreateMapping \/ UpdateMapping \/ DeleteMapping
  /\ UNCHANGED <<config, rows, filing, inserting, file, invoices, sess, crashes, overlapped, torn>>

-----------------------------------------------------------------------------
(* POST /einvoicing/generate. *)

FindInvoice_Unchecked(t) ==
  /\ \E s \in Sales :
       /\ Len(invoices[s]) < MaxInvoices
       /\ Begin(t, [Idle EXCEPT !.op = "invoice", !.at = "draft", !.sale = s])
  /\ UNCHANGED books

\* The query has no order: any invoice of the sale may come first.
FindInvoice(t) ==
  /\ \E s \in Sales :
       /\ invoices[s] = <<>> \/ Contains(invoices[s], "DRAFT")
       /\ Len(invoices[s]) < MaxInvoices
       /\ Begin(t, [Idle EXCEPT !.op = "invoice", !.at = "draft", !.sale = s])
  /\ UNCHANGED books

DraftInvoice(t) ==
  /\ At(t, "invoice", "draft")
  /\ invoices' = [invoices EXCEPT ![sess[t].sale] = Append(@, "DRAFT")]
  /\ Go(t, [sess[t] EXCEPT !.at = "end", !.wrote = TRUE,
                           !.row = Len(invoices[sess[t].sale]) + 1])
  /\ UNCHANGED <<config, rows, filing, inserting, file, mappings>>

\* Every adapter's local gateway accepts what it is given.
Answer == "ACCEPTED"

AcceptInvoice(t) ==
  /\ At(t, "invoice", "end")
  /\ invoices' = [invoices EXCEPT ![sess[t].sale][sess[t].row] = Answer]
  /\ End(t)
  /\ UNCHANGED <<config, rows, filing, inserting, file, mappings>>

-----------------------------------------------------------------------------
\* A process dies; PostgreSQL rolls its session back, the file stays.
Crash(t) ==
  /\ crashes < MaxCrashes /\ sess[t] # Idle
  /\ sess' = [sess EXCEPT ![t] = Idle]
  /\ inserting' = IF inserting = t THEN None ELSE inserting
  /\ crashes' = crashes + 1
  /\ torn' = (torn \/ sess[t].wrote)
  /\ UNCHANGED <<config, rows, filing, file, mappings, invoices, overlapped>>

Next ==
  \/ Map
  \/ \E t \in Threads :
       \/ ReadConfig(t) \/ PutConfig(t) \/ RingUp(t) \/ RecordSale(t)
       \/ Sum(t) \/ FindPeriod(t) \/ List(t) \/ WriteFile(t) \/ CommitCompiled(t)
       \/ FindReturn(t) \/ InsertReturn(t) \/ LoadFile(t) \/ StampFile(t) \/ CommitFiled(t)
       \/ FindInvoice(t) \/ DraftInvoice(t) \/ AcceptInvoice(t) \/ Crash(t)

Spec == Init /\ [][Next]_vars

-----------------------------------------------------------------------------
(* Properties. *)

(* The totals and the list of invoices in the file come from two queries of one          *)
(* compilation; sales that commit between them are listed and not counted, but no sale    *)
(* is counted in the return and missing from its list.                                    *)
ListedIfCounted == file # None => file.counted \subseteq file.listed

(* Only a compilation that read the period as something else than COMPILED takes a FILED  *)
(* period back: SQLAlchemy does not send a status it did not change.                      *)
ReopenedByAReader ==
  [][ filing # None /\ filing'.status # filing.status /\ filing.status = "FILED" =>
        \E t \in Threads : /\ sess[t].op = "compile" /\ sess'[t] = Idle
                           /\ sess[t].row.status # "COMPILED" ]_vars

(* One request at a time, and no crash between the file and the row: the file has the     *)
(* figures of the row, lists what it counts, and carries an acknowledgement once FILED.   *)
SerialFilingAgrees ==
  ~overlapped /\ ~torn /\ (\A t \in Threads : sess[t] = Idle) =>
    (filing # None /\ filing.path =>
       /\ file.counted = filing.counted /\ file.listed = file.counted
       /\ filing.status = "FILED" <=> file.acknowledged)

Accepted(s) == Cardinality({n \in DOMAIN invoices[s] : invoices[s][n] = Answer})

(* einvoicing/routes.py "Check if invoice already exists": one request at a time, and no  *)
(* crash between DRAFT and ACCEPTED, a sale is submitted to the authority once.            *)
SerialSubmitsOnce == ~overlapped /\ ~torn => \A s \in Sales : Accepted(s) <= 1
=============================================================================
