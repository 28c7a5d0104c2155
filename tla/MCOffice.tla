------------------------------ MODULE MCOffice ------------------------------
(***************************************************************************)
(* Six services of the back office on two threads: GST filing, staff       *)
(* sessions, chains, the count of API calls, signing in and tax figures.   *)
(* They share no state, so a behaviour drives one of them; and as nothing  *)
(* reads the HSN mappings of GST filing, they are a part of their own.     *)
(***************************************************************************)
EXTENDS StaffSessions, TLC

CONSTANTS t1, t2, s1, s2,
          Sales, Configs, Categories, Codes, MaxInvoices, MaxCrashes,
          Owners, Stores, Groups, MaxTransfers,
          MaxCalls,
          MaxCodes, MaxTokens, MaxFaults,
          Amounts, Rates, Local, MaxLines

VARIABLES part,
          config, rows, filing, inserting, file, mappings, invoices, sess, crashes, overlapped, torn,
          owner, members, transfers, token, chainReq, strays, strayMembers,
          hash, records, job, calls, gone, twice, stale,
          user, adding, code, inbox, refreshTokens, signing, made, faults, spent, starts, extra,
          lost, crowded,
          method, count, due, taxable, shares, byLine

gstVars == <<config, rows, filing, inserting, file, mappings, invoices, sess, crashes, overlapped,
             torn>>
chainVars == <<owner, members, transfers, token, chainReq, strays, strayMembers>>
usageVars == <<hash, records, job, calls, gone, twice, stale>>
signVars == <<user, adding, code, inbox, refreshTokens, signing, made, faults, spent, starts,
              extra, lost, crowded>>
taxVars == <<method, count, due, taxable, shares, byLine>>

Gst == INSTANCE GstFiling
Chains == INSTANCE Chain
Usage == INSTANCE UsageSync WITH Workers <- Threads
Signing == INSTANCE SignIn WITH inserting <- adding, tokens <- refreshTokens, session <- signing
Tax == INSTANCE TaxFigures

MCInit ==
  /\ part \in {"gst", "codes", "staff", "chain", "usage", "sign", "tax"}
  /\ Init /\ Gst!Init /\ Chains!Init /\ Usage!Init /\ Signing!Init
  /\ IF part = "tax" THEN Tax!Init ELSE Tax!Init /\ method = "sale"

MCNext ==
  /\ UNCHANGED part
  /\ \/ part = "gst" /\ Gst!Next /\ mappings' = mappings
        /\ UNCHANGED <<vars, chainVars, usageVars, signVars, taxVars>>
     \/ part = "codes" /\ Gst!Map
        /\ UNCHANGED <<vars, chainVars, usageVars, signVars, taxVars>>
     \/ part = "staff" /\ Next
        /\ UNCHANGED <<gstVars, chainVars, usageVars, signVars, taxVars>>
     \/ part = "chain" /\ Chains!Next
        /\ UNCHANGED <<vars, gstVars, usageVars, signVars, taxVars>>
     \/ part = "usage" /\ Usage!Next
        /\ UNCHANGED <<vars, gstVars, chainVars, signVars, taxVars>>
     \/ part = "sign" /\ Signing!Next
        /\ UNCHANGED <<vars, gstVars, chainVars, usageVars, taxVars>>
     \/ part = "tax" /\ Tax!Next
        /\ UNCHANGED <<vars, gstVars, chainVars, usageVars, signVars>>

MCSpec == MCInit /\ [][MCNext]_<<part, vars, gstVars, chainVars, usageVars, signVars, taxVars>>

MCSymmetry == Permutations(Threads) \cup Permutations(Sales)

(* The properties of the parts, by names a configuration can use.                         *)
(* All six type invariants hold.                                                          *)
OfficeTypeOK == TypeOK /\ Gst!TypeOK /\ Chains!TypeOK /\ Usage!TypeOK
                /\ Signing!TypeOK /\ Tax!TypeOK

(* No sale is counted in a return and missing from its list.                              *)
ListedIfCounted == Gst!ListedIfCounted

(* A filed return is reopened only by one that read it.                                   *)
ReopenedByAReader == Gst!ReopenedByAReader

(* One session at a time and no crash in between, row and file of a return agree.         *)
SerialFilingAgrees == Gst!SerialFilingAgrees

(* One session at a time and no crash in between, a sale is submitted once.               *)
SerialSubmitsOnce == Gst!SerialSubmitsOnce

(* A second group of an owner or chain of a store comes from an insert nobody could see.  *)
ChainsExplained == Chains!ChainsExplained

(* Every API call is counted, or lost in a way the history names.                         *)
CallsExplained == Usage!CallsExplained

(* One request at a time and nothing failing, the newest code works, for an account.      *)
SerialCodesWork == Signing!SerialCodesWork

(* A second refresh token of one sign-in comes from a refresh that raced or failed.        *)
SessionsExplained == Signing!SessionsExplained

(* The rounded figures of a basket agree.                                                 *)
FiguresAgree == Tax!FiguresAgree
=============================================================================
