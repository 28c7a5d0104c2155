----------------------------- MODULE TaxFigures -----------------------------
(***************************************************************************)
(* The tax of a basket, line by line: the GST row of a sale and the        *)
(* calculators of app/tax_engine.                                          *)
(*                                                                         *)
(* Sums are kept exactly and rounded once, half to even, to a paisa; the   *)
(* breakdown by HSN code of a sale adds what each line rounds to.  Amounts *)
(* are counted in paise, and exact figures in 1 / Scale of a paisa.        *)
(***************************************************************************)
EXTENDS Integers, FiniteSetsExt, Folds

CONSTANTS
  Amounts,   \* line totals
  Rates,     \* tax rates, in percent
  Local,     \* the part of a US rate that is not the state's
  MaxLines   \* bound

VARIABLES
  method,    \* "sale", "IN", "US" or "VAT"
  count,     \* lines that bear tax so far
  due,       \* the sum of their totals
  taxable,   \* exact
  shares,    \* exact: the taxes the basket bears (CGST and SGST, state and local, VAT)
  byLine     \* hsn_breakdown, summed over the codes: each line rounded to paise
vars == <<method, count, due, taxable, shares, byLine>>

Scale == 200 * MapThenFoldSet(LAMBDA x, y : x * y, 1, LAMBDA r : 100 + r,
                              LAMBDA S : CHOOSE r \in S : TRUE, Rates)

RoundHalfEven(n) ==
  LET whole == n \div Scale
      rest == 2 * (n % Scale)
  IN  IF rest < Scale \/ (rest = Scale /\ whole % 2 = 0) THEN whole ELSE whole + 1

TypeOK ==
  /\ method \in {"sale", "IN", "US", "VAT"}
  /\ count \in 0 .. MaxLines /\ due \in Nat /\ taxable \in Nat
  /\ shares \in [1 .. 2 -> Nat] /\ byLine \in [taxable : Nat, share : Nat]

NoShares == [i \in 1 .. 2 |-> 0]
NoLines == [taxable |-> 0, share |-> 0]

Init ==
  /\ method \in {"sale", "IN", "US", "VAT"}
  /\ count = 0 /\ due = 0 /\ taxable = 0 /\ shares = NoShares /\ byLine = NoLines

\* A price includes the tax, but for US where the tax comes on top.
Taxable(amount, rate) ==
  IF method = "US" THEN amount * Scale ELSE 100 * amount * (Scale \div (100 + rate))

Shares(amount, rate) ==
  LET tax == amount * Scale - Taxable(amount, rate)
  IN  CASE method \in {"sale", "IN"} -> [i \in 1 .. 2 |-> tax \div 2]
        [] method = "US" -> <<amount * rate * (Scale \div 100), amount * Local * (Scale \div 100)>>
        [] method = "VAT" -> <<tax, 0>>

Take(amount, net, parts) ==
  /\ count' = count + 1 /\ due' = due + amount
  /\ taxable' = taxable + net
  /\ shares' = [i \in 1 .. 2 |-> shares[i] + parts[i]]
  /\ byLine' = [taxable |-> byLine.taxable + RoundHalfEven(net),
                share |-> byLine.share + RoundHalfEven(parts[1])]
  /\ UNCHANGED method

TakeLine_Rounded(amount, rate) ==
  LET paise(n) == Scale * RoundHalfEven(n)
  IN  Take(amount, paise(Taxable(amount, rate)),
           [i \in 1 .. 2 |-> paise(Shares(amount, rate)[i])])

TakeLine(amount, rate) == Take(amount, Taxable(amount, rate), Shares(amount, rate))

\* A sale leaves out the lines without a rate, the calculators take the standard rate then;
\* exempt products are left out too.  US and VAT have one rate a store, any one here.
AddLine ==
  /\ count < MaxLines
  /\ \E amount \in Amounts, rate \in Rates : TakeLine(amount, rate)

\* The figures are rounded and returned or recorded, and the next basket comes.
NextBasket ==
  /\ count > 0
  /\ method' \in {"sale", "IN", "US", "VAT"}
  /\ count' = 0 /\ due' = 0 /\ taxable' = 0 /\ shares' = NoShares /\ byLine' = NoLines

Next == AddLine \/ NextBasket

Spec == Init /\ [][Next]_vars

-----------------------------------------------------------------------------
(* Properties. *)

Tax == RoundHalfEven(shares[1] + shares[2])
Near(a, b, paise) == a - b \in -paise .. paise

(* What is recorded adds up although each figure is rounded for itself: net and tax come   *)
(* within a paisa of the price, the taxes within a paisa of their total, and the lines of  *)
(* the breakdown within half a paisa each of the figures of the row.                       *)
FiguresAgree ==
  /\ method # "US" => Near(RoundHalfEven(taxable) + Tax, due, 1)
  /\ Near(RoundHalfEven(shares[1]) + RoundHalfEven(shares[2]), Tax, 1)
  /\ method = "sale" => /\ Near(2 * byLine.taxable, 2 * RoundHalfEven(taxable), count + 1)
                        /\ Near(2 * byLine.share, 2 * RoundHalfEven(shares[1]), count + 1)
=============================================================================
