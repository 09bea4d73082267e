---------------------------- MODULE InvoiceTotals ----------------------------
(***************************************************************************)
(* How an invoice is priced: _calculate_invoice_totals of api/financial.py *)
(* on a payload, and what the columns keep of its result.                  *)
(*                                                                         *)
(* Money is in cents: the columns are Numeric(14,2) and PostgreSQL rounds  *)
(* what it stores, half away from zero.  Percentages and tax rates are     *)
(* whole percents, so an exact amount is a whole number of 1/10000 cent.   *)
(* The schema puts no bound on any of them: they may be negative.          *)
(***************************************************************************)
EXTENDS Integers

DefaultRate == 14
Exact == 10000         \* exact amounts are counted in 1/Exact cent

DiscountTypes == {"none", "percentage", "fixed"}

Largest(a, b) == IF a >= b THEN a ELSE b

(* The subtotal after the discount, exactly; never below zero.             *)
Unclamped(p) ==
  CASE p.discount_type = "percentage" -> p.subtotal * (100 - p.discount_value) * 100
    [] p.discount_type = "fixed"      -> (p.subtotal - p.discount_value) * Exact
    [] OTHER                          -> p.subtotal * Exact
Discounted(p) == Largest(Unclamped(p), 0)

(* payload.get("tax_rate") or "0.14": a rate of zero is falsy.             *)
EffectiveRate(p) == IF p.tax_rate = 0 THEN DefaultRate ELSE p.tax_rate

TaxAmount(p) ==
  IF p.tax_enabled THEN (Discounted(p) \div 100) * EffectiveRate(p) ELSE 0

(* What Numeric(14,2) keeps of an exact amount.                            *)
Stored(x) ==
  IF x >= 0 THEN (x + Exact \div 2) \div Exact
            ELSE -((-x + Exact \div 2) \div Exact)

\* Mutant: the total of the list price.
AmountsAtList(p) ==
  [subtotal |-> Discounted(p), tax_amount |-> TaxAmount(p),
   total |-> p.subtotal * Exact + TaxAmount(p)]
(* The exact amounts returned: the subtotal is the discounted one.         *)
Amounts(p) ==
  [subtotal |-> Discounted(p), tax_amount |-> TaxAmount(p),
   total |-> Discounted(p) + TaxAmount(p)]

Apart(a, b) == Largest(a - b, b - a)
=============================================================================
