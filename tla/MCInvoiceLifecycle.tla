------------------------- MODULE MCInvoiceLifecycle -------------------------
(* A price that rounds, an edit that discounts it, one that sets a price   *)
(* and a due date gone by, one that sends, postpones and taxes less.       *)
EXTENDS InvoiceLifecycle, TLC

Creation(v, type, d, rate) ==
  [subtotal |-> v, discount_type |-> type, discount_value |-> d, tax_enabled |-> TRUE,
   tax_rate |-> rate, status |-> "draft"]

MCCreations == {Creation(105, "none", 33, 0)}
MCUpdates ==
  {"discount_type" :> "percentage", "subtotal" :> 99 @@ "due" :> "past",
   "tax_rate" :> 7 @@ "due" :> "future" @@ "status" :> "sent"}
=============================================================================
