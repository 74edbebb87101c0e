---------------------------- MODULE MCMarketTrial ----------------------------
(* Model values and definitions for the runs of MarketTrial. *)
EXTENDS MarketTrial

CONSTANTS u1, u2  \* u1 is in the discount's crowd, u2 in the activity's

MCBucket == u1 :> 4 @@ u2 :> 40
MCDiscountCrowd == {u1}
MCActivityCrowd == {u2}

Discounted(type, plan, expr) == [type |-> type, plan |-> plan, expr |-> expr]
Sold(tagged, scope, discount, price) ==
  [linked |-> TRUE, on |-> TRUE, tagged |-> tagged, scope |-> scope,
   discount |-> discount, price |-> price]

\* Prices in cents, parts of an expression in hundredths.
MCCatalogs ==
  LET open == Sold(FALSE, <<>>, Discounted("base", "ZJ", <<2000>>), 1000)
      seen == Sold(TRUE, <<"1">>, Discounted("tag", "MJ", <<10000, 1000>>), 10000)
  IN  {open,
       [open EXCEPT !.on = FALSE],
       [open EXCEPT !.discount = Nil],
       [open EXCEPT !.discount.plan = "XX"],
       [open EXCEPT !.price = Nil],
       [seen EXCEPT !.linked = FALSE],
       Sold(TRUE, <<"1", "2">>, Discounted("tag", "ZK", <<80>>), 120),
       Sold(TRUE, <<"2">>, Discounted("base", "N", <<990>>), 10000)}

\* Empty, and a number with a sign in front that an int of 16 bits takes for 4.
MCCuts == {<<>>, <<-1, 6, 5, 5, 4, 0>>}
=============================================================================
