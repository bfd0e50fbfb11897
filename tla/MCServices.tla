----------------------------- MODULE MCServices -----------------------------
(***************************************************************************)
(* Six services that share no variable, checked by one run: each           *)
(* behaviour exercises the one that "service" names, while the others stay *)
(* as they are at the start.  All are extended, with their properties, so  *)
(* that what is checked here is what is proved of them.                    *)
(***************************************************************************)
EXTENDS FiscalNotes, MpConnection, Storefront, Notices, Catalogue, Prices, TLC

CONSTANTS v1, v2, o1, o2

VARIABLES service

vars == <<service, fiscalVars, catalogueVars, noticeVars, storefrontVars, connectionVars, priceVars>>

\* Two orders that take the same two variants in opposite order.
TwoShelves == v1 :> 2 @@ v2 :> 1
TwoOrders == o1 :> <<v1, v2>> @@ o2 :> <<v2, v1>>

\* Products 1 and 2 both go with 3, which the bag may have at two prices; 2 goes
\* with 1 as well.  The coupons are for bags in which all three discounts occur.
BagLine(product, price, quantity) == [product |-> product, price |-> price, quantity |-> quantity]
FourLines == {BagLine(1, 40, 1), BagLine(2, 20, 1), BagLine(3, 19, 1), BagLine(3, 10, 2)}
TwoRules == 1 :> [pct |-> 10, with |-> {3}] @@ 2 :> [pct |-> 30, with |-> {1, 3}]
TwoCoupons == {[kind |-> "percent", value |-> 50, min |-> 70], [kind |-> "fixed", value |-> 200, min |-> 80]}

-----------------------------------------------------------------------------
Init ==
    /\ service \in {"notes", "variants", "notices", "storefront", "connection", "prices"}
    /\ FiscalInit /\ CatalogueInit /\ NoticesInit
    /\ StorefrontInit /\ ConnectionInit /\ PricesInit
    /\ mode = "pro" => service = "storefront"
    /\ percent = 0 => service = "prices"

Next ==
    \/ /\ service = "notes" /\ FiscalNext
       /\ UNCHANGED <<service, catalogueVars, noticeVars, storefrontVars, connectionVars, priceVars>>
    \/ /\ service = "variants" /\ CatalogueNext
       /\ UNCHANGED <<service, fiscalVars, noticeVars, storefrontVars, connectionVars, priceVars>>
    \/ /\ service = "notices" /\ NoticesNext
       /\ UNCHANGED <<service, fiscalVars, catalogueVars, storefrontVars, connectionVars, priceVars>>
    \/ /\ service = "storefront" /\ StorefrontNext
       /\ UNCHANGED <<service, fiscalVars, catalogueVars, noticeVars, connectionVars, priceVars>>
    \/ /\ service = "connection" /\ ConnectionNext
       /\ UNCHANGED <<service, fiscalVars, catalogueVars, noticeVars, storefrontVars, priceVars>>
    \/ /\ service = "prices" /\ PricesNext
       /\ UNCHANGED <<service, fiscalVars, catalogueVars, noticeVars, storefrontVars, connectionVars>>

Spec == Init /\ [][Next]_vars
=============================================================================
