----------------------------- MODULE Catalogue -----------------------------
(***************************************************************************)
(* The stock of one product with variants: ProductVariant.stock, and       *)
(* Product.stock, the copy of its sum that listings show.  Checkouts, late *)
(* payments and give-backs (api/src/orders/orders.service.ts) and the form *)
(* of the panel (api/src/products/products.service.ts) change them in      *)
(* Postgres transactions that read what is committed: a row written is     *)
(* locked until the end, a row locked by another is waited for and read    *)
(* again, and of two that wait for one another one is rolled back.         *)
(***************************************************************************)
EXTENDS Integers, Sequences, FiniteSetsExt, SequencesExt

CONSTANTS
    Variants,    \* variants of the product, at the start
    Shelf,       \* [Variants -> Nat], their stock at the start
    Lines,       \* of each order that may be made its variants, one unit of each
    Sessions,    \* requests being handled, each with its connection
    MaxRequests, \* bound: checkouts, late payments, give-backs, saves
    MaxDeaths    \* bound: processes that die

ASSUME SessionsAreNumbers == Sessions \subseteq Nat \ {0}
ASSUME VariantsAreNoWords == {"product", "null"} \cap Variants = {}
ASSUME ShelfIsStocked == Shelf \in [Variants -> Nat]
\* An order of no items is refused.
ASSUME OrdersHaveLines == \A o \in DOMAIN Lines : Lines[o] \in Seq(Variants) \ {<<>>}

VARIABLES
    stock,      \* ProductVariant.stock; Gone if the row is deleted
    shown,      \* Product.stock
    held,       \* orders whose stockReserved is set
    made,       \* orders that exist
    owner,      \* whose lock each row is under
    tx,         \* where each handler is
    form,       \* the panel's form: open or not, the stocks it was opened with
    overwritten,\* history: variants a form wrote an old stock of
    requests, deaths   \* bounds

shelf == <<stock, shown, held, made, overwritten>>
catalogueVars == <<shelf, owner, tx, form, requests, deaths>>

-----------------------------------------------------------------------------
(* Rows, locks and transactions *)

Gone == -1
Null == "null"              \* OrderItem.variantId once the variant is deleted
Product == "product"
Rows == Variants \cup {Product}
NoOne == 0
Value(s, v) == IF s[v] = Gone THEN 0 ELSE s[v]
Sum(s) == MapThenSumSet(LAMBDA v : Value(s, v), Variants)

\* new: what the transaction has written, of each row it wrote; todo: lines left;
\* alone: no other transaction was open since it began.
Nothing == [r \in {} |-> Gone]
NoTx == [at |-> "idle", kind |-> "none", order |-> Null, todo |-> <<>>,
         new |-> Nothing, sum |-> 0, alone |-> TRUE]

NoForm == [open |-> FALSE, stock |-> Shelf]

Open(h) == tx[h].at \in {"line", "sum", "write", "loose", "commit"}
Mine(h, r) == owner[r] = h
Free(h, r) == owner[r] \in {NoOne, h}
Lock(h, r) == owner' = [owner EXCEPT ![r] = h]
Unlock(h) == owner' = [r \in Rows |-> IF Mine(h, r) THEN NoOne ELSE owner[r]]
Committed(r) == IF r = Product THEN shown ELSE stock[r]
View(h, r) == IF r \in DOMAIN tx[h].new THEN tx[h].new[r] ELSE Committed(r)
Overlay(h, r, n) == [x \in DOMAIN tx[h].new \cup {r} |-> IF x = r THEN n ELSE tx[h].new[x]]

\* BEGIN: from now on neither is alone with another that is open.
Begun(h, job) ==
    LET others == {g \in Sessions \ {h} : Open(g)} IN
    tx' = [g \in Sessions |->
             IF g = h THEN [job EXCEPT !.alone = (others = {})]
             ELSE IF g \in others THEN [tx[g] EXCEPT !.alone = FALSE] ELSE tx[g]]

\* The next line, or the end of the lines.
NextLine(job) ==
    IF job.todo = <<>> THEN [job EXCEPT !.at = "commit"]
    ELSE [job EXCEPT !.at = IF Head(job.todo) = Null THEN "loose" ELSE "line"]

Requested(h) ==
    /\ tx[h].at = "idle" /\ \A g \in Sessions : g < h => tx[g].at # "idle"
    /\ requests < MaxRequests /\ requests' = requests + 1 /\ UNCHANGED deaths

-----------------------------------------------------------------------------
(* Requests *)

\* The order's items, whose variant is null once it is deleted.
Items(o) == [i \in DOMAIN Lines[o] |-> IF stock[Lines[o][i]] = Gone THEN Null ELSE Lines[o][i]]

\* create: what is missing or sold out is refused before the transaction.
Checkout(h, o) ==
    /\ o \notin made /\ Requested(h)
    /\ \A i \in DOMAIN Lines[o] : stock[Lines[o][i]] >= 1
    /\ Begun(h, NextLine([NoTx EXCEPT !.kind = "reserve", !.order = o, !.todo = Lines[o]]))
    /\ UNCHANGED <<shelf, owner, form>>

\* tryReviveCancelledOrder: an order that was let go is paid after all.
Revive(h, o) ==
    /\ o \in made \ held /\ Requested(h)
    /\ Begun(h, NextLine([NoTx EXCEPT !.kind = "reserve", !.order = o, !.todo = Items(o)]))
    /\ UNCHANGED <<shelf, owner, form>>

\* Mutant: whoever asks gives back.
MayAlwaysGiveBack(o) == o \in made

\* restockOrderItems: only the one that clears the flag gives back.
MayGiveBack(o) == o \in held

GiveBack(h, o) ==
    /\ MayGiveBack(o) /\ Requested(h)
    /\ held' = held \ {o}
    /\ tx' = [tx EXCEPT ![h] = [NoTx EXCEPT !.at = "items", !.kind = "return", !.order = o]]
    /\ UNCHANGED <<stock, shown, made, overwritten, owner, form>>

ReadItems(h) ==
    /\ tx[h].at = "items"
    /\ Begun(h, NextLine([tx[h] EXCEPT !.todo = Items(tx[h].order)]))
    /\ UNCHANGED <<shelf, owner, form, requests, deaths>>

\* The panel's form keeps the stock of the moment it was opened.
OpenForm ==
    /\ ~form.open /\ form' = [open |-> TRUE, stock |-> stock]
    /\ UNCHANGED <<shelf, owner, tx, requests, deaths>>

\* updateProduct: deletes the variants taken off the form, all at once, then
\* writes the others one by one.
Save(h) ==
    LET listed == {v \in Variants : form.stock[v] # Gone} IN
    \E kept \in SUBSET listed \ {{}} :
      LET gone == listed \ kept IN
      /\ form.open /\ Requested(h)
      /\ \A v \in gone : Free(h, v)
      /\ owner' = [r \in Rows |-> IF r \in gone THEN h ELSE owner[r]]
      /\ Begun(h, [NoTx EXCEPT !.at = "line", !.kind = "save", !.todo = SetToSeq(kept),
                               !.new = [r \in gone |-> Gone]])
      /\ UNCHANGED <<shelf, form>>

-----------------------------------------------------------------------------
(* The statements of a transaction *)

\* UPDATE ... SET stock = stock - 1 WHERE stock >= 1.
Enough(n) == n >= 1

\* What the UPDATE of a line leaves in the row, if it finds it.
Written(h, v) ==
    CASE tx[h].kind = "reserve" -> View(h, v) - 1
      [] tx[h].kind = "return"  -> View(h, v) + 1
      [] tx[h].kind = "save"    -> form.stock[v]

\* After a line of an order comes the sum; the form's comes at the end.
AfterLine(job) ==
    IF job.kind # "save" \/ Tail(job.todo) = <<>> THEN [job EXCEPT !.at = "sum"]
    ELSE NextLine([job EXCEPT !.todo = Tail(@)])

\* An order's line; the row of a variant deleted meanwhile is not found.
Line(h) ==
    LET v == Head(tx[h].todo) IN
    /\ tx[h].at = "line" /\ Free(h, v)
    /\ tx[h].kind = "reserve" => Enough(View(h, v))
    /\ IF View(h, v) = Gone
       THEN tx[h].kind = "return" /\ tx' = [tx EXCEPT ![h] = AfterLine(@)] /\ UNCHANGED owner
       ELSE /\ Lock(h, v)
            /\ tx' = [tx EXCEPT ![h] = AfterLine([@ EXCEPT !.new = Overlay(h, v, Written(h, v))])]
    /\ UNCHANGED <<shelf, form, requests, deaths>>

\* syncProductStockFromVariants: the sum of what is committed and its own ...
ReadSum(h) ==
    /\ tx[h].at = "sum"
    /\ tx' = [tx EXCEPT ![h] = [@ EXCEPT !.at = "write", !.sum = Sum([v \in Variants |-> View(h, v)])]]
    /\ UNCHANGED <<shelf, owner, form, requests, deaths>>

\* Mutant: a give-back forgets the copy.
SyncsAfterSales(kind) == kind # "return"

\* Every path, sale or give-back, writes the sum it has read to the product.
SyncsAfter(kind) == TRUE

WriteSum(h) ==
    /\ tx[h].at = "write" /\ Free(h, Product) /\ Lock(h, Product)
    /\ LET job == [tx[h] EXCEPT !.todo = IF @ = <<>> THEN @ ELSE Tail(@)]
           put == IF SyncsAfter(job.kind) THEN Overlay(h, Product, job.sum) ELSE job.new IN
       tx' = [tx EXCEPT ![h] = NextLine([job EXCEPT !.new = put])]
    /\ UNCHANGED <<shelf, form, requests, deaths>>

\* A line without its variant changes the product's own counter.
LooseLine(h) ==
    LET n == View(h, Product) IN
    /\ tx[h].at = "loose" /\ Free(h, Product) /\ Lock(h, Product)
    /\ tx[h].kind = "reserve" => Enough(n)
    /\ tx' = [tx EXCEPT ![h] = NextLine([tx[h] EXCEPT
                !.todo = Tail(tx[h].todo), !.alone = FALSE,
                !.new = Overlay(h, Product, IF tx[h].kind = "return" THEN n + 1 ELSE n - 1)])]
    /\ UNCHANGED <<shelf, form, requests, deaths>>

Commit(h) ==
    /\ tx[h].at = "commit"
    /\ stock' = [v \in Variants |-> View(h, v)] /\ shown' = View(h, Product)
    /\ IF tx[h].kind = "reserve"
       THEN made' = made \cup {tx[h].order} /\ held' = held \cup {tx[h].order}
       ELSE UNCHANGED <<made, held>>
    /\ IF tx[h].kind = "save"
       THEN /\ overwritten' = overwritten \cup {v \in Variants : View(h, v) # stock[v]}
            /\ form' = NoForm
       ELSE UNCHANGED <<overwritten, form>>
    /\ Unlock(h) /\ tx' = [tx EXCEPT ![h] = NoTx]
    /\ UNCHANGED <<requests, deaths>>

Rollback(h) ==
    /\ Unlock(h) /\ tx' = [tx EXCEPT ![h] = NoTx]
    /\ UNCHANGED <<shelf, form, requests>>

\* Sold out meanwhile, or a row the form or the order needs is gone.
Throws(h) ==
    /\ \/ /\ tx[h].at = "line" /\ Free(h, Head(tx[h].todo))
          /\ LET n == View(h, Head(tx[h].todo)) IN
             \/ tx[h].kind = "reserve" /\ ~Enough(n)
             \/ tx[h].kind # "return" /\ n = Gone
       \/ /\ tx[h].at = "loose" /\ Free(h, Product) /\ tx[h].kind = "reserve"
          /\ ~Enough(View(h, Product))
    /\ Rollback(h) /\ UNCHANGED deaths

Wants(h) ==
    CASE tx[h].at = "line" -> {Head(tx[h].todo)}
      [] tx[h].at \in {"write", "loose"} -> {Product}
      [] OTHER -> {}

\* Two that wait for one another: Postgres rolls one of them back.
Deadlocked(h) ==
    /\ \E g \in Sessions \ {h} : /\ \E r \in Wants(h) : Mine(g, r)
                                 /\ \E r \in Wants(g) : Mine(h, r)
    /\ Rollback(h) /\ UNCHANGED deaths

Dies(h) ==
    /\ tx[h].at # "idle" /\ deaths < MaxDeaths /\ deaths' = deaths + 1
    /\ Rollback(h)

-----------------------------------------------------------------------------
CatalogueInit ==
    /\ stock = Shelf /\ shown = Sum(Shelf)
    /\ held = {} /\ made = {}
    /\ owner = [r \in Rows |-> NoOne]
    /\ tx = [h \in Sessions |-> NoTx]
    /\ form = NoForm /\ overwritten = {}
    /\ requests = 0 /\ deaths = 0

Statement(h) ==
    \/ ReadItems(h) \/ Line(h) \/ ReadSum(h) \/ WriteSum(h) \/ LooseLine(h)
    \/ Commit(h) \/ Throws(h) \/ Deadlocked(h) \/ Dies(h)

CatalogueNext ==
    \/ \E h \in Sessions, o \in DOMAIN Lines : Checkout(h, o) \/ Revive(h, o) \/ GiveBack(h, o)
    \/ OpenForm \/ \E h \in Sessions : Save(h)
    \/ \E h \in Sessions : Statement(h)

CatalogueSpec == CatalogueInit /\ [][CatalogueNext]_catalogueVars

-----------------------------------------------------------------------------
(* Properties *)

HeldOf(v) == Cardinality({x \in UNION {{<<o, i>> : i \in DOMAIN Lines[o]} : o \in held} :
                            Lines[x[1]][x[2]] = v})

\* Units on the shelf and units that orders hold are never more than there
\* were, and never fewer than none on the shelf, whatever checkouts, late
\* payments, give-backs, deadlocks and crashes overlap; a variant whose stock a
\* form wrote over with an old one, or deleted, is excepted.
UnitsNotInvented ==
    \A v \in Variants \ overwritten :
      stock[v] # Gone => stock[v] >= 0 /\ stock[v] + HeldOf(v) <= Shelf[v]

\* A transaction with no other open beside it leaves the product showing the
\* sum of its variants, whatever overlapping ones left there before.
SumHeals ==
    [][\A h \in Sessions : Commit(h) /\ tx[h].alone => shown' = Sum(stock')]_catalogueVars
=============================================================================
