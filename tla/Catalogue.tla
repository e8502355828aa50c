----------------------------- MODULE Catalogue -----------------------------
(***************************************************************************)
(* Products, their articles and barcodes: creation, deletion, visibility   *)
(* and the move of a product from pieces to grams.                         *)
(*                                                                         *)
(* Every write is one transaction under one lock, so each is one step.  A  *)
(* phone that has looked a barcode up decides later, out of any            *)
(* transaction: `scan` is what it has read.                                *)
(*                                                                         *)
(* `use` stands for the eight tables that name a product (lists, meals,    *)
(* recipes, equipment...), which all ask the same two questions: is a row  *)
(* open, is there a row.  A batch holds the price of one base unit; the    *)
(* initial quantity, nutrition, the price table and the minimum quantity   *)
(* are restated with it by the same factors.                               *)
(***************************************************************************)
EXTENDS House, SequencesExt

CONSTANTS
    Names, Codes,       \* product names, barcodes
    MaxProducts,        \* bound: rows of table product at once
    MaxArticles,        \* bound: rows of table article at once
    MaxBatches,         \* bound: batches ever entered
    MaxMovements,       \* bound: rows of the journal
    Amounts,            \* quantities a hand types
    Nets,               \* net quantities Open Food Facts gives, Null for none
    Reference,          \* the weight of one piece a hand confirms
    Price               \* what a base unit costs on entry

CatalogueConstants ==
    /\ {MaxProducts, MaxArticles, MaxBatches, MaxMovements} \subseteq Nat
    /\ Amounts \subseteq Nat \ {0}
    /\ Nets \subseteq (Nat \ {0}) \cup {Null} /\ Null \in Nets
    /\ Reference \in Nat \ {0} /\ Price \in Nat
    /\ \A f \in (Nets \ {Null}) \cup {Reference} : Price % f = 0

VARIABLES
    product, article,   \* tables: id -> row, or Null
    barcode,            \* code -> article id, or Null
    extras,             \* rows of packaging and ingredient_alias
    batch, journal,     \* tables whose rows are never deleted
    scan                \* what a phone holds between lookup and article/create

catalogueVars == <<product, article, barcode, extras, batch, journal, scan>>

ProductIds == 1..MaxProducts
ArticleIds == 1..MaxArticles
Units      == {"piece", "g"}

\* line: the lines that name the article; "piece" and "g" are a pending one of
\* a session not 'done', in the unit its quantity was typed in.
Product  == [name : Names, unit : Units, active : BOOLEAN, use : {"none", "open", "past"}]
Article  == [product : ProductIds, active : BOOLEAN, net : Nets,
             line : Units \cup {"none", "past"}]
Batch    == [article : ArticleIds, remaining : Nat, price : Nat, open : BOOLEAN]
Movement == [batch : Nat, quantity : Int, unit : Units,
             reason : {"in", "out", "conversion"}, corrects : Nat \cup {Null}]
Extra    == [kind : {"alias", "product_packaging", "article_packaging"}, target : Nat]
Scan     == [code : Codes, product : ProductIds, name : Names]

CatalogueTypeOK ==
    /\ product \in [ProductIds -> Product \cup {Null}]
    /\ article \in [ArticleIds -> Article \cup {Null}]
    /\ barcode \in [Codes -> ArticleIds \cup {Null}]
    /\ extras \subseteq Extra
    /\ batch \in Seq(Batch) /\ journal \in Seq(Movement)
    /\ scan \in Scan \cup {Null}

CatalogueInit ==
    /\ product = [p \in ProductIds |-> Null]
    /\ article = [a \in ArticleIds |-> Null]
    /\ barcode = [c \in Codes |-> Null]
    /\ extras = {} /\ batch = <<>> /\ journal = <<>>
    /\ scan = Null

(***************************************************************************)
(* Reads                                                                   *)
(***************************************************************************)
ArticlesOf(p)  == {a \in Rows(article) : article[a].product = p}
BatchesOf(a)   == {b \in DOMAIN batch : batch[b].article = a}
OpenBatches(p) == {b \in DOMAIN batch : batch[b].open /\ batch[b].article \in ArticlesOf(p)}
Pending(a)     == article[a].line \in Units
UnitOf(b)      == product[article[batch[b].article].product].unit

ArticleBlocked(a) == Pending(a) \/ \E b \in BatchesOf(a) : batch[b].open
ProductBlocked(p) == product[p].use = "open" \/ \E a \in ArticlesOf(p) : ArticleBlocked(a)

OpenHistory(a) ==   \* mutant: a closed batch is no history
    article[a].line # "none" \/ \E b \in BatchesOf(a) : batch[b].open

\* A batch always has a movement: one question for both tables.
ArticleHasHistory(a) == article[a].line # "none" \/ BatchesOf(a) # {}
ProductHasHistory(p) ==
    product[p].use # "none" \/ \E a \in ArticlesOf(p) : ArticleHasHistory(a)

(***************************************************************************)
(* Creation                                                                *)
(***************************************************************************)
NewArticle(p, net) == [product |-> p, active |-> TRUE, net |-> net, line |-> "none"]

\* The service.  A name in use, by a hidden product too, or a known barcode
\* refuses; a barcode brings a first article with it.
CreateProduct(name, unit, code) ==
    LET p == NextId(product)
        a == NextId(article)
    IN  /\ p \in ProductIds
        /\ \A q \in Rows(product) : product[q].name # name
        /\ product' = [product EXCEPT ![p] =
                         [name |-> name, unit |-> unit, active |-> TRUE, use |-> "none"]]
        /\ IF code = Null THEN UNCHANGED <<article, barcode>>
           ELSE /\ barcode[code] = Null /\ a \in ArticleIds
                /\ article' = [article EXCEPT ![a] = NewArticle(p, Null)]
                /\ barcode' = [barcode EXCEPT ![code] = a]
        /\ UNCHANGED <<extras, batch, journal, scan>>

\* lookup of an unknown barcode offers the visible products and writes nothing.
Lookup(code, p) ==
    /\ scan = Null /\ barcode[code] = Null
    /\ p \in Rows(product) /\ product[p].active
    /\ scan' = [code |-> code, product |-> p, name |-> product[p].name]
    /\ UNCHANGED <<product, article, barcode, extras, batch, journal>>

\* article/create, later.  A barcode linked in between answers the article it
\* leads to and a product that is gone refuses: both leave the tables alone.
ArticleCreate(net) ==
    /\ scan # Null
    /\ scan' = Null
    /\ IF barcode[scan.code] # Null \/ product[scan.product] = Null
       THEN UNCHANGED <<article, barcode>>
       ELSE /\ NextId(article) \in ArticleIds
            /\ article' = [article EXCEPT ![NextId(article)] = NewArticle(scan.product, net)]
            /\ barcode' = [barcode EXCEPT ![scan.code] = NextId(article)]
    /\ UNCHANGED <<product, extras, batch, journal>>

\* What only describes a product: an alias learned from a recipe line, a
\* packaging from the import.
Describe(p, kind) ==
    /\ p \in Rows(product)
    /\ extras' = extras \cup {[kind |-> kind, target |-> p]}
    /\ UNCHANGED <<product, article, barcode, batch, journal, scan>>

(***************************************************************************)
(* Use: what other parts of the program write on products and articles     *)
(***************************************************************************)
SetUse(p, use) ==
    /\ p \in Rows(product) /\ product[p].use # use
    /\ product' = [product EXCEPT ![p].use = use]
    /\ UNCHANGED <<article, barcode, extras, batch, journal, scan>>

\* A line is scanned; later it is removed, put away, or its session closed.
ScanLine(a) ==
    /\ a \in Rows(article) /\ ~Pending(a)
    /\ article' = [article EXCEPT ![a].line = product[article[a].product].unit]
    /\ UNCHANGED <<product, barcode, extras, batch, journal, scan>>

EndLine(a, line) ==
    /\ a \in Rows(article) /\ Pending(a) /\ line \notin Units
    /\ article' = [article EXCEPT ![a].line = line]
    /\ UNCHANGED <<product, barcode, extras, batch, journal, scan>>

Move(b, q, unit, reason) ==
    [batch |-> b, quantity |-> q, unit |-> unit, reason |-> reason, corrects |-> Null]

Write(rows) ==
    /\ Len(journal) + Len(rows) <= MaxMovements
    /\ journal' = journal \o rows

\* add_stock does not ask whether the article is hidden.
AddStock(a, q) ==
    /\ a \in Rows(article) /\ Len(batch) < MaxBatches
    /\ batch' = Append(batch, [article |-> a, remaining |-> q, price |-> Price, open |-> TRUE])
    /\ Write(<<Move(Len(batch) + 1, q, product[article[a].product].unit, "in")>>)
    /\ UNCHANGED <<product, article, barcode, extras, scan>>

\* The batch takes the number, closed before or not.
SetRemaining(b, q) == batch' = [batch EXCEPT ![b].remaining = q, ![b].open = (q > 0)]

Consume(b, q) ==
    /\ b \in DOMAIN batch /\ batch[b].open /\ q <= batch[b].remaining
    /\ SetRemaining(b, batch[b].remaining - q)
    /\ Write(<<Move(b, -q, UnitOf(b), "out")>>)
    /\ UNCHANGED <<product, article, barcode, extras, scan>>

Correctable(i) ==
    /\ i \in DOMAIN journal
    /\ journal[i].reason # "conversion" /\ journal[i].corrects = Null
    /\ \A c \in DOMAIN journal : journal[c].corrects # i
    /\ batch[journal[i].batch].remaining >= journal[i].quantity

\* correct_movement: the mirror row keeps the unit of the row it mirrors, and
\* the batch takes its number whatever unit it counts in now.
CorrectMovement(i) ==
    /\ Correctable(i)
    /\ SetRemaining(journal[i].batch, batch[journal[i].batch].remaining - journal[i].quantity)
    /\ Write(<<[journal[i] EXCEPT !.quantity = -@, !.corrects = i]>>)
    /\ UNCHANGED <<product, article, barcode, extras, scan>>

(***************************************************************************)
(* From pieces to grams                                                    *)
(***************************************************************************)
Factor(a) == IF article[a].net # Null THEN article[a].net ELSE Reference

PlannedIgnoringLines(p, kept) ==   \* mutant: a pending line does not refuse
    p \in Rows(product) /\ product[p].unit = "piece" /\ kept \subseteq OpenBatches(p)

\* prepare_conversion: a product counted in pieces, kept batches that are its
\* open ones, and no line waiting to be put away.
Planned(p, kept) ==
    /\ p \in Rows(product) /\ product[p].unit = "piece"
    /\ kept \subseteq OpenBatches(p)
    /\ \A a \in ArticlesOf(p) : ~Pending(a)

RestatedAtPrice(row, kept) ==   \* mutant: the price stays per piece
    IF kept THEN row ELSE [row EXCEPT !.remaining = @ * Factor(row.article)]

\* A kept batch was typed in grams already: neither number moves.
Restated(row, kept) ==
    IF kept THEN row
    ELSE [row EXCEPT !.remaining = @ * Factor(row.article),
                     !.price = @ \div Factor(row.article)]

\* Two rows for each batch: out in pieces, in in grams.
ConversionRows(open, kept) ==
    LET order == SetToSeq(open)
    IN  [k \in 1..2 * Cardinality(open) |->
           LET b == order[(k + 1) \div 2]
           IN  IF k % 2 = 1
               THEN Move(b, -batch[b].remaining, "piece", "conversion")
               ELSE Move(b, Restated(batch[b], b \in kept).remaining, "g", "conversion")]

\* execute_conversion: open batches only; closed ones keep their numbers.
ConvertUnit(p, kept) ==
    LET open == OpenBatches(p)
    IN  /\ Planned(p, kept)
        /\ product' = [product EXCEPT ![p].unit = "g"]
        /\ batch' = [b \in DOMAIN batch |->
                       IF b \in open THEN Restated(batch[b], b \in kept) ELSE batch[b]]
        /\ Write(ConversionRows(open, kept))
        /\ extras' = extras \cup [kind : {"article_packaging"}, target : ArticlesOf(p)]
        /\ UNCHANGED <<article, barcode, scan>>

(***************************************************************************)
(* Erase, hide, restore                                                    *)
(***************************************************************************)
Without(table, ids) == [id \in DOMAIN table |-> IF id \in ids THEN Null ELSE table[id]]

EraseArticlesKeepingCodes(ids) ==   \* mutant: the barcodes stay
    article' = Without(article, ids) /\ UNCHANGED barcode

EraseArticles(ids) ==
    /\ article' = Without(article, ids)
    /\ barcode' = [c \in Codes |-> IF barcode[c] \in ids THEN Null ELSE barcode[c]]

ArticleExtras(ids) == [kind : {"article_packaging"}, target : ids]
ProductExtras(p)   == [kind : {"alias", "product_packaging"}, target : {p}]

EraseProduct(p) ==
    /\ product' = Without(product, {p})
    /\ EraseArticles(ArticlesOf(p))
    /\ extras' = extras \ (ProductExtras(p) \cup ArticleExtras(ArticlesOf(p)))

\* A hidden product answers "hidden" and an open use refuses: no step.
DeleteProduct(p) ==
    /\ p \in Rows(product) /\ product[p].active /\ ~ProductBlocked(p)
    /\ \/ ~ProductHasHistory(p) /\ EraseProduct(p)
       \/ /\ ProductHasHistory(p)
          /\ product' = [product EXCEPT ![p].active = FALSE]
          /\ UNCHANGED <<article, barcode, extras>>
    /\ UNCHANGED <<batch, journal, scan>>

DeleteArticle(a) ==
    /\ a \in Rows(article) /\ article[a].active /\ ~ArticleBlocked(a)
    /\ \/ /\ ~ArticleHasHistory(a)
          /\ EraseArticles({a})
          /\ extras' = extras \ ArticleExtras({a})
       \/ /\ ArticleHasHistory(a)
          /\ article' = [article EXCEPT ![a].active = FALSE]
          /\ UNCHANGED <<barcode, extras>>
    /\ UNCHANGED <<product, batch, journal, scan>>

\* article/update: restoring an article restores its product.
SetArticleActive(a, active) ==
    /\ a \in Rows(article)
    /\ article' = [article EXCEPT ![a].active = active]
    /\ product' = IF active THEN [product EXCEPT ![article[a].product].active = TRUE] ELSE product
    /\ UNCHANGED <<barcode, extras, batch, journal, scan>>

\* product/update writes the column, whatever is open.
SetProductActive(p, active) ==
    /\ p \in Rows(product)
    /\ product' = [product EXCEPT ![p].active = active]
    /\ UNCHANGED <<article, barcode, extras, batch, journal, scan>>

CatalogueNext ==
    \/ \E n \in Names, u \in Units, c \in Codes \cup {Null} : CreateProduct(n, u, c)
    \/ \E c \in Codes, p \in ProductIds : Lookup(c, p)
    \/ \E n \in Nets : ArticleCreate(n)
    \/ \E p \in ProductIds, k \in {"alias", "product_packaging"} : Describe(p, k)
    \/ \E p \in ProductIds, u \in {"none", "open", "past"} : SetUse(p, u)
    \/ \E a \in ArticleIds : ScanLine(a)
    \/ \E a \in ArticleIds, l \in {"none", "past"} : EndLine(a, l)
    \/ \E a \in ArticleIds, q \in Amounts : AddStock(a, q)
    \/ \E b \in 1..MaxBatches, q \in Amounts : Consume(b, q)
    \/ \E i \in 1..MaxMovements : CorrectMovement(i)
    \/ \E p \in ProductIds, k \in SUBSET (1..MaxBatches) : ConvertUnit(p, k)
    \/ \E p \in ProductIds : DeleteProduct(p)
    \/ \E a \in ArticleIds : DeleteArticle(a)
    \/ \E a \in ArticleIds, on \in BOOLEAN : SetArticleActive(a, on)
    \/ \E p \in ProductIds, on \in BOOLEAN : SetProductActive(p, on)

CatalogueSpec == CatalogueInit /\ [][CatalogueNext]_catalogueVars

(***************************************************************************)
(* Properties                                                              *)
(***************************************************************************)
\* Every row that names a product or an article names one that is there.  Ids
\* come back, and packaging has no foreign key: what an erased product leaves
\* behind would describe the next one, and what is still read would be gone.
NothingDangles ==
    /\ \A a \in Rows(article) : article[a].product \in Rows(product)
    /\ \A c \in Codes : barcode[c] # Null => barcode[c] \in Rows(article)
    /\ \A b \in DOMAIN batch : batch[b].article \in Rows(article)
    /\ \A x \in extras : x.target \in Rows(IF x.kind = "article_packaging"
                                           THEN article ELSE product)

\* A line waiting to be put away keeps the unit its number was typed in.
PromisesKeepTheirUnit ==
    \A a \in Rows(article) :
        Pending(a) => article[a].line = product[article[a].product].unit

RowsIn(b, unit) == {i \in DOMAIN journal : journal[i].batch = b /\ journal[i].unit = unit}
Balance(b, unit) == SumFunction([i \in RowsIn(b, unit) |-> journal[i].quantity])

\* The journal explains a batch unit by unit: what is left in the unit of its
\* product, nothing in any other.
Explained(b) == \A u \in Units :
    Balance(b, u) = (IF u = UnitOf(b) THEN batch[b].remaining ELSE 0)
OpenBatchesInTheirUnit == \A b \in DOMAIN batch : batch[b].open => Explained(b)

\* Only the correction of a row written before its product was converted can
\* leave a batch the journal does not explain in the unit of its product.
Converted(b) == {i \in DOMAIN journal : journal[i].batch = b /\ journal[i].reason = "conversion"}
LateCorrection(b) ==
    \E i \in DOMAIN journal :
        /\ journal[i].corrects # Null /\ journal[i].batch = b /\ journal[i].unit # UnitOf(b)
        /\ \A k \in Converted(b) : k < i
UnitsStayApart == \A b \in DOMAIN batch :
    (batch[b].open /\ ~LateCorrection(b)) => Explained(b)

\* What nobody may find wrong in the catalogue, whatever was deleted, created
\* again under the same id, converted and corrected before.
CatalogueSound ==
    CatalogueTypeOK /\ NothingDangles /\ PromisesKeepTheirUnit /\ UnitsStayApart

\* A conversion says the same stock in another unit: what a batch is worth
\* does not change, the one the hand says was in grams already included, whose
\* number and price are kept.
Worth(b) == batch[b].remaining * batch[b].price
ConversionKeepsWorthStep ==
    \A p \in ProductIds, k \in SUBSET (1..MaxBatches) :
        ConvertUnit(p, k) => \A b \in DOMAIN batch : Worth(b)' = Worth(b)
ConversionKeepsWorth == [][ConversionKeepsWorthStep]_catalogueVars

\* The article a phone creates is one of the product its hand chose.
ScanReachesItsProduct ==
    [][\A a \in ArticleIds : (article[a] = Null /\ article'[a] # Null /\ scan # Null /\ scan' = Null)
          => product[article'[a].product].name = scan.name]_catalogueVars
=============================================================================
