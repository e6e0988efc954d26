----------------------------- MODULE EbaySearch -----------------------------
(***************************************************************************)
(* dropship-product-finder: EbayProductCollector.collect_products for one  *)
(* query, with the browse client's retries and the token kept in Redis.    *)
(*                                                                         *)
(* A marketplace is searched, each item found is asked for its details,    *)
(* and of all that was found the cheapest of each product is returned.     *)
(* eBay and Redis are external.  An item has a product it is a variant of, *)
(* and a total price, which its details repeat; what the mapper makes of   *)
(* its other fields is left out.                                           *)
(***************************************************************************)
EXTENDS Naturals, Sequences, FiniteSets, SequencesExt, Places

CONSTANTS
    Items,          \* items eBay may list: [name, product, price]
    Shelves,        \* what the marketplaces may have for the query, in order of
                    \* the marketplaces and there in eBay's order
    Misshapen,      \* items the mapper cannot normalize
    Limits,         \* values of top_k
    BrowseTries,    \* MAX_RETRIES_BROWSE
    MaxExpiries     \* bound on losses of the stored token

ASSUME EbayAssumption ==
    /\ \A i \in Items : i.price \in Nat
    /\ Shelves \subseteq Seq(Seq(Items)) \ {<<>>}
    /\ Limits \subseteq Nat /\ BrowseTries \in Nat \ {0} /\ MaxExpiries \in Nat

VARIABLES
    shelf,      \* what the marketplaces have
    topK,       \* top_k
    market,     \* the marketplace, an index of shelf
    ebay,       \* where its collection stands
    tries,      \* attempt of the current request, from 0
    token,      \* whether Redis has a token that is valid by its timestamp
    summaries,  \* itemSummaries of the marketplace
    details,    \* item_details: the item of each answer
    products,   \* all_products
    answer,     \* what is returned
    listed,     \* history: summaries of the marketplaces that were collected
    expiries

ebayVars == <<shelf, topK, market, ebay, tries, token, summaries, details, products, answer,
              listed, expiries>>

EbayInit ==
    /\ shelf \in Shelves /\ topK \in Limits /\ market = 1
    /\ ebay = "search_token" /\ tries = 0 /\ token \in BOOLEAN
    /\ summaries = <<>> /\ details = <<>> /\ products = <<>> /\ answer = <<>>
    /\ listed = {} /\ expiries = 0

\* deduplicate_products, by the places of what was found.  Items are grouped by
\* product, the groups in the order of their first items; of a group the first
\* of the cheapest is taken, and these are sorted by price, stably.
Group(found, n) == {m \in DOMAIN found : found[m].product = found[n].product}

Lowest(found) ==
    {n \in DOMAIN found : \A m \in Group(found, n) :
        \/ found[n].price < found[m].price
        \/ found[n].price = found[m].price /\ n <= m}

Cheaper(found, m, n) ==
    \/ found[m].price < found[n].price
    \/ /\ found[m].price = found[n].price
       /\ \E a \in Group(found, m) : \A b \in Group(found, n) : a < b

ByPrice(found, places) ==
    Arranged(places, {x \in places \X places : Cheaper(found, x[1], x[2])})

Capped(n, limit) == IF n < limit THEN n ELSE limit

\* Mutant: the limit is applied before the sort.
DeduplicateCutFirst(found, limit) ==
    LET cut == {n \in Lowest(found) : Cardinality({m \in Lowest(found) : m < n}) < limit}
        sorted == ByPrice(found, cut)
    IN [k \in DOMAIN sorted |-> found[sorted[k]]]

Deduplicate(found, limit) ==
    LET sorted == ByPrice(found, Lowest(found))
    IN [k \in 1..Capped(Len(sorted), limit) |-> found[sorted[k]]]

\* parse_search_results_with_details: the details at an item's place stand for
\* it; where there are none, its summary does.
Parsed == [n \in DOMAIN summaries |-> IF n \in DOMAIN details THEN details[n] ELSE summaries[n]]

\* Details are asked for the first top_k items, one after the other.
Outstanding(found, asked) == Len(asked) < Len(found) /\ Len(asked) < topK

\* normalize_ebay_item gives None for what it cannot read.
NextMarket(found) ==
    /\ products' = products \o Kept(found, {n \in DOMAIN found : found[n] \notin Misshapen})
    /\ summaries' = <<>> /\ details' = <<>>
    /\ IF market < Len(shelf)
       THEN market' = market + 1 /\ ebay' = "search_token" /\ UNCHANGED answer
       ELSE ebay' = "done" /\ answer' = Deduplicate(products', topK) /\ UNCHANGED market

\* search without a limit asks nobody.
SkipSearch ==
    /\ ebay = "search_token" /\ topK = 0 /\ NextMarket(<<>>)
    /\ UNCHANGED <<shelf, topK, tries, token, listed, expiries>>

\* get_access_token: the stored token, or a new one that is stored first.
HaveToken ==
    /\ ebay \in {"search_token", "detail_token"} /\ topK > 0
    /\ ebay' = IF ebay = "search_token" THEN "search" ELSE "detail"
    /\ tries' = 0 /\ token' = TRUE
    /\ UNCHANGED <<shelf, topK, market, summaries, details, products, answer, listed, expiries>>

\* An answer of get_item, or the summary in its place.
Detailed ==
    LET asked == Append(details, summaries[Len(details) + 1]) IN
    /\ details' = asked
    /\ ebay' = IF Outstanding(summaries, asked) THEN "detail_token" ELSE "collected"
    /\ UNCHANGED <<market, summaries, products, answer, listed>>

\* There is no token: eBay gives none, or Redis does not keep it.  A search
\* fails with its marketplace, the details of an item are its summary.
NoToken ==
    /\ ebay \in {"search_token", "detail_token"} /\ topK > 0 /\ ~token
    /\ IF ebay = "search_token" THEN NextMarket(<<>>) /\ UNCHANGED listed ELSE Detailed
    /\ UNCHANGED <<shelf, topK, tries, token, expiries>>

\* The request has a result: what was found of the marketplace, at most a page
\* of 50, or the details.  eBay gives every item its itemId, without which the
\* code would drop the whole marketplace.
Result(found) ==
    IF ebay = "search"
    THEN /\ summaries' = found /\ listed' = listed \cup ToSet(found)
         /\ ebay' = IF Outstanding(found, <<>>) THEN "detail_token" ELSE "collected"
         /\ UNCHANGED <<market, details, products, answer>>
    ELSE Detailed

Answered ==
    /\ ebay \in {"search", "detail"}
    /\ Result(SubSeq(shelf[market], 1, CHOOSE n \in 0..50 :
          /\ n <= topK /\ n <= Len(shelf[market])
          /\ n = topK \/ n = Len(shelf[market]) \/ n = 50))
    /\ UNCHANGED <<shelf, topK, tries, token, expiries>>

\* 200 without JSON, or a status that is not tried again: the empty result.
Refused ==
    /\ ebay \in {"search", "detail"} /\ Result(<<>>)
    /\ UNCHANGED <<shelf, topK, tries, token, expiries>>

Again ==
    IF tries + 1 < BrowseTries
    THEN /\ tries' = tries + 1
         /\ UNCHANGED <<market, ebay, summaries, details, products, answer, listed>>
    ELSE Result(<<>>) /\ UNCHANGED tries

\* 429, a server error or an exception, after a wait.
Unavailable ==
    /\ ebay \in {"search", "detail"} /\ Again /\ UNCHANGED <<shelf, topK, token, expiries>>

\* 401: the token is renewed, and used if this was the first attempt.  If that
\* fails it is one more exception.
Unauthorized ==
    /\ ebay \in {"search", "detail"}
    /\ \/ token' = TRUE /\ IF tries = 0 THEN Again ELSE Result(<<>>) /\ UNCHANGED tries
       \/ UNCHANGED token /\ Again
    /\ UNCHANGED <<shelf, topK, expiries>>

\* All that was found at a marketplace is parsed and normalized.
Collected ==
    /\ ebay = "collected" /\ NextMarket(Parsed)
    /\ UNCHANGED <<shelf, topK, tries, token, listed, expiries>>

\* The stored token expires, or Redis cannot be read.
Expire ==
    /\ token /\ expiries < MaxExpiries /\ token' = FALSE /\ expiries' = expiries + 1
    /\ UNCHANGED <<shelf, topK, market, ebay, tries, summaries, details, products, answer, listed>>

EbayNext ==
    \/ SkipSearch \/ HaveToken \/ NoToken \/ Answered \/ Refused \/ Unavailable \/ Unauthorized
    \/ Collected \/ Expire

EbaySpec == EbayInit /\ [][EbayNext]_ebayVars

-----------------------------------------------------------------------------
\* Properties

EbayTypeOK ==
    /\ shelf \in Shelves /\ topK \in Limits /\ market \in 1..Len(shelf)
    /\ token \in BOOLEAN /\ tries \in 0..BrowseTries-1
    /\ ebay \in {"search_token", "search", "detail_token", "detail", "collected", "done"}
    /\ Len(details) <= Len(summaries) /\ listed \subseteq Items /\ expiries \in 0..MaxExpiries

\* Whatever fails on the way, each item that a search has listed is returned,
\* or a variant of its product that costs no more, or top_k other products that
\* cost no more; and no product is returned twice.
CheapestReturned ==
    ebay = "done" =>
        /\ \A i \in listed \ Misshapen :
              \/ \E n \in DOMAIN answer : answer[n].product = i.product /\ answer[n].price <= i.price
              \/ Len(answer) = topK /\ \A n \in DOMAIN answer : answer[n].price <= i.price
        /\ \A n, k \in DOMAIN answer : n # k => answer[n].product # answer[k].product
=============================================================================
