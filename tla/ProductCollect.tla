--------------------------- MODULE ProductCollect ---------------------------
(***************************************************************************)
(* dropship-product-finder: one request to collect the products of a job.  *)
(*                                                                         *)
(* A search task for each platform and query, a store task for each        *)
(* product found, all gathered.  A store task writes the product and its   *)
(* images in one transaction and announces the images after COMMIT.  When  *)
(* all tasks are done the service counts the rows of the job and publishes *)
(* the completion and the batch total, which the segmentor waits for.      *)
(*                                                                         *)
(* A step runs to the next await.  A product gets a fresh uuid on every    *)
(* attempt, so a row and an image carry the attempt.  PostgreSQL aborts a  *)
(* transaction at its first failing statement: every later statement of it *)
(* fails and its COMMIT rolls back without an error.  Left out: titles,    *)
(* prices and files (EbaySearch models the search), and browse_sema, which *)
(* one step of Browse cannot exceed.                                       *)
(***************************************************************************)
EXTENDS AssetBus, Sequences

CONSTANTS
    Queries,          \* searches of the request: a platform and a query
    Found,            \* what each search may return: [Queries -> sets]
    Shots,            \* the number of image urls of each product
    ItemSlots,        \* ITEM_CONCURRENCY
    MaxAttempts,      \* bound on deliveries of the request
    MaxFinderCrashes, \* bound on restarts
    MaxFinderFaults   \* bound on failing statements and publishes

Items == UNION {Found[q] : q \in Queries}

ASSUME FinderAssumption ==
    /\ IsFiniteSet(Queries) /\ IsFiniteSet(Items)
    /\ Shots \in [Items -> Nat] /\ ItemSlots \in Nat \ {0}
    /\ \A p, q \in Queries : p # q => Found[p] \cap Found[q] = {}
    /\ MaxAttempts \in Nat /\ MaxFinderCrashes \in Nat /\ MaxFinderFaults \in Nat

Images == (1..MaxAttempts) \X Items \X Nat

VARIABLES
    request,     \* the request message: queued, taken, done or dead
    attempt,     \* deliveries so far
    stage,       \* where its handler stands
    browsed,     \* the searches that have returned
    item,        \* where the store task of each product stands
    shot,        \* images it has gone through
    buffer,      \* events_to_publish
    broken,      \* its transaction has a failed statement
    total,       \* total_images, as counted
    emitted,     \* the job is in _collections_emitted
    rows,        \* product_images of the job
    announced,   \* images announced so far
    orphans,     \* history: images of transactions that were rolled back
    lost,        \* history: committed images that will not be announced
    finderCrashes, finderFaults

handler     == <<request, attempt, stage, browsed, total, emitted>>
storing     == <<item, shot, buffer, broken>>
stored      == <<rows, announced, orphans, lost>>
finderBound == <<finderCrashes, finderFaults>>
finderVars  == <<handler, storing, stored, finderBound>>

FinderInit ==
    /\ request = "queued" /\ attempt = 0 /\ stage = "idle" /\ browsed = {}
    /\ item = [i \in Items |-> "off"] /\ shot = [i \in Items |-> 0]
    /\ buffer = [i \in Items |-> <<>>] /\ broken = [i \in Items |-> FALSE]
    /\ total = 0 /\ emitted = FALSE
    /\ rows = {} /\ announced = {} /\ orphans = {} /\ lost = {}
    /\ finderCrashes = 0 /\ finderFaults = 0

FinderFault ==
    /\ finderFaults < MaxFinderFaults
    /\ finderFaults' = finderFaults + 1 /\ UNCHANGED finderCrashes

Busy == {i \in Items : item[i] \notin {"off", "ready", "done"}}

Buffered(i) == {buffer[i][n] : n \in DOMAIN buffer[i]}

-----------------------------------------------------------------------------
\* Searches

TakeRequest ==
    /\ request = "queued" /\ attempt < MaxAttempts
    /\ request' = "taken" /\ attempt' = attempt + 1
    /\ stage' = "collect" /\ browsed' = {}
    /\ item' = [i \in Items |-> "off"] /\ shot' = [i \in Items |-> 0]
    /\ buffer' = [i \in Items |-> <<>>] /\ broken' = [i \in Items |-> FALSE]
    /\ UNCHANGED <<total, emitted, stored, finderBound, bus>>

\* process_query: a search that raises counts as one that found nothing.
Browse(q, found) ==
    /\ stage = "collect" /\ q \in Queries \ browsed
    /\ found \subseteq Found[q]
    /\ browsed' = browsed \cup {q}
    /\ item' = [i \in Items |-> IF i \in found THEN "ready" ELSE item[i]]
    /\ UNCHANGED <<request, attempt, stage, total, emitted, shot, buffer, broken,
                   stored, finderBound, bus>>

-----------------------------------------------------------------------------
\* store_product

\* BEGIN and the INSERT of the product.
BeginStore(i) ==
    /\ item[i] = "ready" /\ Cardinality(Busy) < ItemSlots
    /\ item' = [item EXCEPT ![i] = "image"]
    /\ UNCHANGED <<handler, shot, buffer, broken, stored, finderBound, bus>>

\* They fail: ROLLBACK, and the product counts for nothing.
FailStore(i) ==
    /\ item[i] = "ready" /\ Cardinality(Busy) < ItemSlots
    /\ item' = [item EXCEPT ![i] = "done"]
    /\ FinderFault
    /\ UNCHANGED <<handler, shot, buffer, broken, stored, bus>>

\* The download brings no file, or the INSERT fails because the transaction
\* is already aborted (its retries fail alike, to the deadline): the image is
\* skipped.
SkipImage(i) ==
    /\ item[i] = "image" /\ shot[i] < Shots[i]
    /\ shot' = [shot EXCEPT ![i] = @ + 1]
    /\ UNCHANGED <<handler, item, buffer, broken, stored, finderBound, bus>>

StoreImage(i) ==
    /\ item[i] = "image" /\ shot[i] < Shots[i] /\ ~broken[i]
    /\ shot' = [shot EXCEPT ![i] = @ + 1]
    /\ buffer' = [buffer EXCEPT ![i] = Append(@, <<attempt, i, shot'[i]>>)]
    /\ UNCHANGED <<handler, item, broken, stored, finderBound, bus>>

\* The INSERT of an image fails: the code skips this image, the server has
\* aborted the whole transaction.
BreakImage(i) ==
    /\ item[i] = "image" /\ shot[i] < Shots[i] /\ ~broken[i]
    /\ shot' = [shot EXCEPT ![i] = @ + 1]
    /\ broken' = [broken EXCEPT ![i] = TRUE]
    /\ FinderFault
    /\ UNCHANGED <<handler, item, buffer, stored, bus>>

\* Mutant: an image is announced although its row is not committed yet.
CommitLate(i) ==
    /\ item[i] = "image" /\ shot[i] = Shots[i]
    /\ item' = [item EXCEPT ![i] = IF buffer[i] = <<>> THEN "done" ELSE "announce"]
    /\ UNCHANGED <<handler, shot, buffer, broken, stored, finderBound, bus>>

\* COMMIT; that of an aborted transaction rolls back and raises nothing.
Commit(i) ==
    /\ item[i] = "image" /\ shot[i] = Shots[i]
    /\ item' = [item EXCEPT ![i] = IF buffer[i] = <<>> THEN "done" ELSE "announce"]
    /\ IF broken[i]
       THEN orphans' = orphans \cup Buffered(i) /\ UNCHANGED rows
       ELSE rows' = rows \cup Buffered(i) /\ UNCHANGED orphans
    /\ UNCHANGED <<handler, shot, buffer, broken, announced, lost, finderBound, bus>>

\* The connection is lost in COMMIT: the server has committed or not, and
\* nothing is announced.
FailCommit(i) ==
    /\ item[i] = "image" /\ shot[i] = Shots[i] /\ ~broken[i]
    /\ item' = [item EXCEPT ![i] = "done"]
    /\ \/ rows' = rows \cup Buffered(i) /\ lost' = lost \cup Buffered(i)
       \/ UNCHANGED <<rows, lost>>
    /\ FinderFault
    /\ UNCHANGED <<handler, shot, buffer, broken, announced, orphans, bus>>

Announce(i) ==
    /\ item[i] = "announce"
    /\ readyImages' = readyImages \cup {Head(buffer[i])}
    /\ announced' = announced \cup {Head(buffer[i])}
    /\ buffer' = [buffer EXCEPT ![i] = Tail(@)]
    /\ item' = [item EXCEPT ![i] = IF Len(buffer[i]) = 1 THEN "done" ELSE "announce"]
    /\ UNCHANGED <<handler, shot, broken, rows, orphans, lost, finderBound,
                   imageBatches, readyVideos, videoBatches>>

\* A publish fails: the ROLLBACK undoes nothing, the rest is not announced.
FailAnnounce(i) ==
    /\ item[i] = "announce"
    /\ item' = [item EXCEPT ![i] = "done"]
    /\ lost' = lost \cup (Buffered(i) \cap rows)
    /\ FinderFault
    /\ UNCHANGED <<handler, shot, buffer, broken, rows, announced, orphans, bus>>

-----------------------------------------------------------------------------
\* Completion

Gathered ==
    /\ stage = "collect" /\ browsed = Queries
    /\ \A i \in Items : item[i] \in {"off", "done"}

\* Mutant: the rows are counted when the searches are done.
CountEarly ==
    /\ stage = "collect" /\ browsed = Queries
    /\ total' = Cardinality(rows)
    /\ IF total' > 0 /\ emitted
       THEN stage' = "ack" /\ UNCHANGED emitted
       ELSE stage' = "completed" /\ emitted' = (emitted \/ total' > 0)
    /\ UNCHANGED <<request, attempt, browsed, storing, stored, finderBound, bus>>

\* SELECT COUNT(*), then the guard: a job with images is announced once in
\* the life of the process, a job without any on every delivery.
Count ==
    /\ Gathered
    /\ total' = Cardinality(rows)
    /\ IF total' > 0 /\ emitted
       THEN stage' = "ack" /\ UNCHANGED emitted
       ELSE stage' = "completed" /\ emitted' = (emitted \/ total' > 0)
    /\ UNCHANGED <<request, attempt, browsed, storing, stored, finderBound, bus>>

PublishCollected ==
    /\ stage = "completed" /\ stage' = "batch"
    /\ UNCHANGED <<request, attempt, browsed, total, emitted, storing, stored,
                   finderBound, bus>>

PublishImagesBatch ==
    /\ stage = "batch" /\ stage' = "ack"
    /\ imageBatches' = imageBatches \cup {[id |-> attempt, total |-> total]}
    /\ UNCHANGED <<request, attempt, browsed, total, emitted, storing, stored,
                   finderBound, readyImages, readyVideos, videoBatches>>

\* The count or a publish raises: the broker sends the request again.
RaiseCollect ==
    /\ stage \in {"completed", "batch"} \/ Gathered
    /\ stage' = "idle" /\ request' = "queued"
    /\ FinderFault
    /\ UNCHANGED <<attempt, browsed, total, emitted, storing, stored, bus>>

AckRequest ==
    /\ stage = "ack" /\ stage' = "idle" /\ request' = "done"
    /\ UNCHANGED <<attempt, browsed, total, emitted, storing, stored, finderBound, bus>>

\* A restart: open transactions are rolled back, the guard is forgotten and
\* the request comes again.
FinderCrash ==
    /\ finderCrashes < MaxFinderCrashes /\ finderCrashes' = finderCrashes + 1
    /\ request = "taken" /\ request' = "queued" /\ stage' = "idle"
    /\ emitted' = FALSE
    /\ lost' = lost \cup UNION {Buffered(i) \cap rows :
                                i \in {j \in Items : item[j] = "announce"}}
    /\ item' = [i \in Items |-> "off"] /\ browsed' = {}
    /\ UNCHANGED <<attempt, total, shot, buffer, broken, rows, announced, orphans,
                   finderFaults, bus>>

Search == \E q \in Queries : \E found \in SUBSET Found[q] : Browse(q, found)

StoreStep(i) ==
    \/ BeginStore(i) \/ SkipImage(i) \/ StoreImage(i) \/ Commit(i) \/ Announce(i)

StoreFault(i) == FailStore(i) \/ BreakImage(i) \/ FailCommit(i) \/ FailAnnounce(i)

HandlerStep == Count \/ PublishCollected \/ PublishImagesBatch \/ AckRequest

FinderWork ==
    \/ TakeRequest \/ Search \/ HandlerStep
    \/ \E i \in Items : StoreStep(i)

FinderNext ==
    \/ FinderWork \/ RaiseCollect \/ FinderCrash
    \/ \E i \in Items : StoreFault(i)

\* The event loop goes on while a task can run.
FinderFairness == WF_<<finderVars, bus>>(FinderWork)

-----------------------------------------------------------------------------
\* Properties

FinderTypeOK ==
    /\ request \in {"queued", "taken", "done"} /\ attempt \in 0..MaxAttempts
    /\ stage \in {"idle", "collect", "completed", "batch", "ack"}
    /\ browsed \subseteq Queries /\ total \in Nat /\ emitted \in BOOLEAN
    /\ item \in [Items -> {"off", "ready", "image", "announce", "done"}]
    /\ shot \in [Items -> Nat] /\ broken \in [Items -> BOOLEAN]
    /\ buffer \in [Items -> Seq(Images)]
    /\ rows \subseteq Images /\ announced \subseteq Images
    /\ orphans \subseteq Images /\ lost \subseteq rows
    /\ finderCrashes \in 0..MaxFinderCrashes /\ finderFaults \in 0..MaxFinderFaults

\* An announced image has its row, unless an INSERT of its product failed:
\* the code then skips one image and announces the others, whose rows the
\* server has rolled back.
ReadyBacked == \A im \in announced : im \in rows \/ im \in orphans

\* The total announced to the segmentor is the number of images it was or
\* will be sent: those announced, plus the committed ones a failed publish or
\* a restart kept from being announced, less the rolled back ones.
TotalCountsReady ==
    stage \in {"completed", "batch"} =>
        /\ total = Cardinality(rows)
        /\ rows = (announced \ orphans) \cup lost
=============================================================================
