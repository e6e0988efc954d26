-------------------------- MODULE AssetFlowProofs ---------------------------
(***************************************************************************)
(* What the collector of products announces, how often the segmentor       *)
(* announces its masked batch and what it says there: for any number of    *)
(* products, images, tasks, deliveries, restarts and faults.               *)
(***************************************************************************)
EXTENDS AssetFlow, FiniteSetTheorems, SequenceTheorems, TLAPS

-----------------------------------------------------------------------------
\* Sequences and their elements

Elements(s) == {s[n] : n \in DOMAIN s}

LEMMA TailType ==
    ASSUME NEW S, NEW s \in Seq(S), s # <<>>
    PROVE  /\ Tail(s) \in Seq(S) /\ Head(s) \in S /\ Len(s) \in Nat \ {0}
           /\ Len(s) # 1 => Tail(s) # <<>>
<1>1. Len(s) \in Nat \ {0}
    BY EmptySeq
<1>2. Head(s) \in S /\ Tail(s) \in Seq(S) /\ Len(Tail(s)) = Len(s) - 1
    BY HeadTailProperties
<1>3. Len(s) # 1 => Len(Tail(s)) # 0
    BY <1>1, <1>2
<1> QED BY <1>1, <1>2, <1>3, EmptySeq

LEMMA TailElements ==
    ASSUME NEW S, NEW s \in Seq(S), s # <<>>
    PROVE  /\ Elements(s) = {Head(s)} \cup Elements(Tail(s))
           /\ Len(s) = 1 => Elements(s) = {Head(s)}
<1>1. Len(s) \in Nat \ {0} /\ Head(s) = s[1] /\ DOMAIN s = 1..Len(s)
    OBVIOUS
<1>2. DOMAIN Tail(s) = 1..Len(s)-1 /\ \A n \in 1..Len(s)-1 : Tail(s)[n] = s[n+1]
    OBVIOUS
<1>3. ASSUME NEW n \in DOMAIN s PROVE s[n] \in {Head(s)} \cup Elements(Tail(s))
  <2>1. CASE n = 1 BY <2>1, <1>1
  <2>2. CASE n # 1
    <3>1. n-1 \in 1..Len(s)-1 /\ Tail(s)[n-1] = s[n]
        BY <2>2, <1>1, <1>2
    <3> QED BY <3>1, <1>2 DEF Elements
  <2> QED BY <2>1, <2>2
<1>4. ASSUME NEW n \in DOMAIN Tail(s) PROVE Tail(s)[n] \in Elements(s)
  <2>1. n+1 \in DOMAIN s /\ Tail(s)[n] = s[n+1]
      BY <1>1, <1>2
  <2> QED BY <2>1 DEF Elements
<1>5. Head(s) \in Elements(s)
    BY <1>1 DEF Elements
<1>6. Elements(s) = {Head(s)} \cup Elements(Tail(s))
    BY <1>3, <1>4, <1>5 DEF Elements
<1>7. Len(s) = 1 => Elements(s) = {Head(s)}
    BY <1>1 DEF Elements
<1> QED BY <1>6, <1>7

LEMMA AppendElements ==
    ASSUME NEW S, NEW s \in Seq(S), NEW e \in S
    PROVE  Append(s, e) \in Seq(S) /\ Elements(Append(s, e)) = Elements(s) \cup {e}
<1>1. Append(s, e) \in Seq(S) /\ DOMAIN Append(s, e) = 1..Len(s)+1
      /\ DOMAIN s = 1..Len(s) /\ Len(s) \in Nat
    OBVIOUS
<1>2. Append(s, e)[Len(s)+1] = e /\ \A n \in 1..Len(s) : Append(s, e)[n] = s[n]
    OBVIOUS
<1> QED BY <1>1, <1>2 DEF Elements

-----------------------------------------------------------------------------
\* The collector

ItemStages == {"off", "ready", "image", "announce", "done"}

CollectTypes ==
    /\ attempt \in Nat /\ item \in [Items -> ItemStages]
    /\ shot \in [Items -> Nat] /\ broken \in [Items -> BOOLEAN]
    /\ buffer \in [Items -> Seq(Nat \X Items \X Nat)]
    /\ browsed \subseteq Queries
    /\ rows \subseteq Nat \X Items \X Nat /\ orphans \subseteq Nat \X Items \X Nat
    /\ stage \in {"idle", "collect", "completed", "batch", "ack"}
    /\ request = "queued" => stage = "idle"
    /\ \A i \in Items : item[i] = "announce" => buffer[i] # <<>>

\* Store tasks run only while the handler gathers them.
TasksInv == \A i \in Items : stage # "collect" => item[i] \in {"off", "done"}

\* A product has a task only if a search of this delivery has found it.
FoundInv ==
    \A i \in Items : stage = "collect" /\ item[i] # "off" => \E q \in browsed : i \in Found[q]

\* What a task buffers belongs to its product and to this delivery; a row or a
\* rolled back image of this delivery is of a task past its transaction.
BufferInv ==
    \A i \in Items :
        /\ stage = "collect" /\ item[i] \in {"off", "ready"} => Buffered(i) = {}
        /\ item[i] = "image" => \A im \in Buffered(i) : im[1] = attempt /\ im[2] = i

AttemptInv ==
    \A im \in rows \cup orphans :
        /\ im[1] <= attempt
        /\ stage = "collect" /\ im[1] = attempt => item[im[2]] \in {"announce", "done"}

\* The books of the images: a committed one is announced, lost, or in the buffer
\* of a task that goes on announcing; a rolled back one never has a row.
BooksInv ==
    /\ rows \cap orphans = {} /\ lost \subseteq rows
    /\ announced \subseteq rows \cup orphans
    /\ \A i \in Items : item[i] = "announce" => Buffered(i) \subseteq rows \cup orphans
    /\ \A im \in rows : im \in announced \cup lost
                        \/ \E i \in Items : item[i] = "announce" /\ im \in Buffered(i)

TotalInv == stage \in {"completed", "batch"} => total = Cardinality(rows)

CollectInv ==
    /\ CollectTypes /\ TasksInv /\ FoundInv /\ BufferInv /\ AttemptInv /\ BooksInv /\ TotalInv

LEMMA CollectInit == FinderInit => CollectInv
BY FinderAssumption
   DEF FinderInit, CollectInv, CollectTypes, TasksInv, FoundInv, BufferInv, AttemptInv,
       BooksInv, TotalInv, ItemStages, Buffered

LEMMA CollectTypesStep == CollectTypes /\ [FinderNext]_finderVars => CollectTypes'
<1> SUFFICES ASSUME CollectTypes, [FinderNext]_finderVars PROVE CollectTypes'
    OBVIOUS
<1> USE DEF CollectTypes, ItemStages, handler, storing, stored, finderBound
<1>1. CASE TakeRequest BY <1>1 DEF TakeRequest
<1>2. ASSUME NEW q \in Queries, NEW found \in SUBSET Found[q], Browse(q, found)
      PROVE  CollectTypes'
    BY <1>2 DEF Browse
<1>3. CASE HandlerStep
    BY <1>3 DEF HandlerStep, Count, PublishCollected, PublishImagesBatch, AckRequest, Gathered
<1>4. ASSUME NEW i \in Items, StoreStep(i) PROVE CollectTypes'
  <2>1. CASE BeginStore(i) BY <2>1 DEF BeginStore
  <2>2. CASE SkipImage(i)
    <3>1. shot' \in [Items -> Nat]
        BY <2>2 DEF SkipImage
    <3> QED BY <2>2, <3>1 DEF SkipImage
  <2>3. CASE StoreImage(i)
    <3>1. shot'[i] \in Nat /\ shot' \in [Items -> Nat]
        BY <2>3 DEF StoreImage
    <3>2. <<attempt, i, shot'[i]>> \in Nat \X Items \X Nat
        BY <3>1
    <3>3. buffer' \in [Items -> Seq(Nat \X Items \X Nat)]
      <4>1. buffer[i] \in Seq(Nat \X Items \X Nat)
          OBVIOUS
      <4>2. Append(buffer[i], <<attempt, i, shot'[i]>>) \in Seq(Nat \X Items \X Nat)
          BY <3>2, <4>1, AppendElements
      <4> QED BY <2>3, <4>2 DEF StoreImage
    <3> QED BY <2>3, <3>1, <3>3 DEF StoreImage
  <2>4. CASE Commit(i)
    <3>1. Buffered(i) \subseteq Nat \X Items \X Nat
        BY DEF Buffered
    <3> QED BY <2>4, <3>1 DEF Commit
  <2>5. CASE Announce(i)
    <3> DEFINE S == Nat \X Items \X Nat
    <3>1. buffer[i] \in Seq(S) /\ buffer[i] # <<>>
        BY <2>5 DEF Announce
    <3>2. Tail(buffer[i]) \in Seq(S) /\ (Len(buffer[i]) # 1 => Tail(buffer[i]) # <<>>)
        BY <3>1, TailType
    <3> HIDE DEF S
    <3>3. buffer' = [buffer EXCEPT ![i] = Tail(buffer[i])]
        BY <2>5 DEF Announce
    <3>4. buffer' \in [Items -> Seq(S)]
        BY <3>2, <3>3 DEF S
    <3>5. \A j \in Items : item'[j] = "announce" => buffer'[j] # <<>>
        BY <2>5, <3>2, <3>3 DEF Announce
    <3> QED BY <2>5, <3>4, <3>5 DEF Announce, S
  <2> QED BY <1>4, <2>1, <2>2, <2>3, <2>4, <2>5 DEF StoreStep
<1>5. ASSUME NEW i \in Items, StoreFault(i) PROVE CollectTypes'
  <2>1. CASE FailStore(i) BY <2>1 DEF FailStore
  <2>2. CASE BreakImage(i)
    <3>1. shot' \in [Items -> Nat] /\ broken' \in [Items -> BOOLEAN]
        BY <2>2 DEF BreakImage
    <3> QED BY <2>2, <3>1 DEF BreakImage
  <2>3. CASE FailCommit(i)
    <3>1. Buffered(i) \subseteq Nat \X Items \X Nat
        BY DEF Buffered
    <3> QED BY <2>3, <3>1 DEF FailCommit
  <2>4. CASE FailAnnounce(i) BY <2>4 DEF FailAnnounce
  <2> QED BY <1>5, <2>1, <2>2, <2>3, <2>4 DEF StoreFault
<1>6. CASE RaiseCollect BY <1>6 DEF RaiseCollect
<1>7. CASE FinderCrash BY <1>7 DEF FinderCrash
<1>8. CASE UNCHANGED finderVars BY <1>8 DEF finderVars
<1> QED BY <1>1, <1>2, <1>3, <1>4, <1>5, <1>6, <1>7, <1>8
        DEF FinderNext, FinderWork, Search

\* The parts of the invariant that say which images a step moves.
LEMMA TasksStep ==
    ASSUME CollectInv, [FinderNext]_finderVars
    PROVE  TasksInv' /\ FoundInv' /\ TotalInv'
<1> USE FinderAssumption DEF CollectInv, CollectTypes, TasksInv, FoundInv, TotalInv, ItemStages
<1>1. CASE TakeRequest BY <1>1 DEF TakeRequest
<1>2. ASSUME NEW q \in Queries, NEW found \in SUBSET Found[q], Browse(q, found)
      PROVE  TasksInv' /\ FoundInv' /\ TotalInv'
    BY <1>2 DEF Browse
<1>3. CASE HandlerStep
    BY <1>3 DEF HandlerStep, Count, PublishCollected, PublishImagesBatch, AckRequest, Gathered,
                storing, stored
<1>4. ASSUME NEW i \in Items, StoreStep(i) \/ StoreFault(i)
      PROVE  TasksInv' /\ FoundInv' /\ TotalInv'
  <2>1. item[i] \in {"ready", "image", "announce"} /\ UNCHANGED <<stage, browsed, total>>
        /\ \/ UNCHANGED item
           \/ \E to \in ItemStages : item' = [item EXCEPT ![i] = to]
      BY <1>4 DEF StoreStep, StoreFault, BeginStore, SkipImage, StoreImage, Commit, Announce,
                  FailStore, BreakImage, FailCommit, FailAnnounce, handler
  <2> QED BY <2>1
<1>5. CASE RaiseCollect BY <1>5 DEF RaiseCollect, Gathered, storing, stored
<1>6. CASE FinderCrash BY <1>6 DEF FinderCrash, storing, stored
<1>7. CASE UNCHANGED finderVars BY <1>7 DEF finderVars, handler, storing, stored
<1> QED BY <1>1, <1>2, <1>3, <1>4, <1>5, <1>6, <1>7 DEF FinderNext, FinderWork, Search

\* A search finds no product that has a task already.
LEMMA FoundOnce ==
    ASSUME CollectInv, NEW q \in Queries, NEW found \in SUBSET Found[q], Browse(q, found)
    PROVE  \A i \in Items : item[i] # "off" => i \notin found
<1> SUFFICES ASSUME NEW i \in Items, item[i] # "off", i \in found PROVE FALSE
    OBVIOUS
<1>1. stage = "collect" /\ q \notin browsed /\ browsed \subseteq Queries
    BY DEF Browse, CollectInv, CollectTypes
<1>2. PICK p \in browsed : i \in Found[p]
    BY <1>1 DEF CollectInv, FoundInv
<1>3. Found[p] \cap Found[q] = {}
    BY <1>1, <1>2, FinderAssumption
<1> QED BY <1>2, <1>3

\* What each step leaves in the buffers.
LEMMA BuffersKept == UNCHANGED buffer => \A j \in Items : Buffered(j)' = Buffered(j)
BY DEF Buffered

LEMMA BuffersStored ==
    ASSUME CollectTypes, NEW i \in Items, StoreImage(i)
    PROVE  \A j \in Items : Buffered(j)' =
                IF j = i THEN Buffered(i) \cup {<<attempt, i, shot'[i]>>} ELSE Buffered(j)
<1> DEFINE e == <<attempt, i, shot'[i]>>
<1>1. shot'[i] \in Nat /\ buffer[i] \in Seq(Nat \X Items \X Nat) /\ attempt \in Nat
    BY DEF StoreImage, CollectTypes
<1>2. e \in Nat \X Items \X Nat
    BY <1>1
<1>3. buffer' = [buffer EXCEPT ![i] = Append(buffer[i], e)]
    BY DEF StoreImage
<1> HIDE DEF e
<1>4. buffer'[i] = Append(buffer[i], e) /\ \A j \in Items \ {i} : buffer'[j] = buffer[j]
    BY <1>3 DEF CollectTypes
<1>5. Elements(buffer'[i]) = Elements(buffer[i]) \cup {e}
    BY SMTT(30), <1>1, <1>2, <1>4, AppendElements
<1> QED BY <1>4, <1>5 DEF Buffered, Elements, e

LEMMA BuffersAnnounced ==
    ASSUME CollectTypes, NEW i \in Items, Announce(i)
    PROVE  /\ Buffered(i) = {Head(buffer[i])} \cup Buffered(i)'
           /\ Len(buffer[i]) = 1 => Buffered(i) = {Head(buffer[i])}
           /\ \A j \in Items \ {i} : Buffered(j)' = Buffered(j)
<1>1. buffer[i] \in Seq(Nat \X Items \X Nat) /\ buffer[i] # <<>>
    BY DEF Announce, CollectTypes
<1>2. buffer'[i] = Tail(buffer[i]) /\ \A j \in Items \ {i} : buffer'[j] = buffer[j]
    BY DEF Announce, CollectTypes
<1>3. /\ Elements(buffer[i]) = {Head(buffer[i])} \cup Elements(Tail(buffer[i]))
      /\ Len(buffer[i]) = 1 => Elements(buffer[i]) = {Head(buffer[i])}
    BY <1>1, TailElements
<1> QED BY <1>2, <1>3 DEF Buffered, Elements

\* Images carry the attempt and the product, which tells the ones a task works
\* on from all that are settled.
LEMMA AttemptStep ==
    ASSUME CollectInv, [FinderNext]_finderVars
    PROVE  BufferInv' /\ AttemptInv'
<1> USE DEF CollectInv, CollectTypes, TasksInv, BufferInv, AttemptInv, ItemStages
<1>1. CASE TakeRequest
  <2>1. \A j \in Items : Buffered(j)' = {}
      BY <1>1 DEF TakeRequest, Buffered
  <2> QED BY <1>1, <2>1 DEF TakeRequest, stored
<1>2. ASSUME NEW q \in Queries, NEW found \in SUBSET Found[q], Browse(q, found)
      PROVE  BufferInv' /\ AttemptInv'
  <2>1. \A i \in Items : item[i] # "off" => i \notin found
      BY <1>2, FoundOnce
  <2>2. \A j \in Items : Buffered(j)' = Buffered(j)
      BY <1>2, BuffersKept DEF Browse
  <2>3. /\ stage = "collect" /\ stage' = stage /\ attempt' = attempt /\ UNCHANGED stored
        /\ item' = [i \in Items |-> IF i \in found THEN "ready" ELSE item[i]]
      BY <1>2 DEF Browse
  <2> HIDE DEF CollectTypes
  <2>4. BufferInv'
    <3>1. ASSUME NEW i \in Items
          PROVE /\ item'[i] \in {"off", "ready"} => item[i] \in {"off", "ready"}
                /\ item'[i] = "image" => item[i] = "image"
        BY <2>1, <2>3
    <3> QED BY <3>1, <2>2, <2>3
  <2>5. AttemptInv'
    <3>1. rows \cup orphans \subseteq Nat \X Items \X Nat
        BY DEF CollectTypes
    <3>2. ASSUME NEW im \in rows \cup orphans PROVE im[2] \in Items
        BY <3>1
    <3>3. \A i \in Items : item[i] \in {"announce", "done"} => item'[i] = item[i]
        BY <2>1, <2>3
    <3>4. ASSUME NEW im \in rows \cup orphans
          PROVE  im[1] <= attempt /\ (im[1] = attempt => item[im[2]] \in {"announce", "done"})
        BY <2>3
    <3>5. rows' \cup orphans' = rows \cup orphans
        BY <2>3 DEF stored
    <3>6. ASSUME NEW im \in rows \cup orphans, im[1] = attempt
          PROVE  item'[im[2]] \in {"announce", "done"}
        BY <3>2, <3>3, <3>4, <3>6
    <3> QED BY <3>4, <3>5, <3>6, <2>3
  <2> QED BY <2>4, <2>5
<1>3. CASE HandlerStep \/ RaiseCollect
  <2>1. UNCHANGED <<attempt, storing, stored>> /\ stage' # "collect"
      BY <1>3 DEF HandlerStep, Count, PublishCollected, PublishImagesBatch, AckRequest,
                  RaiseCollect
  <2>2. \A j \in Items : Buffered(j)' = Buffered(j)
      BY <2>1, BuffersKept DEF storing
  <2> QED BY <2>1, <2>2 DEF storing, stored
<1>4. ASSUME NEW i \in Items, BeginStore(i) \/ FailStore(i) \/ FailAnnounce(i)
                              \/ SkipImage(i) \/ BreakImage(i)
      PROVE  BufferInv' /\ AttemptInv'
  <2>1. /\ UNCHANGED <<attempt, stage, rows, orphans>> /\ stage = "collect"
        /\ \/ item[i] = "ready" /\ item' = [item EXCEPT ![i] = "image"]
           \/ item[i] \in {"ready", "announce"} /\ item' = [item EXCEPT ![i] = "done"]
           \/ item' = item
      BY <1>4 DEF BeginStore, FailStore, FailAnnounce, SkipImage, BreakImage, handler, stored
  <2>2. \A j \in Items : Buffered(j)' = Buffered(j)
      BY <1>4, BuffersKept DEF BeginStore, FailStore, FailAnnounce, SkipImage, BreakImage
  <2>3. BufferInv' BY ZenonT(60), <2>1, <2>2
  <2>4. AttemptInv' BY <2>1
  <2> QED BY <2>3, <2>4
<1>5. ASSUME NEW i \in Items, StoreImage(i) PROVE BufferInv' /\ AttemptInv'
  <2>1. \A j \in Items : Buffered(j)' =
            IF j = i THEN Buffered(i) \cup {<<attempt, i, shot'[i]>>} ELSE Buffered(j)
      BY <1>5, BuffersStored
  <2>2. UNCHANGED <<attempt, stage, item, rows, orphans>> /\ item[i] = "image"
      BY <1>5 DEF StoreImage, handler, stored
  <2>3. stage = "collect" BY <2>2
  <2>4. AttemptInv' BY <2>2
  <2>5. ASSUME NEW j \in Items
        PROVE  /\ item[j] \in {"off", "ready"} => Buffered(j)' = {}
               /\ item[j] = "image" => \A im \in Buffered(j)' : im[1] = attempt /\ im[2] = j
    <3>1. CASE j = i BY <3>1, <2>1, <2>2
    <3>2. CASE j # i BY <3>2, <2>1, <2>3
    <3> QED BY <3>1, <3>2
  <2> QED BY <2>2, <2>4, <2>5
<1>6. ASSUME NEW i \in Items, Commit(i) \/ FailCommit(i) PROVE BufferInv' /\ AttemptInv'
  <2>1. /\ UNCHANGED <<attempt, stage>> /\ item[i] = "image"
        /\ \E to \in {"announce", "done"} : item' = [item EXCEPT ![i] = to]
        /\ rows' \cup orphans' \subseteq rows \cup orphans \cup Buffered(i)
      BY <1>6 DEF Commit, FailCommit, handler
  <2>2. \A j \in Items : Buffered(j)' = Buffered(j)
      BY <1>6, BuffersKept DEF Commit, FailCommit
  <2>3. BufferInv' BY <2>1, <2>2
  <2>4. AttemptInv'
    <3>1. ASSUME NEW im \in Buffered(i) PROVE im[1] = attempt /\ im[2] = i
        BY <2>1
    <3>2. ASSUME NEW im \in rows' \cup orphans', im \in Buffered(i)
          PROVE  im[1] <= attempt' /\ item'[im[2]] \in {"announce", "done"}
        BY <3>1, <3>2, <2>1
    <3>3. ASSUME NEW im \in rows \cup orphans
          PROVE  /\ im[1] <= attempt'
                 /\ stage' = "collect" /\ im[1] = attempt' => item'[im[2]] \in {"announce", "done"}
        BY <2>1
    <3> QED BY <2>1, <3>2, <3>3
  <2> QED BY <2>3, <2>4
<1>7. ASSUME NEW i \in Items, Announce(i) PROVE BufferInv' /\ AttemptInv'
  <2>1. UNCHANGED <<attempt, stage, rows, orphans>> /\ item[i] = "announce"
        /\ \E to \in {"announce", "done"} : item' = [item EXCEPT ![i] = to]
      BY <1>7 DEF Announce, handler
  <2>2. \A j \in Items \ {i} : Buffered(j)' = Buffered(j)
      BY <1>7, BuffersAnnounced
  <2> QED BY <2>1, <2>2
<1>8. CASE FinderCrash
  <2>1. stage' # "collect" /\ item' = [i \in Items |-> "off"]
        /\ UNCHANGED <<attempt, rows, orphans>>
      BY <1>8 DEF FinderCrash
  <2> QED BY <2>1
<1>9. CASE UNCHANGED finderVars
  <2>1. \A j \in Items : Buffered(j)' = Buffered(j)
      BY <1>9, BuffersKept DEF finderVars, storing
  <2> QED BY <1>9, <2>1 DEF finderVars, handler, storing, stored
<1> QED BY <1>1, <1>2, <1>3, <1>4, <1>5, <1>6, <1>7, <1>8, <1>9
        DEF FinderNext, FinderWork, Search, StoreStep, StoreFault

LEMMA BooksStep ==
    ASSUME CollectInv, [FinderNext]_finderVars
    PROVE  BooksInv'
<1> USE DEF CollectInv, CollectTypes, TasksInv, BooksInv, ItemStages
<1>1. ASSUME UNCHANGED stored, \A j \in Items : Buffered(j)' = Buffered(j),
             \A j \in Items : item'[j] = "announce" <=> item[j] = "announce"
      PROVE  BooksInv'
    BY <1>1 DEF stored
<1>2. CASE TakeRequest
  <2>1. \A j \in Items : item[j] # "announce" /\ item'[j] # "announce"
      BY <1>2 DEF TakeRequest
  <2> QED BY <1>2, <2>1 DEF TakeRequest, stored
<1>3. ASSUME NEW q \in Queries, NEW found \in SUBSET Found[q], Browse(q, found)
      PROVE  BooksInv'
  <2>1. \A i \in Items : item[i] # "off" => i \notin found
      BY <1>3, FoundOnce
  <2>2. \A j \in Items : Buffered(j)' = Buffered(j)
      BY <1>3, BuffersKept DEF Browse
  <2>3. UNCHANGED stored /\ \A j \in Items : item'[j] = "announce" <=> item[j] = "announce"
      BY <1>3, <2>1 DEF Browse
  <2> QED BY <2>2, <2>3, <1>1
<1>4. CASE HandlerStep \/ RaiseCollect \/ UNCHANGED finderVars
  <2>1. UNCHANGED <<storing, stored>>
      BY <1>4 DEF HandlerStep, Count, PublishCollected, PublishImagesBatch, AckRequest,
                  RaiseCollect, finderVars
  <2>2. \A j \in Items : Buffered(j)' = Buffered(j)
      BY <2>1, BuffersKept DEF storing
  <2> QED BY <2>1, <2>2, <1>1 DEF storing
<1>5. ASSUME NEW i \in Items, BeginStore(i) \/ FailStore(i) \/ SkipImage(i) \/ BreakImage(i)
      PROVE  BooksInv'
  <2>1. UNCHANGED stored /\ \A j \in Items : item'[j] = "announce" <=> item[j] = "announce"
      BY <1>5 DEF BeginStore, FailStore, SkipImage, BreakImage
  <2>2. \A j \in Items : Buffered(j)' = Buffered(j)
      BY <1>5, BuffersKept DEF BeginStore, FailStore, SkipImage, BreakImage
  <2> QED BY <2>1, <2>2, <1>1
<1>6. ASSUME NEW i \in Items, StoreImage(i) PROVE BooksInv'
  <2>1. UNCHANGED <<item, stored>> /\ item[i] = "image"
      BY <1>6 DEF StoreImage
  <2>2. \A j \in Items : item[j] = "announce" => Buffered(j)' = Buffered(j)
      BY <2>1, <1>6, BuffersStored
  <2> QED BY <2>1, <2>2 DEF stored
<1>7. ASSUME NEW i \in Items, item[i] = "image" PROVE Buffered(i) \cap (rows \cup orphans) = {}
  <2>1. stage = "collect" BY <1>7
  <2>2. ASSUME NEW im \in rows \cup orphans, im \in Buffered(i) PROVE FALSE
    <3>1. im[1] = attempt /\ im[2] = i BY <2>2, <1>7 DEF BufferInv
    <3> QED BY <3>1, <2>1, <2>2, <1>7 DEF AttemptInv
  <2> QED BY <2>2
<1>8. ASSUME NEW i \in Items, Commit(i) PROVE BooksInv'
  <2>1. /\ item[i] = "image" /\ UNCHANGED <<announced, lost>>
        /\ \/ item' = [item EXCEPT ![i] = "announce"]
           \/ item' = [item EXCEPT ![i] = "done"] /\ buffer[i] = <<>>
        /\ \/ rows' = rows \cup Buffered(i) /\ orphans' = orphans
           \/ orphans' = orphans \cup Buffered(i) /\ rows' = rows
      BY <1>8 DEF Commit
  <2>2. buffer[i] = <<>> => Buffered(i) = {}
      BY DEF Buffered
  <2>3. \A j \in Items : Buffered(j)' = Buffered(j)
      BY <1>8, BuffersKept DEF Commit
  <2>4. Buffered(i) \cap (rows \cup orphans) = {}
      BY <2>1, <1>7
  <2>5. (rows' \cap orphans' = {}) /\ lost' \subseteq rows' /\ announced' \subseteq rows' \cup orphans'
      BY <2>1, <2>4
  <2>6. \A j \in Items : item'[j] = "announce" => Buffered(j)' \subseteq rows' \cup orphans'
    <3>1. rows \cup orphans \cup Buffered(i) = rows' \cup orphans'
        BY <2>1
    <3>2. \A j \in Items \ {i} : item'[j] = item[j]
        BY <2>1
    <3> QED BY <3>1, <3>2, <2>3
  <2>7. ASSUME NEW im \in rows'
        PROVE  im \in announced' \cup lost'
               \/ \E j \in Items : item'[j] = "announce" /\ im \in Buffered(j)'
    <3>1. CASE im \in rows
      <4>1. ASSUME NEW j \in Items, item[j] = "announce" PROVE item'[j] = "announce"
          BY <2>1, <4>1
      <4> QED BY <3>1, <4>1, <2>1, <2>3
    <3>2. CASE im \in Buffered(i)
      <4>1. item'[i] = "announce" BY <3>2, <2>1, <2>2
      <4> QED BY <3>2, <4>1, <2>3
    <3> QED BY <3>1, <3>2, <2>1
  <2> QED BY <2>5, <2>6, <2>7
<1>9. ASSUME NEW i \in Items, FailCommit(i) PROVE BooksInv'
  <2>1. /\ item[i] = "image" /\ UNCHANGED <<announced, orphans>>
        /\ \A j \in Items : item'[j] = "announce" <=> item[j] = "announce"
        /\ \/ rows' = rows \cup Buffered(i) /\ lost' = lost \cup Buffered(i)
           \/ UNCHANGED <<rows, lost>>
      BY <1>9 DEF FailCommit
  <2>2. \A j \in Items : Buffered(j)' = Buffered(j)
      BY <1>9, BuffersKept DEF FailCommit
  <2>3. Buffered(i) \cap (rows \cup orphans) = {}
      BY <2>1, <1>7
  <2>4. CASE UNCHANGED <<rows, lost>>
      BY <2>4, <2>1, <2>2, <1>1 DEF stored
  <2>5. CASE rows' = rows \cup Buffered(i) /\ lost' = lost \cup Buffered(i)
      BY <2>5, <2>1, <2>2, <2>3
  <2> QED BY <2>1, <2>4, <2>5
<1>10. ASSUME NEW i \in Items, Announce(i) PROVE BooksInv'
  <2> DEFINE h == Head(buffer[i])
  <2>1. /\ item[i] = "announce" /\ UNCHANGED <<rows, orphans, lost>>
        /\ announced' = announced \cup {h}
        /\ item' = [item EXCEPT ![i] = IF Len(buffer[i]) = 1 THEN "done" ELSE "announce"]
      BY <1>10 DEF Announce
  <2>2. /\ Buffered(i) = {h} \cup Buffered(i)'
        /\ Len(buffer[i]) = 1 => Buffered(i) = {h}
        /\ \A j \in Items \ {i} : Buffered(j)' = Buffered(j)
      BY <1>10, BuffersAnnounced
  <2> HIDE DEF h
  <2>3. Buffered(i) \subseteq rows \cup orphans
      BY <2>1
  <2>4. \A j \in Items : item'[j] = "announce" => item[j] = "announce"
      BY <2>1
  <2>5. \A j \in Items : item'[j] = "announce" => Buffered(j)' \subseteq rows' \cup orphans'
      BY <2>1, <2>2, <2>3, <2>4
  <2>6. ASSUME NEW im \in rows
        PROVE  im \in announced' \cup lost'
               \/ \E j \in Items : item'[j] = "announce" /\ im \in Buffered(j)'
    <3>1. CASE im \in announced \cup lost BY <3>1, <2>1
    <3>2. CASE im \in Buffered(i)
      <4>1. CASE Len(buffer[i]) = 1 BY <4>1, <3>2, <2>1, <2>2
      <4>2. CASE Len(buffer[i]) # 1
        <5>1. item'[i] = "announce" BY <4>2, <2>1
        <5> QED BY <5>1, <3>2, <2>1, <2>2
      <4> QED BY <4>1, <4>2
    <3>3. ASSUME NEW j \in Items \ {i}, item[j] = "announce", im \in Buffered(j)
          PROVE  item'[j] = "announce" /\ im \in Buffered(j)'
        BY <3>3, <2>1, <2>2
    <3> QED BY <3>1, <3>2, <3>3
  <2> QED BY <2>1, <2>2, <2>3, <2>5, <2>6
<1>11. ASSUME NEW i \in Items, FailAnnounce(i) PROVE BooksInv'
  <2>1. /\ UNCHANGED <<rows, announced, orphans>> /\ lost' = lost \cup (Buffered(i) \cap rows)
        /\ item' = [item EXCEPT ![i] = "done"]
      BY <1>11 DEF FailAnnounce
  <2>2. \A j \in Items : Buffered(j)' = Buffered(j)
      BY <1>11, BuffersKept DEF FailAnnounce
  <2>3. \A j \in Items : item'[j] = "announce" <=> j # i /\ item[j] = "announce"
      BY <2>1
  <2> QED BY <2>1, <2>2, <2>3
<1>12. CASE FinderCrash
  <2> DEFINE gone == UNION {Buffered(i) \cap rows : i \in {j \in Items : item[j] = "announce"}}
  <2>1. /\ UNCHANGED <<rows, announced, orphans>> /\ lost' = lost \cup gone
        /\ item' = [i \in Items |-> "off"]
      BY <1>12 DEF FinderCrash
  <2>2. gone \subseteq rows OBVIOUS
  <2>3. ASSUME NEW im \in rows, NEW j \in Items, item[j] = "announce", im \in Buffered(j)
        PROVE  im \in gone
      BY <2>3
  <2> HIDE DEF gone
  <2> QED BY <2>1, <2>2, <2>3
<1> QED BY <1>2, <1>3, <1>4, <1>5, <1>6, <1>8, <1>9, <1>10, <1>11, <1>12
        DEF FinderNext, FinderWork, Search, StoreStep, StoreFault

LEMMA CollectStep == CollectInv /\ [FinderNext]_finderVars => CollectInv'
BY CollectTypesStep, TasksStep, AttemptStep, BooksStep DEF CollectInv

LEMMA FlowCollects == FlowSpec => []CollectInv
<1>1. FlowInit => CollectInv
    BY CollectInit DEF FlowInit
<1>2. CollectInv /\ [FlowNext]_flowVars => CollectInv'
    BY CollectStep DEF FlowNext, flowVars
<1> QED BY <1>1, <1>2, PTL DEF FlowSpec

\* An image is announced to the segmentor only after COMMIT: it has its row,
\* unless the server had rolled the transaction back
\* (product_collection_manager.py and image_storage_manager.py).
THEOREM ReadyBackedHolds == FlowSpec => []ReadyBacked
<1>1. CollectInv => ReadyBacked
    BY DEF CollectInv, BooksInv, ReadyBacked
<1> QED BY <1>1, FlowCollects, PTL

\* The batch total is the number of the job's rows, and these are what the
\* segmentor was sent, up to the images whose publish failed.
THEOREM TotalCountsReadyHolds == FlowSpec => []TotalCountsReady
<1>1. CollectInv => TotalCountsReady
  <2> SUFFICES ASSUME CollectInv, stage \in {"completed", "batch"}
               PROVE  total = Cardinality(rows) /\ rows = (announced \ orphans) \cup lost
      BY DEF TotalCountsReady
  <2>1. \A i \in Items : item[i] # "announce"
      BY DEF CollectInv, TasksInv
  <2> QED BY <2>1 DEF CollectInv, BooksInv, TotalInv
<1> QED BY <1>1, FlowCollects, PTL

-----------------------------------------------------------------------------
\* The segmentor

SegStages == {"idle", "next", "completed", "batched", "recheck", "mirror", "armed"}

\* The masked batches of a kind that are out, and the tasks about to publish one.
Sent(k) == {n \in DOMAIN maskedBatch : maskedBatch[n].kind = k}

Publishing(k) == {t \in SegTasks : spc[t] = "batched" /\ KindOf(t, timed) = k}

SentTypes ==
    /\ spc \in [SegTasks -> SegStages] /\ segCrashes \in Nat
    /\ maskedBatch \in Seq(Elements(maskedBatch))

\* A mark in "batched" pays for one batch: it is with the one task that will
\* publish it, spent on a batch that is out, or wasted.  A restart forgets it.
OnceInv ==
    \A k \in Kinds :
        /\ \A t, u \in Publishing(k) : t = u
        /\ Publishing(k) # {} => k \in batched
        /\ IsFiniteSet(Sent(k))
        /\ Cardinality(Sent(k)) <= segCrashes + (IF k \in batched /\ Publishing(k) = {}
                                                 THEN 1 ELSE 0)

SentInv == SentTypes /\ OnceInv

LEMMA SentInit == SegmentorInit => SentInv
<1> SUFFICES ASSUME SegmentorInit PROVE SentInv
    OBVIOUS
<1>1. SentTypes
    BY DEF SegmentorInit, SentTypes, SegStages, Elements
<1>2. \A k \in Kinds : Sent(k) = {} /\ Publishing(k) = {}
    BY DEF SegmentorInit, Sent, Publishing
<1>3. IsFiniteSet({}) /\ Cardinality({}) = 0
    BY FS_EmptySet
<1>4. segCrashes = 0 /\ batched = {}
    BY DEF SegmentorInit
<1> QED BY <1>1, <1>2, <1>3, <1>4 DEF SentInv, OnceInv

\* A step that publishes nothing and marks nothing.
SentQuiet ==
    /\ UNCHANGED <<maskedBatch, batched, segCrashes>>
    /\ \A t \in SegTasks :
        spc'[t] = "batched" => spc[t] = "batched" /\ KindOf(t, timed') = KindOf(t, timed)

\* A task takes the mark of a kind that has none.
SentMark(t) ==
    LET k == KindOf(t, timed) IN
    /\ UNCHANGED <<maskedBatch, segCrashes, timed>>
    /\ k \notin batched /\ batched' = batched \cup {k}
    /\ \A u \in SegTasks \ {t} : spc'[u] = "batched" => spc[u] = "batched"

LEMMA QuietOnce == ASSUME SentInv, SentQuiet PROVE OnceInv'
<1>1. \A k \in Kinds : Sent(k)' = Sent(k) /\ Publishing(k)' \subseteq Publishing(k)
    BY DEF SentQuiet, Sent, Publishing
<1>2. ASSUME NEW k \in Kinds
      PROVE  Cardinality(Sent(k)) \in Nat
    BY FS_CardinalityType DEF SentInv, OnceInv
<1>3. batched' = batched /\ segCrashes' = segCrashes /\ segCrashes \in Nat
    BY DEF SentQuiet, SentInv, SentTypes
<1> QED BY <1>1, <1>2, <1>3 DEF OnceInv, SentInv

LEMMA MarkOnce == ASSUME SentInv, NEW m \in SegTasks, SentMark(m) PROVE OnceInv'
<1> DEFINE mk == KindOf(m, timed)
<1>1. \A k \in Kinds : Sent(k)' = Sent(k)
    BY DEF SentMark, Sent
<1>2. \A k \in Kinds : Publishing(k)' \subseteq Publishing(k) \cup (IF k = mk THEN {m} ELSE {})
    BY DEF SentMark, Publishing
<1>3. mk \notin batched /\ batched' = batched \cup {mk} /\ segCrashes' = segCrashes
      /\ segCrashes \in Nat
    BY DEF SentMark, SentInv, SentTypes
<1> HIDE DEF mk
<1>4. SUFFICES ASSUME NEW k \in Kinds
      PROVE  /\ \A t, u \in Publishing(k)' : t = u
             /\ Publishing(k)' # {} => k \in batched'
             /\ IsFiniteSet(Sent(k))
             /\ Cardinality(Sent(k)) <= segCrashes + (IF k \in batched' /\ Publishing(k)' = {}
                                                      THEN 1 ELSE 0)
    BY <1>1, <1>3 DEF OnceInv
<1>5. Cardinality(Sent(k)) \in Nat
    BY FS_CardinalityType DEF SentInv, OnceInv
<1>6. CASE k = mk
  <2>1. Publishing(k) = {} BY <1>3, <1>6 DEF SentInv, OnceInv
  <2>2. Publishing(k)' \subseteq {m} BY <2>1, <1>2, <1>6
  <2>3. k \notin batched BY <1>3, <1>6
  <2>4. Cardinality(Sent(k)) <= segCrashes
      BY <2>3, <1>3 DEF SentInv, OnceInv
  <2> QED BY <2>2, <2>4, <1>3, <1>5, <1>6 DEF SentInv, OnceInv
<1>7. CASE k # mk
  <2>1. Publishing(k)' \subseteq Publishing(k) BY <1>2, <1>7
  <2>2. k \in batched' <=> k \in batched BY <1>3, <1>7
  <2> QED BY <2>1, <2>2, <1>3, <1>5 DEF SentInv, OnceInv
<1> QED BY <1>6, <1>7

LEMMA SendOnce ==
    ASSUME SentInv, NEW m \in SegTasks, PublishMaskedBatch(m)
    PROVE  OnceInv' /\ maskedBatch' \in Seq(Elements(maskedBatch'))
<1> DEFINE mk == KindOf(m, timed)
           e  == [kind |-> mk, count |-> claimed[m].done]
           L  == Len(maskedBatch)
           S  == Elements(maskedBatch) \cup {e}
<1>1. maskedBatch' = Append(maskedBatch, e) /\ e.kind = mk
      /\ UNCHANGED <<batched, segCrashes, timed>> /\ spc[m] = "batched"
      /\ spc' = [spc EXCEPT ![m] = Rest(m)]
    BY DEF PublishMaskedBatch, segMemory, segBound
<1>2. Rest(m) \in SegStages \ {"batched"}
    BY DEF Rest, SegStages
<1>3. maskedBatch \in Seq(S) /\ e \in S
    BY DEF SentInv, SentTypes
<1> HIDE DEF e, S
<1>4. Append(maskedBatch, e) \in Seq(S)
      /\ Elements(Append(maskedBatch, e)) = Elements(maskedBatch) \cup {e}
    BY <1>3, AppendElements
<1>5. maskedBatch' \in Seq(Elements(maskedBatch'))
    BY <1>1, <1>4 DEF S
<1>6. L \in Nat /\ DOMAIN maskedBatch = 1..L /\ DOMAIN maskedBatch' = 1..L+1
      /\ maskedBatch'[L+1] = e /\ \A n \in 1..L : maskedBatch'[n] = maskedBatch[n]
    BY <1>1, <1>3
<1>7. ASSUME NEW k \in Kinds
      PROVE  Sent(k)' = IF k = mk THEN Sent(k) \cup {L+1} ELSE Sent(k)
    BY <1>6, <1>1 DEF Sent
<1>8. ASSUME NEW k \in Kinds PROVE Publishing(k)' = Publishing(k) \ {m}
    BY <1>1, <1>2 DEF Publishing, SentInv, SentTypes
<1>9. ASSUME NEW k \in Kinds
      PROVE  Cardinality(Sent(k)) \in Nat /\ IsFiniteSet(Sent(k)) /\ L+1 \notin Sent(k)
  <2>1. IsFiniteSet(Sent(k)) BY DEF SentInv, OnceInv
  <2>2. Cardinality(Sent(k)) \in Nat BY <2>1, FS_CardinalityType
  <2>3. L+1 \notin Sent(k) BY <1>6 DEF Sent
  <2> QED BY <2>1, <2>2, <2>3
<1>10. batched' = batched /\ segCrashes' = segCrashes /\ segCrashes \in Nat
    BY <1>1 DEF SentInv, SentTypes
<1> HIDE DEF mk, L
<1>11. SUFFICES ASSUME NEW k \in Kinds
       PROVE  /\ \A t, u \in Publishing(k)' : t = u
              /\ Publishing(k)' # {} => k \in batched
              /\ IsFiniteSet(Sent(k)')
              /\ Cardinality(Sent(k)') <= segCrashes + (IF k \in batched /\ Publishing(k)' = {}
                                                        THEN 1 ELSE 0)
    BY <1>5, <1>10 DEF OnceInv
<1>12. CASE k = mk
  <2>1. m \in Publishing(k) BY <1>1, <1>12 DEF Publishing, mk
  <2>2. Publishing(k)' = {} /\ k \in batched
      BY <2>1, <1>8 DEF SentInv, OnceInv
  <2>3. IsFiniteSet(Sent(k)') /\ Cardinality(Sent(k)') = Cardinality(Sent(k)) + 1
      BY <1>7, <1>9, <1>12, FS_AddElement
  <2>4. Cardinality(Sent(k)) <= segCrashes
      BY <2>1, <1>9, <1>10 DEF SentInv, OnceInv
  <2> QED BY <2>2, <2>3, <2>4, <1>9, <1>10
<1>13. CASE k # mk
  <2>1. Sent(k)' = Sent(k) BY <1>7, <1>13
  <2>2. m \notin Publishing(k) BY <1>13 DEF Publishing, mk
  <2> QED BY <2>1, <2>2, <1>8, <1>9, <1>10 DEF SentInv, OnceInv
<1> QED BY <1>12, <1>13

\* Tasks for asset messages are not those for batch messages, nor the timer.
LEMMA TaskKinds ==
    ASSUME NEW k \in Kinds
    PROVE  /\ BatchTask(k) \in SegTasks /\ BatchTask(k) # "timer" /\ "timer" \in SegTasks
           /\ \A found : KindOf(BatchTask(k), found) = k
           /\ \A t \in SegTasks \ {"timer"} : \A f, g : KindOf(t, f) = KindOf(t, g)
<1>1. BatchTask(k) \in BatchTasks /\ "timer" \notin SegWorkers /\ BatchTask(k) \notin SegWorkers
    BY SegmentorAssumption DEF BatchTasks
<1>2. k \in {"image", "video"} /\ BatchTask(k) = IF k = "image" THEN "imageBatch" ELSE "videoBatch"
    BY DEF Kinds, BatchTask
<1> QED BY <1>1, <1>2 DEF SegTasks, KindOf, SegWorkers

LEMMA SentStep ==
    ASSUME SentInv, [SegmentorNext]_segVars
    PROVE  SentInv'
<1> USE DEF SentTypes, SegStages
<1>0. SentTypes BY DEF SentInv
<1>q. ASSUME SentTypes', UNCHANGED maskedBatch, SentQuiet PROVE SentInv'
    BY <1>q, QuietOnce DEF SentInv
<1>1. ASSUME NEW w \in SegWorkers,
             \/ \E im \in readyImages : TakeImage(w, im)
             \/ \E m \in readyVideos : TakeVideo(w, m)
             \/ EmitMasked(w) \/ AckAssets(w) \/ RaiseAssets(w)
             \/ \E x \in left[w] : LoseAsset(w, x)
      PROVE  SentInv'
  <2>1. /\ UNCHANGED <<maskedBatch, batched, segCrashes, timed>>
        /\ \/ spc' = spc \/ spc' = [spc EXCEPT ![w] = "next"] \/ spc' = [spc EXCEPT ![w] = "idle"]
      BY <1>1 DEF TakeImage, TakeVideo, EmitMasked, AckAssets, RaiseAssets, LoseAsset,
                  segMemory, segTask, segOut, segPast, segBound, SegFault
  <2>2. SentTypes' /\ SentQuiet
      BY <2>1, <1>0 DEF SentQuiet
  <2> QED BY <2>1, <2>2, <1>q
<1>2. ASSUME NEW w \in SegWorkers, NEW x \in left[w], MaskAsset(w, x) PROVE SentInv'
  <2>1. /\ UNCHANGED <<maskedBatch, batched, segCrashes, timed>>
        /\ spc' = [spc EXCEPT ![w] = "next"] \/ spc' = [spc EXCEPT ![w] = "completed"]
      BY <1>2 DEF MaskAsset, Conclude, segPast, segBound
  <2>2. SentTypes' /\ SentQuiet
      BY <2>1, <1>0 DEF SentQuiet
  <2> QED BY <2>1, <2>2, <1>q
<1>3. ASSUME NEW k \in Kinds, Recheck(k) \/ Mirror(k) \/ RaiseBatch(k) PROVE SentInv'
  <2>1. /\ UNCHANGED <<maskedBatch, batched, segCrashes, timed>>
        /\ \E to \in {"completed", "mirror", "idle"} : spc' = [spc EXCEPT ![BatchTask(k)] = to]
      BY <1>3 DEF Recheck, Conclude, Mirror, RaiseBatch, segMemory, segOut, segPast, segBound,
                  SegFault
  <2>2. SentTypes' /\ SentQuiet
      BY <2>1, <1>0 DEF SentQuiet
  <2> QED BY <2>1, <2>2, <1>q
<1>4. CASE Expire \/ TimerDies
  <2>1. /\ UNCHANGED <<maskedBatch, batched, segCrashes>>
        /\ \E to \in {"completed", "idle"} : spc' = [spc EXCEPT !["timer"] = to]
      BY <1>4 DEF Expire, TimerDies, segMemory, segOut, segPast, segBound, SegFault
  <2>2. SentTypes'
      BY <2>1, <1>0
  <2>3. ASSUME NEW t \in SegTasks, spc'[t] = "batched"
        PROVE  spc[t] = "batched" /\ KindOf(t, timed') = KindOf(t, timed)
    <3>1. t # "timer" /\ spc'[t] = spc[t]
        BY <2>1, <2>3, <1>0
    <3> QED BY <3>1, <2>3, TaskKinds DEF Kinds
  <2> QED BY <2>1, <2>2, <2>3, <1>q DEF SentQuiet
<1>5. ASSUME NEW k \in Kinds, NEW sum, AnnounceTotal(k, sum), spc[BatchTask(k)] = "idle",
             UNCHANGED <<maskedBatch, segCrashes, timed>>
      PROVE  SentInv'
  <2> DEFINE t == BatchTask(k)
  <2>1. t \in SegTasks /\ t # "timer" /\ "timer" \in SegTasks /\ KindOf(t, timed) = k
      BY TaskKinds
  <2>2. /\ \E to \in SegStages : spc' = [spc EXCEPT ![t] = to, !["timer"] = "armed"]
        /\ \/ batched' = batched /\ spc'[t] # "batched"
           \/ k \notin batched /\ batched' = batched \cup {k}
    <3> HIDE DEF t
    <3>1. CASE sum = 0
        BY <3>1, <1>5, <1>0, <2>1 DEF AnnounceTotal, t
    <3>2. CASE sum # 0
        BY <3>2, <1>5, <1>0, <2>1 DEF AnnounceTotal, t
    <3> QED BY <3>1, <3>2
  <2>3. SentTypes' /\ \A u \in SegTasks \ {t} : spc'[u] = "batched" => spc[u] = "batched"
      BY <2>1, <2>2, <1>0, <1>5
  <2>4. CASE batched' = batched /\ spc'[t] # "batched"
    <3>1. SentQuiet BY <2>3, <2>4, <1>5 DEF SentQuiet
    <3> QED BY <3>1, <2>3, <1>5, <1>q
  <2>5. CASE k \notin batched /\ batched' = batched \cup {k}
    <3>1. SentMark(t) BY <2>1, <2>3, <2>5, <1>5 DEF SentMark
    <3> QED BY <3>1, <2>1, <2>3, MarkOnce DEF SentInv
  <2> QED BY <2>2, <2>4, <2>5
<1>6. ASSUME NEW b, TakeImagesBatch(b) PROVE SentInv'
    BY <1>6, <1>5 DEF TakeImagesBatch, segOut, segBound, Kinds, BatchTask
<1>7. ASSUME NEW b, TakeVideosBatch(b) PROVE SentInv'
  <2>1. CASE b.id \in seen
    <3>1. UNCHANGED <<maskedBatch, batched, segCrashes, timed, spc>>
        BY <1>7, <2>1 DEF TakeVideosBatch, segOut, segBound
    <3> QED BY <3>1, <1>0, <1>q DEF SentQuiet
  <2>2. CASE b.id \notin seen
      BY <1>7, <2>2, <1>5 DEF TakeVideosBatch, segOut, segBound, Kinds, BatchTask
  <2> QED BY <2>1, <2>2
<1>8. ASSUME NEW t \in SegTasks, PublishSegmented(t) PROVE SentInv'
  <2>1. Rest(t) \in SegStages \ {"batched"}
      BY DEF Rest
  <2>2. CASE KindOf(t, timed) \in batched
    <3>1. UNCHANGED <<maskedBatch, batched, segCrashes, timed>> /\ spc' = [spc EXCEPT ![t] = Rest(t)]
        BY <1>8, <2>2 DEF PublishSegmented, segOut, segBound
    <3>2. SentTypes' /\ SentQuiet
        BY <3>1, <2>1, <1>0 DEF SentQuiet
    <3> QED BY <3>1, <3>2, <1>q
  <2>3. CASE KindOf(t, timed) \notin batched
    <3>1. /\ UNCHANGED <<maskedBatch, segCrashes, timed>> /\ spc' = [spc EXCEPT ![t] = "batched"]
          /\ batched' = batched \cup {KindOf(t, timed)}
        BY <1>8, <2>3 DEF PublishSegmented, segOut, segBound
    <3>2. SentTypes' /\ SentMark(t)
        BY <3>1, <2>3, <1>0 DEF SentMark
    <3> QED BY <3>2, MarkOnce DEF SentInv
  <2> QED BY <2>2, <2>3
<1>9. ASSUME NEW t \in SegTasks, PublishMaskedBatch(t) PROVE SentInv'
  <2>1. Rest(t) \in SegStages
      BY DEF Rest
  <2>2. UNCHANGED segCrashes /\ spc' \in [SegTasks -> SegStages]
      BY <2>1, <1>9, <1>0 DEF PublishMaskedBatch, segBound
  <2> QED BY <2>2, <1>0, <1>9, SendOnce DEF SentInv
<1>10. CASE SegCrash
  <2>1. /\ segCrashes' = segCrashes + 1 /\ maskedBatch' = maskedBatch /\ batched' = {}
        /\ spc' = [t \in SegTasks |-> "idle"]
      BY <1>10 DEF SegCrash, ForgetAll, segOut
  <2>2. SentTypes'
      BY <2>1, <1>0
  <2>3. ASSUME NEW k \in Kinds PROVE Sent(k)' = Sent(k) /\ Publishing(k)' = {}
      BY <2>1 DEF Sent, Publishing
  <2>4. ASSUME NEW k \in Kinds
        PROVE  IsFiniteSet(Sent(k)) /\ Cardinality(Sent(k)) <= segCrashes + 1
    <3>1. IsFiniteSet(Sent(k)) /\ Cardinality(Sent(k)) \in Nat /\ segCrashes \in Nat
        BY <1>0, FS_CardinalityType DEF SentInv, OnceInv
    <3> QED BY <3>1 DEF SentInv, OnceInv
  <2>5. OnceInv'
    <3>1. ASSUME NEW k \in Kinds
          PROVE  Cardinality(Sent(k)') <= segCrashes' + (IF k \in batched' /\ Publishing(k)' = {}
                                                         THEN 1 ELSE 0)
        BY <2>1, <2>3, <2>4
    <3> QED BY <3>1, <2>3, <2>4 DEF OnceInv
  <2> QED BY <2>2, <2>5 DEF SentInv
<1>11. CASE UNCHANGED segVars
  <2>1. UNCHANGED <<maskedBatch, batched, segCrashes, timed, spc>>
      BY <1>11 DEF segVars, segMemory, segTask, segOut, segBound
  <2> QED BY <2>1, <1>0, <1>q DEF SentQuiet
<1>12. ImageWorkers \subseteq SegWorkers /\ VideoWorkers \subseteq SegWorkers
    BY DEF SegWorkers
<1> QED BY <1>1, <1>2, <1>3, <1>4, <1>6, <1>7, <1>8, <1>9, <1>10, <1>11, <1>12
        DEF SegmentorNext, SegmentorWork, Deliver, WorkerStep, SegPublish, BatchStep

\* A kind has one masked batch in the life of a process, whichever of progress,
\* recheck, a total of zero or the timer comes first (_completion_events_sent
\* of the job progress manager).
THEOREM OneMaskedBatchHolds == FlowSpec => []OneMaskedBatch
<1>1. FlowInit => SentInv
    BY SentInit DEF FlowInit
<1>2. SentInv /\ [FlowNext]_flowVars => SentInv'
    BY SentStep DEF FlowNext, flowVars
<1>3. SentInv => OneMaskedBatch
  <2> SUFFICES ASSUME SentInv, NEW k \in Kinds PROVE Cardinality(Sent(k)) <= 1 + segCrashes
      BY DEF OneMaskedBatch, Sent
  <2>1. Cardinality(Sent(k)) \in Nat /\ segCrashes \in Nat
      BY FS_CardinalityType DEF SentInv, SentTypes, OnceInv
  <2> QED BY <2>1 DEF SentInv, OnceInv
<1> QED BY <1>1, <1>2, <1>3, PTL DEF FlowSpec

-----------------------------------------------------------------------------
\* An image is announced once

NoTwice(s) == \A m, n \in DOMAIN s : s[m] = s[n] => m = n

LEMMA TailOnce ==
    ASSUME NEW S, NEW s \in Seq(S), s # <<>>, NoTwice(s)
    PROVE  NoTwice(Tail(s)) /\ Head(s) \notin Elements(Tail(s))
<1>1. Len(s) \in Nat \ {0} /\ Head(s) = s[1] /\ DOMAIN s = 1..Len(s)
    OBVIOUS
<1>2. DOMAIN Tail(s) = 1..Len(s)-1 /\ \A n \in 1..Len(s)-1 : Tail(s)[n] = s[n+1]
    OBVIOUS
<1>3. ASSUME NEW n \in DOMAIN Tail(s) PROVE n+1 \in DOMAIN s /\ n+1 # 1 /\ Tail(s)[n] = s[n+1]
    BY <1>1, <1>2
<1>4. Head(s) \notin Elements(Tail(s))
    BY <1>1, <1>3 DEF Elements, NoTwice
<1>5. ASSUME NEW m \in DOMAIN Tail(s), NEW n \in DOMAIN Tail(s), Tail(s)[m] = Tail(s)[n]
      PROVE  m = n
  <2>1. m+1 = n+1 BY <1>3, <1>5 DEF NoTwice
  <2> QED BY <2>1, <1>2
<1> QED BY <1>4, <1>5 DEF NoTwice

LEMMA AppendOnce ==
    ASSUME NEW S, NEW s \in Seq(S), NEW e \in S, NoTwice(s), e \notin Elements(s)
    PROVE  NoTwice(Append(s, e))
<1>1. DOMAIN Append(s, e) = 1..Len(s)+1 /\ DOMAIN s = 1..Len(s) /\ Len(s) \in Nat
    OBVIOUS
<1>2. Append(s, e)[Len(s)+1] = e /\ \A n \in 1..Len(s) : Append(s, e)[n] = s[n]
    OBVIOUS
<1>3. \A n \in 1..Len(s) : s[n] # e
    BY <1>1 DEF Elements
<1> QED BY <1>1, <1>2, <1>3 DEF NoTwice

\* What a task has in its buffer it has once, and nobody has announced it.
FreshInv ==
    \A i \in Items : item[i] \in {"image", "announce"} =>
        /\ NoTwice(buffer[i])
        /\ \A im \in Buffered(i) :
            im[1] = attempt /\ im[2] = i /\ im[3] <= shot[i] /\ im \notin announced

LEMMA FreshStep ==
    ASSUME CollectInv, FreshInv, [FinderNext]_finderVars
    PROVE  FreshInv'
<1> USE DEF FreshInv
<1>0. CollectTypes /\ TasksInv
    BY DEF CollectInv
<1>1. ASSUME UNCHANGED <<attempt, shot, buffer, announced>>,
             \A j \in Items : item'[j] \in {"image", "announce"}
                              => item[j] \in {"image", "announce"}
      PROVE  FreshInv'
    BY <1>1 DEF Buffered
<1>2. CASE TakeRequest BY <1>2 DEF TakeRequest
<1>3. ASSUME NEW q \in Queries, NEW found \in SUBSET Found[q], Browse(q, found)
      PROVE  FreshInv'
    BY <1>3, <1>1 DEF Browse, stored
<1>4. CASE HandlerStep \/ RaiseCollect \/ UNCHANGED finderVars
    BY <1>4, <1>1 DEF HandlerStep, Count, PublishCollected, PublishImagesBatch, AckRequest,
                      RaiseCollect, finderVars, handler, storing, stored
<1>5. ASSUME NEW i \in Items,
             Commit(i) \/ FailCommit(i) \/ FailStore(i) \/ FailAnnounce(i)
      PROVE  FreshInv'
  <2>1. /\ UNCHANGED <<attempt, shot, buffer, announced>>
        /\ \/ item' = [item EXCEPT ![i] = "done"]
           \/ item[i] = "image" /\ item' = [item EXCEPT ![i] = "announce"]
      BY <1>5 DEF Commit, FailCommit, FailStore, FailAnnounce, handler, stored
  <2>2. ASSUME NEW j \in Items, item'[j] \in {"image", "announce"}
        PROVE  item[j] \in {"image", "announce"}
      BY <2>1, <2>2, <1>0 DEF CollectTypes
  <2> QED BY <2>1, <2>2, <1>1
<1>6. ASSUME NEW i \in Items, BeginStore(i) PROVE FreshInv'
  <2>1. /\ UNCHANGED <<attempt, shot, buffer, announced, stage>> /\ item[i] = "ready"
        /\ item' = [item EXCEPT ![i] = "image"]
      BY <1>6 DEF BeginStore, handler, stored
  <2>2. stage = "collect"
      BY <2>1, <1>0 DEF TasksInv
  <2>3. Buffered(i) = {}
      BY <2>1, <2>2 DEF CollectInv, BufferInv
  <2>4. NoTwice(buffer[i])
      BY <2>3 DEF Buffered, NoTwice
  <2>5. \A j \in Items : Buffered(j)' = Buffered(j)
      BY <2>1, BuffersKept
  <2>6. \A j \in Items \ {i} : item'[j] = item[j]
      BY <2>1, <1>0 DEF CollectTypes
  <2> QED BY <2>1, <2>3, <2>4, <2>5, <2>6
<1>7. ASSUME NEW i \in Items, SkipImage(i) \/ BreakImage(i) PROVE FreshInv'
  <2>1. UNCHANGED <<attempt, item, buffer, announced>> /\ shot' = [shot EXCEPT ![i] = @ + 1]
      BY <1>7 DEF SkipImage, BreakImage, handler, stored
  <2>2. \A j \in Items : shot[j] \in Nat /\ shot'[j] \in Nat /\ shot[j] <= shot'[j]
      BY <2>1, <1>0 DEF CollectTypes
  <2>3. ASSUME NEW j \in Items PROVE \A im \in Buffered(j) : im[3] \in Nat
      BY <1>0 DEF CollectTypes, Buffered
  <2>4. \A j \in Items : Buffered(j)' = Buffered(j)
      BY <2>1, BuffersKept
  <2>5. ASSUME NEW j \in Items, NEW im \in Buffered(j), im[3] <= shot[j]
        PROVE  im[3] <= shot'[j]
      BY <2>2, <2>3, <2>5
  <2> QED BY <2>1, <2>4, <2>5
<1>8. ASSUME NEW i \in Items, StoreImage(i) PROVE FreshInv'
  <2> DEFINE e == <<attempt, i, shot'[i]>>
  <2>1. /\ UNCHANGED <<attempt, stage, item, announced>> /\ item[i] = "image"
        /\ shot' = [shot EXCEPT ![i] = @ + 1]
        /\ buffer' = [buffer EXCEPT ![i] = Append(@, e)]
      BY <1>8 DEF StoreImage, handler, stored
  <2>2. /\ shot[i] \in Nat /\ shot'[i] = shot[i] + 1 /\ attempt \in Nat
        /\ \A j \in Items \ {i} : shot'[j] = shot[j] /\ buffer'[j] = buffer[j]
        /\ buffer[i] \in Seq(Nat \X Items \X Nat) /\ buffer'[i] = Append(buffer[i], e)
      BY <2>1, <1>0 DEF CollectTypes
  <2>3. e \in Nat \X Items \X Nat
      BY <2>2
  <2>4. e[1] = attempt /\ e[2] = i /\ e[3] = shot[i] + 1
      BY <2>2
  <2> HIDE DEF e
  <2>5. ASSUME NEW im \in Buffered(i)
        PROVE  im[3] \in Nat /\ im[3] <= shot[i]
    <3>1. im \in Nat \X Items \X Nat BY <2>2 DEF Buffered
    <3> QED BY <3>1, <2>1
  <2>6. e \notin Buffered(i) /\ \A im \in Buffered(i) : im[3] <= shot'[i]
    <3>1. ASSUME NEW im \in Buffered(i) PROVE im # e /\ im[3] <= shot'[i]
        BY <2>2, <2>4, <2>5
    <3> QED BY <3>1
  <2>7. e \notin announced
    <3>1. stage = "collect" BY <2>1, <1>0 DEF TasksInv
    <3> QED BY <3>1, <2>1, <2>4 DEF CollectInv, AttemptInv, BooksInv
  <2>8. NoTwice(buffer'[i])
    <3>1. e \notin Elements(buffer[i]) BY <2>6 DEF Buffered, Elements
    <3> QED BY <3>1, <2>1, <2>2, <2>3, AppendOnce
  <2>9. Buffered(i)' = Buffered(i) \cup {e}
      BY <1>0, <1>8, BuffersStored DEF e
  <2>10. ASSUME NEW im \in Buffered(i)'
         PROVE  im[1] = attempt /\ im[2] = i /\ im[3] <= shot'[i] /\ im \notin announced
    <3>1. CASE im = e BY <3>1, <2>2, <2>4, <2>7
    <3>2. CASE im \in Buffered(i) BY <3>2, <2>1, <2>6
    <3> QED BY <3>1, <3>2, <2>9
  <2>11. \A j \in Items \ {i} : Buffered(j)' = Buffered(j)
      BY <2>2 DEF Buffered
  <2> QED BY <2>1, <2>2, <2>8, <2>10, <2>11
<1>9. ASSUME NEW i \in Items, Announce(i) PROVE FreshInv'
  <2> DEFINE h == Head(buffer[i])
  <2>1. /\ UNCHANGED <<attempt, shot>> /\ item[i] = "announce"
        /\ announced' = announced \cup {h}
        /\ buffer' = [buffer EXCEPT ![i] = Tail(buffer[i])]
        /\ \E to \in {"done", "announce"} : item' = [item EXCEPT ![i] = to]
      BY <1>9 DEF Announce, handler
  <2>2. buffer[i] \in Seq(Nat \X Items \X Nat) /\ buffer[i] # <<>> /\ NoTwice(buffer[i])
      BY <1>0, <2>1 DEF CollectTypes
  <2>3. NoTwice(Tail(buffer[i])) /\ h \notin Elements(Tail(buffer[i]))
      BY <2>2, TailOnce
  <2>4. buffer'[i] = Tail(buffer[i]) /\ \A j \in Items \ {i} : buffer'[j] = buffer[j]
      BY <2>1, <1>0 DEF CollectTypes
  <2>5. Buffered(i) = {h} \cup Buffered(i)' /\ \A j \in Items \ {i} : Buffered(j)' = Buffered(j)
      BY <1>0, <1>9, BuffersAnnounced
  <2>6. h \notin Buffered(i)'
      BY <2>3, <2>4 DEF Buffered, Elements
  <2> HIDE DEF h
  <2>7. h[2] = i /\ \A j \in Items : item'[j] \in {"image", "announce"}
                                     => item[j] \in {"image", "announce"}
      BY <2>1, <2>5, <1>0 DEF CollectTypes
  <2>8. ASSUME NEW j \in Items, item'[j] \in {"image", "announce"}, NEW im \in Buffered(j)'
        PROVE  im[1] = attempt /\ im[2] = j /\ im[3] <= shot[j] /\ im \notin announced'
    <3>1. CASE j = i BY <3>1, <2>1, <2>5, <2>6, <2>7, <2>8
    <3>2. CASE j # i BY <3>2, <2>1, <2>5, <2>7, <2>8
    <3> QED BY <3>1, <3>2
  <2>9. ASSUME NEW j \in Items, item'[j] \in {"image", "announce"} PROVE NoTwice(buffer'[j])
      BY <2>3, <2>4, <2>7, <2>9
  <2> QED BY <2>1, <2>8, <2>9
<1>10. CASE FinderCrash BY <1>10 DEF FinderCrash
<1> QED BY <1>2, <1>3, <1>4, <1>5, <1>6, <1>7, <1>8, <1>9, <1>10
        DEF FinderNext, FinderWork, Search, StoreStep, StoreFault

\* What a step of the collector puts on the bus for the asset handlers: one
\* image, announced for the first time, or nothing.
LEMMA NewImage ==
    ASSUME CollectInv, FreshInv, FinderNext
    PROVE  /\ UNCHANGED readyVideos
           /\ \/ UNCHANGED <<readyImages, announced>>
              \/ \E im \in Nat \X Items \X Nat :
                    /\ im \notin announced /\ announced' = announced \cup {im}
                    /\ readyImages' = readyImages \cup {im}
<1>1. ASSUME NEW i \in Items, Announce(i)
      PROVE  \E im \in Nat \X Items \X Nat :
                    /\ im \notin announced /\ announced' = announced \cup {im}
                    /\ readyImages' = readyImages \cup {im}
  <2>1. buffer[i] \in Seq(Nat \X Items \X Nat) /\ buffer[i] # <<>> /\ CollectTypes
      BY <1>1 DEF Announce, CollectInv, CollectTypes
  <2>2. Head(buffer[i]) \in Nat \X Items \X Nat
      BY <2>1, TailType
  <2>3. Head(buffer[i]) \in Buffered(i)
      BY <1>1, <2>1, BuffersAnnounced
  <2> QED BY <1>1, <2>2, <2>3 DEF Announce, FreshInv
<1>2. ASSUME NEW i \in Items, Announce(i) PROVE UNCHANGED readyVideos
    BY <1>2 DEF Announce
<1>3. ASSUME NEW i \in Items, StoreStep(i) \/ StoreFault(i), ~Announce(i)
      PROVE  UNCHANGED <<readyVideos, readyImages, announced>>
    BY <1>3 DEF StoreStep, StoreFault, BeginStore, SkipImage, StoreImage, Commit, FailStore,
                BreakImage, FailCommit, FailAnnounce, stored, bus
<1>4. CASE TakeRequest \/ Search \/ HandlerStep \/ RaiseCollect \/ FinderCrash
    BY <1>4 DEF TakeRequest, Search, Browse, HandlerStep, Count, PublishCollected,
                PublishImagesBatch, AckRequest, RaiseCollect, FinderCrash, stored, bus
<1> QED BY <1>1, <1>2, <1>3, <1>4 DEF FinderNext, FinderWork

-----------------------------------------------------------------------------
\* An asset is in one place

Workers(k) == IF k = "image" THEN ImageWorkers ELSE VideoWorkers

Ready(k) == IF k = "image" THEN readyImages ELSE UNION readyVideos

\* Assets of a kind still to be masked; those that are masked for good.
ToMask(k) == Ready(k) \cup UNION {left[w] : w \in Workers(k)}

Settled(k) == MasksOf(k) \ ToMask(k)

\* Assets of a kind, as far as they are on the bus by now.
Assets(k) == IF k = "image" THEN announced ELSE Frames

HoldTypes ==
    /\ DOMAIN smsg = SegTasks /\ DOMAIN left = SegWorkers /\ DOMAIN spc = SegTasks
    /\ \A w \in SegWorkers : IsFiniteSet(smsg[w]) /\ left[w] \subseteq smsg[w]

HoldInv ==
    /\ HoldTypes
    /\ announced \cap Frames = {} /\ masks \ Frames \subseteq announced
    /\ \A m \in readyVideos : IsFiniteSet(m)
    /\ \A m, n \in readyVideos : m # n => m \cap n = {}
    /\ \A w \in SegWorkers : spc[w] = "idle" => smsg[w] = {}
    /\ \A k \in Kinds :
        /\ Ready(k) \subseteq Assets(k)
        /\ \A w \in Workers(k) : smsg[w] \subseteq Assets(k) \ Ready(k)
        /\ \A w, u \in Workers(k) : w # u => smsg[w] \cap smsg[u] = {}

LEMMA WorkersOf ==
    /\ SegWorkers = Workers("image") \cup Workers("video")
    /\ Workers("image") = ImageWorkers /\ Workers("video") = VideoWorkers
    /\ ImageWorkers \cap VideoWorkers = {} /\ SegWorkers \subseteq SegTasks
    /\ Kinds = {"image", "video"}
    /\ \A k \in Kinds : \A w \in Workers(k) : \A f : KindOf(w, f) = k
    /\ \A k \in Kinds : BatchTask(k) \notin SegWorkers
    /\ "timer" \notin SegWorkers
<1>1. \A k \in Kinds : BatchTask(k) \in BatchTasks
    BY DEF BatchTasks
<1>2. BatchTask("image") = "imageBatch" /\ BatchTask("video") = "videoBatch"
    BY DEF BatchTask
<1> QED BY <1>1, <1>2, SegmentorAssumption
        DEF Workers, SegWorkers, SegTasks, Kinds, KindOf

LEMMA HoldInit == FlowInit => HoldInv
<1> SUFFICES ASSUME FlowInit PROVE HoldInv
    OBVIOUS
<1> USE DEF FlowInit, FinderInit, SegmentorInit
<1>1. \A w \in SegWorkers : smsg[w] = {} /\ left[w] = {} /\ w \in SegTasks
    BY WorkersOf
<1>2. readyVideos \subseteq {Frames} /\ readyImages = {} /\ announced = {} /\ masks = {}
    OBVIOUS
<1>3. HoldTypes
    BY <1>1, FS_EmptySet DEF HoldTypes
<1>4. \A k \in Kinds : Ready(k) \subseteq Assets(k)
    BY <1>2 DEF Ready, Assets
<1> QED BY <1>1, <1>2, <1>3, <1>4, WorkersOf, FlowAssumption DEF HoldInv

\* Messages stay where they are.
Holding ==
    /\ UNCHANGED <<announced, readyImages, readyVideos>>
    /\ DOMAIN smsg' = DOMAIN smsg /\ DOMAIN left' = DOMAIN left /\ DOMAIN spc' = DOMAIN spc
    /\ masks' \ Frames \subseteq announced
    /\ \A w \in SegWorkers : /\ smsg'[w] = smsg[w] \/ smsg'[w] = {}
                             /\ left'[w] \subseteq left[w] /\ left'[w] \subseteq smsg'[w]
                             /\ spc'[w] = "idle" => spc[w] = "idle" \/ smsg'[w] = {}

LEMMA HoldingHolds == ASSUME HoldInv, Holding PROVE HoldInv'
<1>1. \A k \in Kinds : Ready(k)' = Ready(k) /\ Assets(k)' = Assets(k)
    BY DEF Holding, Ready, Assets
<1>2. HoldTypes'
    BY FS_EmptySet DEF HoldInv, HoldTypes, Holding
<1>3. \A k \in Kinds : Workers(k) \subseteq SegWorkers
    BY WorkersOf
<1>4. \A w \in SegWorkers : smsg'[w] \subseteq smsg[w]
    BY DEF Holding
<1>5. \A w \in SegWorkers : spc'[w] = "idle" => smsg'[w] = {}
    BY DEF Holding, HoldInv
<1>6. ASSUME NEW k \in Kinds
      PROVE  /\ Ready(k)' \subseteq Assets(k)'
             /\ \A w \in Workers(k) : smsg'[w] \subseteq Assets(k)' \ Ready(k)'
             /\ \A w, u \in Workers(k) : w # u => smsg'[w] \cap smsg'[u] = {}
    BY <1>1, <1>3, <1>4 DEF HoldInv
<1> QED BY <1>2, <1>5, <1>6 DEF HoldInv, Holding

\* The steps at which a message moves.
Moving ==
    \/ \E w \in ImageWorkers : \E im \in readyImages : TakeImage(w, im)
    \/ \E w \in VideoWorkers : \E m \in readyVideos : TakeVideo(w, m)
    \/ \E w \in SegWorkers : RaiseAssets(w)
    \/ SegCrash

LEMMA HoldingSteps ==
    ASSUME HoldInv, SegmentorNext, UNCHANGED finderVars, ~Moving
    PROVE  Holding
<1> USE DEF Holding, HoldInv, HoldTypes
<1>0. UNCHANGED announced
    BY DEF finderVars, stored
<1>1. ASSUME NEW w \in SegWorkers, EmitMasked(w) \/ AckAssets(w)
             \/ \E x \in left[w] : LoseAsset(w, x)
      PROVE  Holding
  <2>1. UNCHANGED <<masks, bus>>
      BY <1>1 DEF EmitMasked, AckAssets, LoseAsset, segOut
  <2>2. CASE EmitMasked(w)
      BY <1>0, <2>1, <2>2 DEF EmitMasked, bus
  <2>3. CASE AckAssets(w)
      BY <1>0, <2>1, <2>3 DEF AckAssets, bus
  <2>4. ASSUME NEW x \in left[w], LoseAsset(w, x) PROVE Holding
      BY <1>0, <2>1, <2>4 DEF LoseAsset, bus
  <2> QED BY <1>1, <2>2, <2>3, <2>4
<1>2. ASSUME NEW w \in SegWorkers, NEW x \in left[w], MaskAsset(w, x) PROVE Holding
  <2>1. /\ UNCHANGED <<smsg, bus>> /\ masks' = masks \cup {x}
        /\ left' = [left EXCEPT ![w] = @ \ {x}]
        /\ \E to \in {"completed", "next"} : spc' = [spc EXCEPT ![w] = to]
      BY <1>2 DEF MaskAsset, Conclude
  <2>2. x \in announced \cup Frames
    <3>1. x \in smsg[w] OBVIOUS
    <3>2. PICK k \in Kinds : w \in Workers(k) BY WorkersOf
    <3> QED BY <3>1, <3>2 DEF Assets
  <2> QED BY <1>0, <2>1, <2>2 DEF bus
<1>3. ASSUME NEW t \in SegTasks, PublishSegmented(t) \/ PublishMaskedBatch(t) PROVE Holding
  <2>1. /\ UNCHANGED <<smsg, left, masks, bus>>
        /\ spc[t] # "idle"
        /\ spc' = [spc EXCEPT ![t] = Rest(t)] \/ spc' = [spc EXCEPT ![t] = "batched"]
      BY <1>3 DEF PublishSegmented, PublishMaskedBatch, segOut
  <2>2. \A w \in SegWorkers : spc'[w] = "idle" => spc[w] = "idle"
    <3>1. \A w \in SegWorkers : w # "timer" BY WorkersOf
    <3> QED BY <2>1, <3>1, WorkersOf DEF Rest
  <2> QED BY <1>0, <2>1, <2>2 DEF bus
<1>4. ASSUME NEW t \in SegTasks \ SegWorkers,
             UNCHANGED <<left, masks, readyImages, readyVideos>>,
             smsg' = smsg \/ \E b : smsg' = [smsg EXCEPT ![t] = b],
             DOMAIN spc' = DOMAIN spc,
             \A w \in SegWorkers : spc'[w] = spc[w]
      PROVE  Holding
    BY <1>0, <1>4, WorkersOf
<1>5. ASSUME NEW k \in Kinds, Recheck(k) \/ Mirror(k) \/ RaiseBatch(k) PROVE Holding
  <2>1. BatchTask(k) \in SegTasks \ SegWorkers
      BY TaskKinds, WorkersOf
  <2>2. UNCHANGED <<left, masks, readyImages, readyVideos>>
        /\ (smsg' = smsg \/ \E b : smsg' = [smsg EXCEPT ![BatchTask(k)] = b])
        /\ \E to : spc' = [spc EXCEPT ![BatchTask(k)] = to]
      BY <1>5 DEF Recheck, Conclude, Mirror, RaiseBatch, segOut, bus
  <2> QED BY <2>1, <2>2, <1>4
<1>6. CASE Expire \/ TimerDies
  <2>1. "timer" \in SegTasks \ SegWorkers
      BY WorkersOf DEF SegTasks
  <2>2. UNCHANGED <<left, masks, readyImages, readyVideos, smsg>>
        /\ \E to : spc' = [spc EXCEPT !["timer"] = to]
      BY <1>6 DEF Expire, TimerDies, segOut, bus
  <2> QED BY <2>1, <2>2, <1>4
<1>7. ASSUME NEW k \in Kinds, NEW sum, AnnounceTotal(k, sum)
      PROVE  DOMAIN spc' = DOMAIN spc /\ \A w \in SegWorkers : spc'[w] = spc[w]
  <2>1. \E to : spc' = [spc EXCEPT ![BatchTask(k)] = to, !["timer"] = "armed"]
      BY <1>7 DEF AnnounceTotal
  <2> QED BY <2>1, WorkersOf
<1>8. ASSUME NEW b \in imageBatches, TakeImagesBatch(b) PROVE Holding
  <2>1. "image" \in Kinds /\ BatchTask("image") = "imageBatch"
        /\ "imageBatch" \in SegTasks \ SegWorkers
      BY TaskKinds, WorkersOf DEF BatchTask
  <2>2. UNCHANGED <<left, masks, readyImages, readyVideos>>
        /\ smsg' = [smsg EXCEPT !["imageBatch"] = b]
      BY <1>8 DEF TakeImagesBatch, segOut
  <2>3. AnnounceTotal("image", b.total)
      BY <1>8 DEF TakeImagesBatch
  <2>4. DOMAIN spc' = DOMAIN spc /\ \A w \in SegWorkers : spc'[w] = spc[w]
      BY <2>1, <2>3, <1>7
  <2> QED BY <2>1, <2>2, <2>4, <1>4
<1>9. ASSUME NEW b \in videoBatches, TakeVideosBatch(b) PROVE Holding
  <2>1. "video" \in Kinds /\ BatchTask("video") = "videoBatch"
        /\ "videoBatch" \in SegTasks \ SegWorkers
      BY TaskKinds, WorkersOf DEF BatchTask
  <2>2. UNCHANGED <<left, masks, readyImages, readyVideos>>
        /\ (smsg' = smsg \/ smsg' = [smsg EXCEPT !["videoBatch"] = b])
        /\ (spc' = spc \/ AnnounceTotal("video", b.total))
      BY <1>9 DEF TakeVideosBatch, segOut
  <2>3. DOMAIN spc' = DOMAIN spc /\ \A w \in SegWorkers : spc'[w] = spc[w]
      BY <2>1, <2>2, <1>7
  <2> QED BY <2>1, <2>2, <2>3, <1>4
<1> QED BY <1>1, <1>2, <1>3, <1>5, <1>6, <1>8, <1>9
        DEF Moving, SegmentorNext, SegmentorWork, Deliver, WorkerStep, SegPublish, BatchStep

LEMMA HoldMoves ==
    ASSUME HoldInv, Moving, UNCHANGED finderVars
    PROVE  HoldInv'
<1> USE DEF HoldInv
<1>0. UNCHANGED announced /\ \A k \in Kinds : Assets(k)' = Assets(k)
    BY DEF finderVars, stored, Assets
<1>t. HoldTypes
    OBVIOUS
<1>k. \A k \in Kinds : Workers(k) \subseteq SegWorkers
    BY WorkersOf
<1>1. ASSUME NEW w \in ImageWorkers, NEW im \in readyImages, TakeImage(w, im) PROVE HoldInv'
  <2>1. /\ spc[w] = "idle" /\ readyImages' = readyImages \ {im}
        /\ UNCHANGED <<readyVideos, masks>>
        /\ smsg' = [smsg EXCEPT ![w] = {im}] /\ left' = [left EXCEPT ![w] = {im}]
        /\ spc' = [spc EXCEPT ![w] = "next"]
      BY <1>1 DEF TakeImage, segOut
  <2>2. w \in Workers("image") /\ w \in SegWorkers /\ w \notin Workers("video") /\ w \in SegTasks
      BY WorkersOf
  <2>3. IsFiniteSet({im})
      BY FS_Singleton
  <2>4. HoldTypes'
      BY <1>t, <2>1, <2>2, <2>3 DEF HoldTypes
  <2>5. \A u \in SegWorkers \ {w} : smsg'[u] = smsg[u]
      BY <1>t, <2>1, WorkersOf DEF HoldTypes
  <2>6. smsg'[w] = {im}
      BY <1>t, <2>1, <2>2 DEF HoldTypes
  <2>7. ASSUME NEW k \in Kinds
        PROVE  /\ Ready(k)' \subseteq Assets(k)'
               /\ \A u \in Workers(k) : smsg'[u] \subseteq Assets(k)' \ Ready(k)'
               /\ \A u, v \in Workers(k) : u # v => smsg'[u] \cap smsg'[v] = {}
    <3>1. CASE k = "image"
      <4>1. /\ Ready(k) = readyImages /\ Ready(k)' = readyImages \ {im}
            /\ Ready(k) \subseteq Assets(k)
          BY <2>1, <3>1 DEF Ready
      <4>2. \A u \in Workers(k) : smsg[u] \subseteq Assets(k) \ Ready(k)
          OBVIOUS
      <4>3. \A u, v \in Workers(k) : u # v => smsg[u] \cap smsg[v] = {}
          OBVIOUS
      <4> QED BY <4>1, <4>2, <4>3, <2>2, <2>5, <2>6, <1>0, <1>k
    <3>2. CASE k = "video"
        BY <3>2, <2>1, <2>2, <2>5, <1>0, <1>k DEF Ready
    <3> QED BY <3>1, <3>2, WorkersOf
  <2>8. \A u \in SegWorkers : spc'[u] = "idle" => smsg'[u] = {}
      BY <1>t, <2>1, <2>2, <2>5 DEF HoldTypes
  <2> QED BY <2>1, <2>4, <2>7, <2>8, <1>0
<1>2. ASSUME NEW w \in VideoWorkers, NEW m \in readyVideos, TakeVideo(w, m) PROVE HoldInv'
  <2>1. /\ spc[w] = "idle" /\ readyVideos' = readyVideos \ {m}
        /\ UNCHANGED <<readyImages, masks>>
        /\ smsg' = [smsg EXCEPT ![w] = m] /\ left' = [left EXCEPT ![w] = m]
        /\ spc' = [spc EXCEPT ![w] = "next"]
      BY <1>2 DEF TakeVideo, segOut
  <2>2. w \in Workers("video") /\ w \in SegWorkers /\ w \notin Workers("image") /\ w \in SegTasks
      BY WorkersOf
  <2>3. IsFiniteSet(m)
      OBVIOUS
  <2>4. HoldTypes'
      BY <1>t, <2>1, <2>2, <2>3 DEF HoldTypes
  <2>5. \A u \in SegWorkers \ {w} : smsg'[u] = smsg[u]
      BY <1>t, <2>1, WorkersOf DEF HoldTypes
  <2>6. smsg'[w] = m
      BY <1>t, <2>1, <2>2 DEF HoldTypes
  <2>7. ASSUME NEW k \in Kinds
        PROVE  /\ Ready(k)' \subseteq Assets(k)'
               /\ \A u \in Workers(k) : smsg'[u] \subseteq Assets(k)' \ Ready(k)'
               /\ \A u, v \in Workers(k) : u # v => smsg'[u] \cap smsg'[v] = {}
    <3>1. CASE k = "video"
      <4>1. /\ Ready(k) = UNION readyVideos /\ Ready(k)' = UNION (readyVideos \ {m})
            /\ Ready(k) \subseteq Assets(k)
          BY <2>1, <3>1 DEF Ready
      <4>2. Ready(k)' \subseteq Ready(k) /\ Ready(k)' \cap m = {} /\ m \subseteq Ready(k)
          BY <4>1
      <4>3. \A u \in Workers(k) : smsg[u] \subseteq Assets(k) \ Ready(k)
          OBVIOUS
      <4>4. \A u, v \in Workers(k) : u # v => smsg[u] \cap smsg[v] = {}
          OBVIOUS
      <4> QED BY <4>1, <4>2, <4>3, <4>4, <2>2, <2>5, <2>6, <1>0, <1>k
    <3>2. CASE k = "image"
        BY <3>2, <2>1, <2>2, <2>5, <1>0, <1>k DEF Ready
    <3> QED BY <3>1, <3>2, WorkersOf
  <2>8. \A u \in SegWorkers : spc'[u] = "idle" => smsg'[u] = {}
      BY <1>t, <2>1, <2>2, <2>5 DEF HoldTypes
  <2> QED BY <2>1, <2>4, <2>7, <2>8, <1>0
<1>3. ASSUME NEW w \in SegWorkers, RaiseAssets(w) PROVE HoldInv'
  <2>1. /\ IF w \in ImageWorkers
           THEN readyImages' = readyImages \cup smsg[w] /\ UNCHANGED readyVideos
           ELSE readyVideos' = readyVideos \cup {smsg[w]} /\ UNCHANGED readyImages
        /\ UNCHANGED masks
        /\ smsg' = [smsg EXCEPT ![w] = {}] /\ left' = [left EXCEPT ![w] = {}]
        /\ spc' = [spc EXCEPT ![w] = "idle"]
      BY <1>3 DEF RaiseAssets, segOut
  <2>2. PICK j \in Kinds : w \in Workers(j)
      BY WorkersOf
  <2>3. /\ w \in ImageWorkers <=> j = "image"
        /\ \A k \in Kinds : k # j => w \notin Workers(k)
      BY <2>2, WorkersOf
  <2>4. \A u \in SegWorkers \ {w} : smsg'[u] = smsg[u]
      BY <1>t, <2>1, WorkersOf DEF HoldTypes
  <2>5. smsg'[w] = {} /\ IsFiniteSet({})
      BY <1>t, <2>1, WorkersOf, FS_EmptySet DEF HoldTypes
  <2>6. HoldTypes'
      BY <1>t, <2>1, <2>5 DEF HoldTypes
  <2>7. \A k \in Kinds : Ready(k)' = IF k = j THEN Ready(k) \cup smsg[w] ELSE Ready(k)
    <3>1. CASE j = "image"
        BY <3>1, <2>1, <2>3 DEF Ready
    <3>2. CASE j = "video"
      <4>1. readyImages' = readyImages /\ readyVideos' = readyVideos \cup {smsg[w]}
          BY <3>2, <2>1, <2>3
      <4>2. ASSUME NEW x
            PROVE  x \in UNION readyVideos' <=> x \in UNION readyVideos \/ x \in smsg[w]
          BY <4>1
      <4>3. UNION readyVideos' = (UNION readyVideos) \cup smsg[w]
          BY <4>2
      <4> QED BY <3>2, <4>1, <4>3, WorkersOf, Zenon DEF Ready
    <3> QED BY <3>1, <3>2, WorkersOf
  <2>8. ASSUME NEW k \in Kinds
        PROVE  /\ Ready(k)' \subseteq Assets(k)'
               /\ \A u \in Workers(k) : smsg'[u] \subseteq Assets(k)' \ Ready(k)'
               /\ \A u, v \in Workers(k) : u # v => smsg'[u] \cap smsg'[v] = {}
    <3>1. /\ Ready(k) \subseteq Assets(k)
          /\ \A u \in Workers(k) : smsg[u] \subseteq Assets(k) \ Ready(k)
          /\ \A u, v \in Workers(k) : u # v => smsg[u] \cap smsg[v] = {}
        OBVIOUS
    <3> QED BY <3>1, <2>2, <2>3, <2>4, <2>5, <2>7, <1>0, <1>k
  <2>9. \A u \in SegWorkers : spc'[u] = "idle" => smsg'[u] = {}
      BY <1>t, <2>1, <2>4, <2>5, WorkersOf DEF HoldTypes
  <2>10. /\ \A m \in readyVideos' : IsFiniteSet(m)
         /\ \A m, n \in readyVideos' : m # n => m \cap n = {}
    <3>1. CASE w \in ImageWorkers BY <3>1, <2>1
    <3>2. CASE w \notin ImageWorkers
      <4>1. j = "video" BY <3>2, <2>3, WorkersOf
      <4>2. smsg[w] \cap UNION readyVideos = {}
          BY <4>1, <2>2 DEF Ready
      <4>3. IsFiniteSet(smsg[w]) BY <1>t DEF HoldTypes
      <4> QED BY <4>2, <4>3, <3>2, <2>1
    <3> QED BY <3>1, <3>2
  <2> QED BY <2>1, <2>6, <2>8, <2>9, <2>10, <1>0
<1>4. CASE SegCrash
  <2>1. /\ spc' = [t \in SegTasks |-> "idle"]
        /\ smsg' = [t \in SegTasks |-> IF t \in SegWorkers THEN {} ELSE NoBatch]
        /\ left' = [t \in SegWorkers |-> {}] /\ UNCHANGED masks
        /\ readyImages' = readyImages \cup UNION {smsg[w] : w \in ImageWorkers}
        /\ readyVideos' = readyVideos \cup ({smsg[w] : w \in VideoWorkers} \ {{}})
      BY <1>4 DEF SegCrash, ForgetAll, segOut
  <2>2. \A w \in SegWorkers : smsg'[w] = {} /\ left'[w] = {} /\ IsFiniteSet({})
      BY <2>1, WorkersOf, FS_EmptySet
  <2>3. HoldTypes'
      BY <2>1, <2>2 DEF HoldTypes
  <2>4. \A k \in Kinds : Ready(k)' \subseteq Assets(k)
    <3>1. Ready("image")' \subseteq Assets("image")
        BY <2>1, WorkersOf DEF Ready
    <3>2. Ready("video")' \subseteq Assets("video")
      <4>1. UNION readyVideos \subseteq Assets("video")
          BY WorkersOf DEF Ready
      <4>2. \A w \in VideoWorkers : smsg[w] \subseteq Assets("video")
          BY WorkersOf
      <4> QED BY <4>1, <4>2, <2>1 DEF Ready
    <3> QED BY <3>1, <3>2, WorkersOf
  <2>5. \A m \in readyVideos' : IsFiniteSet(m)
      BY <2>1, <1>t, WorkersOf DEF HoldTypes
  <2>6. ASSUME NEW m \in readyVideos', NEW n \in readyVideos', m # n PROVE m \cap n = {}
    <3>1. \A w \in VideoWorkers : smsg[w] \cap UNION readyVideos = {}
        BY WorkersOf DEF Ready
    <3>2. \A u, w \in VideoWorkers : u # w => smsg[u] \cap smsg[w] = {}
        BY WorkersOf
    <3> QED BY <3>1, <3>2, <2>1, <2>6
  <2>7. \A k \in Kinds : \A w \in Workers(k) : smsg'[w] = {}
      BY <2>2, <1>k
  <2>8. announced' \cap Frames = {} /\ masks' \ Frames \subseteq announced'
      BY <2>1, <1>0
  <2>9. ASSUME NEW k \in Kinds
        PROVE  /\ Ready(k)' \subseteq Assets(k)'
               /\ \A w \in Workers(k) : smsg'[w] \subseteq Assets(k)' \ Ready(k)'
               /\ \A w, u \in Workers(k) : w # u => smsg'[w] \cap smsg'[u] = {}
      BY <2>4, <2>7, <1>0
  <2> QED BY <2>2, <2>3, <2>5, <2>6, <2>8, <2>9
<1> QED BY <1>1, <1>2, <1>3, <1>4 DEF Moving

-----------------------------------------------------------------------------
\* The counts

Counted(c) == "done" \in DOMAIN c /\ c.done \in Nat

Cap(k) == Cardinality(MasksOf(k)) + recounts

\* The same after a step.
MasksNext(k) == IF k = "video" THEN masks' \cap Frames ELSE masks' \ Frames

CapNext(k) == Cardinality(MasksNext(k)) + recounts'

CountTypes ==
    /\ DOMAIN counts = Kinds /\ DOMAIN claimed = SegTasks /\ timed \in Kinds
    /\ \A k \in Kinds : Counted(counts[k])
    /\ \A t \in SegTasks : Counted(claimed[t])
    /\ tracking \in Seq(Kinds) /\ (tracking = <<>> => mirror = NoCounts)
    /\ IsFiniteSet(masks) /\ recounts \in Nat

\* A count has an asset masked for good behind each of its units, or an asset
\* that came again; what is claimed was counted.
SettledInv == \A k \in Kinds : counts[k].done <= Cardinality(Settled(k)) + recounts

ClaimInv == \A t \in SegTasks : claimed[t].done <= Cap(KindOf(t, timed))

SaidInv ==
    \A n \in DOMAIN maskedBatch :
        /\ maskedBatch[n].kind \in Kinds /\ maskedBatch[n].count \in Nat
        /\ maskedBatch[n].count <= Cap(maskedBatch[n].kind)

HonestInv == CountTypes /\ SettledInv /\ ClaimInv /\ SaidInv

LEMMA SettledFinite ==
    ASSUME IsFiniteSet(masks), NEW k
    PROVE  /\ IsFiniteSet(MasksOf(k)) /\ IsFiniteSet(Settled(k))
           /\ Cardinality(MasksOf(k)) \in Nat /\ Cardinality(Settled(k)) \in Nat
           /\ Cardinality(Settled(k)) <= Cardinality(MasksOf(k))
<1>1. MasksOf(k) \subseteq masks /\ Settled(k) \subseteq MasksOf(k)
    BY DEF MasksOf, Settled
<1>2. IsFiniteSet(MasksOf(k))
    BY <1>1, FS_Subset
<1> QED BY <1>1, <1>2, FS_Subset, FS_CardinalityType

LEMMA HonestInit == FlowInit => HonestInv
<1> SUFFICES ASSUME FlowInit PROVE HonestInv
    OBVIOUS
<1> USE DEF FlowInit, SegmentorInit
<1>1. /\ counts = [k \in Kinds |-> NoCounts] /\ claimed = [t \in SegTasks |-> NoCounts]
      /\ timed = "image" /\ masks = {} /\ recounts = 0 /\ maskedBatch = <<>>
      /\ tracking = <<>> /\ mirror = NoCounts
    OBVIOUS
<1>2. Counted(NoCounts) /\ NoCounts.done = 0
    BY DEF Counted, NoCounts
<1>3. IsFiniteSet(masks)
    BY <1>1, FS_EmptySet
<1>4. CountTypes
    BY <1>1, <1>2, <1>3, WorkersOf DEF CountTypes
<1>5. \A k : Cardinality(Settled(k)) \in Nat /\ Cardinality(MasksOf(k)) \in Nat
    BY <1>3, SettledFinite
<1>6. SettledInv /\ ClaimInv
    BY <1>1, <1>2, <1>5 DEF SettledInv, ClaimInv, Cap
<1>7. SaidInv
    BY <1>1 DEF SaidInv
<1> QED BY <1>4, <1>6, <1>7 DEF HonestInv

LEMMA TrackTypes ==
    ASSUME tracking \in Seq(Kinds), NEW k \in Kinds
    PROVE  Track(k) \in Seq(Kinds) /\ Track(k) # <<>>
<1>1. CASE Tracked(k)
  <2>1. tracking # <<>> BY <1>1 DEF Tracked
  <2> QED BY <1>1, <2>1 DEF Track
<1>2. CASE ~Tracked(k)
  <2>1. Append(tracking, k) \in Seq(Kinds) /\ Append(tracking, k) # <<>>
      BY SMTT(30)
  <2> QED BY <2>1, <1>2 DEF Track
<1> QED BY <1>1, <1>2

\* What a step of the segmentor does with the counts, when no asset is masked
\* and nothing restarts.
CountsKept ==
    /\ DOMAIN counts' = Kinds
    /\ \A k \in Kinds : Counted(counts'[k]) /\ counts'[k].done = counts[k].done

Masking == \E w \in SegWorkers : \E x \in left[w] : MaskAsset(w, x)

LEMMA ExpectOnly ==
    ASSUME CountTypes, NEW k \in Kinds, NEW c, Counted(c), c.done = counts[k].done,
           counts' = [counts EXCEPT ![k] = c] \/ UNCHANGED counts
    PROVE  CountsKept
BY DEF CountTypes, CountsKept

LEMMA CountsKeptSteps ==
    ASSUME CountTypes, SegmentorNext, ~Masking, ~SegCrash
    PROVE  CountsKept
<1>0. UNCHANGED counts => CountsKept
    BY DEF CountTypes, CountsKept
<1>1. ASSUME NEW w \in ImageWorkers, NEW im \in readyImages, TakeImage(w, im) PROVE CountsKept
  <2>1. UNCHANGED counts \/ counts' = [counts EXCEPT !["image"].expected = SegHigh]
      BY <1>1 DEF TakeImage
  <2> DEFINE c == [counts["image"] EXCEPT !.expected = SegHigh]
  <2>2. "image" \in Kinds /\ Counted(counts["image"])
      BY WorkersOf DEF CountTypes
  <2>3. Counted(c) /\ c.done = counts["image"].done
      BY <2>2 DEF Counted
  <2>4. UNCHANGED counts \/ counts' = [counts EXCEPT !["image"] = c]
      BY <2>1
  <2> HIDE DEF c
  <2> QED BY <2>2, <2>3, <2>4, ExpectOnly
<1>2. ASSUME NEW k \in Kinds, NEW sum, AnnounceTotal(k, sum) PROVE CountsKept
  <2> DEFINE c == [expected |-> sum, done |-> counts[k].done]
  <2>1. UNCHANGED counts \/ counts' = [counts EXCEPT ![k] = c]
      BY <1>2 DEF AnnounceTotal
  <2>2. Counted(counts[k])
      BY DEF CountTypes
  <2>3. Counted(c) /\ c.done = counts[k].done
      BY <2>2 DEF Counted
  <2> HIDE DEF c
  <2> QED BY <2>1, <2>3, ExpectOnly
<1>3. ASSUME NEW k \in Kinds, Recheck(k) PROVE CountsKept
  <2> DEFINE c == [counts[k] EXCEPT !.expected = smsg[BatchTask(k)].total]
  <2>1. UNCHANGED counts \/ counts' = [counts EXCEPT ![k] = c]
      BY <1>3 DEF Recheck
  <2>2. Counted(counts[k])
      BY DEF CountTypes
  <2>3. Counted(c) /\ c.done = counts[k].done
      BY <2>2 DEF Counted
  <2> HIDE DEF c
  <2> QED BY <2>1, <2>3, ExpectOnly
<1>4. ASSUME NEW b, TakeImagesBatch(b) PROVE CountsKept
  <2>1. AnnounceTotal("image", b.total) BY <1>4 DEF TakeImagesBatch
  <2> QED BY <2>1, <1>2, WorkersOf
<1>5. ASSUME NEW b, TakeVideosBatch(b) PROVE CountsKept
  <2>1. UNCHANGED counts \/ AnnounceTotal("video", b.total) BY <1>5 DEF TakeVideosBatch
  <2> QED BY <2>1, <1>0, <1>2, WorkersOf
<1>6. ASSUME NEW w \in SegWorkers,
             \/ \E m \in readyVideos : TakeVideo(w, m)
             \/ EmitMasked(w) \/ AckAssets(w) \/ RaiseAssets(w)
             \/ \E x \in left[w] : LoseAsset(w, x)
      PROVE  CountsKept
    BY <1>0, <1>6 DEF TakeVideo, EmitMasked, AckAssets, RaiseAssets, LoseAsset, segMemory
<1>7. ASSUME NEW t \in SegTasks, PublishSegmented(t) \/ PublishMaskedBatch(t) PROVE CountsKept
    BY <1>0, <1>7 DEF PublishSegmented, PublishMaskedBatch, segMemory
<1>8. ASSUME NEW k \in Kinds, Mirror(k) \/ RaiseBatch(k) PROVE CountsKept
    BY <1>0, <1>8 DEF Mirror, RaiseBatch, segMemory
<1>9. CASE Expire \/ TimerDies
    BY <1>0, <1>9 DEF Expire, TimerDies, segMemory
<1> QED BY <1>1, <1>3, <1>4, <1>5, <1>6, <1>7, <1>8, <1>9, WorkersOf
        DEF Masking, SegmentorNext, SegmentorWork, Deliver, WorkerStep, SegPublish, BatchStep

\* Masks and assets that came again do not become fewer.
LEMMA CapGrows ==
    ASSUME HoldInv, CountTypes, FlowNext
    PROVE  /\ masks \subseteq masks' /\ IsFiniteSet(masks') /\ recounts' \in Nat
           /\ recounts <= recounts' /\ (~Moving => recounts' = recounts)
           /\ \A k : Cap(k) \in Nat /\ CapNext(k) \in Nat /\ Cap(k) <= CapNext(k)
<1>1. /\ masks \subseteq masks' /\ IsFiniteSet(masks')
      /\ recounts' \in Nat /\ recounts <= recounts' /\ (~Moving => recounts' = recounts)
  <2>1. IsFiniteSet(masks) /\ recounts \in Nat
      BY DEF CountTypes
  <2>2. CASE UNCHANGED segVars
      BY <2>1, <2>2 DEF segVars, segOut, segPast
  <2>3. ASSUME NEW w \in SegWorkers, NEW x \in left[w], MaskAsset(w, x)
        PROVE  masks' = masks \cup {x} /\ IsFiniteSet(masks') /\ recounts' = recounts
      BY <2>1, <2>3, FS_AddElement DEF MaskAsset, segPast
  <2>4. ASSUME NEW w \in SegWorkers, RaiseAssets(w)
        PROVE  masks' = masks /\ recounts' \in Nat /\ recounts <= recounts' /\ Moving
    <3>1. Cardinality(smsg[w]) \in Nat
        BY FS_CardinalityType DEF HoldInv, HoldTypes
    <3>2. masks' = masks /\ recounts' = recounts + Cardinality(smsg[w])
        BY <2>4 DEF RaiseAssets, segOut
    <3>3. Moving
        BY <2>4 DEF Moving
    <3> QED BY <3>1, <3>2, <3>3, <2>1
  <2>5. ASSUME NEW w \in SegWorkers,
               \/ \E im \in readyImages : TakeImage(w, im)
               \/ \E m \in readyVideos : TakeVideo(w, m)
               \/ EmitMasked(w) \/ AckAssets(w)
               \/ \E x \in left[w] : LoseAsset(w, x)
        PROVE  masks' = masks /\ recounts' = recounts
      BY <2>5 DEF TakeImage, TakeVideo, EmitMasked, AckAssets, LoseAsset, segOut, segPast
  <2>6. ASSUME NEW k \in Kinds, BatchStep(k) \/ RaiseBatch(k)
        PROVE  masks' = masks /\ recounts' = recounts
      BY <2>6 DEF BatchStep, Recheck, Mirror, RaiseBatch, segOut, segPast
  <2>7. ASSUME NEW t \in SegTasks, PublishSegmented(t) \/ PublishMaskedBatch(t)
        PROVE  masks' = masks /\ recounts' = recounts
      BY <2>7 DEF PublishSegmented, PublishMaskedBatch, segOut, segPast
  <2>8. CASE Expire \/ TimerDies \/ SegCrash
      BY <2>1, <2>8 DEF Expire, TimerDies, SegCrash, segOut, segPast
  <2>9. ASSUME NEW b, TakeImagesBatch(b) \/ TakeVideosBatch(b)
        PROVE  masks' = masks /\ recounts' = recounts
      BY <2>9 DEF TakeImagesBatch, TakeVideosBatch, segOut
  <2> QED BY <2>1, <2>2, <2>3, <2>4, <2>5, <2>6, <2>7, <2>8, <2>9, WorkersOf
          DEF FlowNext, SegmentorNext, SegmentorWork, Deliver, WorkerStep, SegPublish
<1>2. ASSUME NEW k PROVE Cap(k) \in Nat /\ CapNext(k) \in Nat /\ Cap(k) <= CapNext(k)
  <2>1. MasksOf(k) \subseteq MasksNext(k) /\ MasksNext(k) \subseteq masks'
      BY <1>1 DEF MasksOf, MasksNext
  <2>2. IsFiniteSet(MasksNext(k))
      BY <1>1, <2>1, FS_Subset
  <2>3. /\ Cardinality(MasksOf(k)) \in Nat /\ Cardinality(MasksNext(k)) \in Nat
        /\ Cardinality(MasksOf(k)) <= Cardinality(MasksNext(k))
      BY <2>1, <2>2, FS_Subset, FS_CardinalityType
  <2> QED BY <2>3, <1>1 DEF Cap, CapNext, CountTypes
<1> QED BY <1>1, <1>2

LEMMA SettledStep ==
    ASSUME HoldInv, CountTypes, SettledInv, FreshInv, CollectInv, FlowNext
    PROVE  DOMAIN counts' = Kinds /\ (\A k \in Kinds : Counted(counts'[k])) /\ SettledInv'
<1> USE DEF CountTypes, SettledInv
<1>c. /\ masks \subseteq masks' /\ IsFiniteSet(masks') /\ recounts' \in Nat
      /\ recounts <= recounts' /\ (~Moving => recounts' = recounts)
    BY CapGrows
<1>f. \A k : /\ Cardinality(Settled(k)) \in Nat /\ Cardinality(Settled(k)') \in Nat
             /\ IsFiniteSet(Settled(k)) /\ IsFiniteSet(Settled(k)')
  <2>1. ASSUME NEW k PROVE IsFiniteSet(Settled(k)) /\ IsFiniteSet(Settled(k)')
    <3>1. Settled(k) \subseteq masks /\ Settled(k)' \subseteq masks'
        BY DEF Settled, MasksOf
    <3> QED BY <3>1, <1>c, FS_Subset
  <2> QED BY <2>1, FS_CardinalityType
<1>t. HoldTypes
    BY DEF HoldInv
<1>1. ASSUME CountsKept, \A k \in Kinds : Settled(k) \subseteq Settled(k)'
      PROVE  DOMAIN counts' = Kinds /\ (\A k \in Kinds : Counted(counts'[k])) /\ SettledInv'
  <2>1. ASSUME NEW k \in Kinds
        PROVE  counts'[k].done <= Cardinality(Settled(k)') + recounts'
    <3>1. Cardinality(Settled(k)) <= Cardinality(Settled(k)')
        BY <1>1, <1>f, FS_Subset
    <3>2. counts'[k].done = counts[k].done /\ counts[k].done \in Nat
          /\ counts[k].done <= Cardinality(Settled(k)) + recounts
        BY <1>1 DEF CountsKept, Counted
    <3> QED BY SMTT(30), <3>1, <3>2, <1>c, <1>f
  <2> QED BY <2>1, <1>1 DEF CountsKept
<1>2. CASE FinderNext /\ UNCHANGED segVars
  <2>1. CountsKept
      BY <1>2 DEF segVars, segMemory, CountsKept
  <2>2. UNCHANGED <<masks, left>> /\ \A k : MasksOf(k)' = MasksOf(k)
      BY <1>2 DEF segVars, segOut, segTask, MasksOf
  <2>3. ASSUME NEW k \in Kinds PROVE Settled(k) \subseteq Settled(k)'
    <3>1. CASE UNCHANGED <<readyImages, readyVideos>>
        BY <3>1, <2>2 DEF Settled, ToMask, Ready
    <3>2. ASSUME NEW im \in Nat \X Items \X Nat, im \notin announced,
                 readyImages' = readyImages \cup {im}, UNCHANGED readyVideos
          PROVE  Settled(k) \subseteq Settled(k)'
      <4>1. im \notin MasksOf("image")
          BY <3>2, FlowAssumption DEF HoldInv, MasksOf
      <4>2. CASE k = "image"
        <5>1. ToMask(k)' \subseteq ToMask(k) \cup {im}
            BY <4>2, <3>2, <2>2 DEF ToMask, Ready
        <5> QED BY <5>1, <4>1, <4>2, <2>2 DEF Settled
      <4>3. CASE k = "video"
          BY <4>3, <3>2, <2>2 DEF Settled, ToMask, Ready
      <4> QED BY <4>2, <4>3, WorkersOf
    <3> QED BY <1>2, <3>1, <3>2, NewImage
  <2> QED BY <1>1, <2>1, <2>3
<1>3. ASSUME SegmentorNext, UNCHANGED finderVars, ~Moving, ~Masking
      PROVE  DOMAIN counts' = Kinds /\ (\A k \in Kinds : Counted(counts'[k])) /\ SettledInv'
  <2>1. CountsKept
      BY <1>3, CountsKeptSteps DEF Moving
  <2>2. Holding
      BY <1>3, HoldingSteps
  <2>3. ASSUME NEW k \in Kinds PROVE Settled(k) \subseteq Settled(k)'
    <3>1. MasksOf(k) \subseteq MasksOf(k)'
        BY <1>c DEF MasksOf
    <3>2. Ready(k)' = Ready(k) /\ \A w \in Workers(k) : left'[w] \subseteq left[w]
        BY <2>2, WorkersOf DEF Holding, Ready
    <3>3. ToMask(k)' \subseteq ToMask(k)
        BY <3>2 DEF ToMask
    <3> QED BY <3>1, <3>3 DEF Settled
  <2> QED BY <1>1, <2>1, <2>3
<1>4. ASSUME NEW w \in SegWorkers, NEW x \in left[w], MaskAsset(w, x)
      PROVE  DOMAIN counts' = Kinds /\ (\A k \in Kinds : Counted(counts'[k])) /\ SettledInv'
  <2>1. PICK j \in Kinds : w \in Workers(j)
      BY WorkersOf
  <2>2. KindOf(w, timed) = j
      BY <2>1, WorkersOf
  <2> DEFINE c == [counts[j] EXCEPT !.done = counts[j].done + 1]
  <2>3. /\ counts' = [counts EXCEPT ![j] = c]
        /\ masks' = masks \cup {x} /\ left' = [left EXCEPT ![w] = @ \ {x}]
        /\ UNCHANGED <<readyImages, readyVideos>> /\ recounts' = recounts
      BY <1>4, <2>2 DEF MaskAsset, segPast, bus
  <2>4. Counted(c) /\ c.done = counts[j].done + 1
      BY DEF Counted
  <2> HIDE DEF c
  <2>5. /\ DOMAIN counts' = Kinds /\ counts'[j] = c
        /\ \A k \in Kinds \ {j} : counts'[k] = counts[k]
      BY <2>3
  <2>6. x \in smsg[w] /\ \A u \in SegWorkers : left[u] \subseteq smsg[u]
      BY <1>t DEF HoldTypes
  <2>7. /\ x \in Assets(j) /\ x \notin Ready(j)
        /\ \A u \in Workers(j) \ {w} : x \notin smsg[u]
      BY <2>1, <2>6 DEF HoldInv
  <2>8. ToMask(j) = ToMask(j)' \cup {x} /\ x \notin ToMask(j)'
    <3>1. Ready(j)' = Ready(j)
        BY <2>3 DEF Ready
    <3>2. left'[w] = left[w] \ {x} /\ \A u \in Workers(j) \ {w} : left'[u] = left[u]
        BY <2>1, <2>3, <1>t, WorkersOf DEF HoldTypes
    <3>3. \A u \in Workers(j) \ {w} : x \notin left[u]
        BY <2>6, <2>7, WorkersOf
    <3> QED BY <3>1, <3>2, <3>3, <2>1, <2>7 DEF ToMask
  <2>9. MasksOf(j)' = MasksOf(j) \cup {x} /\ \A k \in Kinds \ {j} : MasksOf(k)' = MasksOf(k)
    <3>1. x \in Frames <=> j = "video"
        BY <2>7, WorkersOf DEF Assets, HoldInv
    <3>2. CASE j = "video"
        BY <3>1, <3>2, <2>3, WorkersOf DEF MasksOf
    <3>3. CASE j = "image"
      <4>1. x \notin Frames
          BY <3>1, <3>3
      <4>2. (masks \cup {x}) \cap Frames = masks \cap Frames
            /\ (masks \cup {x}) \ Frames = (masks \ Frames) \cup {x}
          BY <4>1
      <4>3. MasksOf("image")' = MasksOf("image") \cup {x} /\ MasksOf("video")' = MasksOf("video")
          BY <4>2, <2>3 DEF MasksOf
      <4> QED BY <4>3, <3>3, WorkersOf
    <3> QED BY <3>2, <3>3, WorkersOf
  <2>10. Settled(j)' = Settled(j) \cup {x} /\ x \notin Settled(j)
      BY <2>8, <2>9 DEF Settled
  <2>11. Cardinality(Settled(j)') = Cardinality(Settled(j)) + 1
      BY <2>10, <1>f, FS_AddElement
  <2>12. ASSUME NEW k \in Kinds \ {j} PROVE Settled(k)' = Settled(k)
    <3>1. Ready(k)' = Ready(k)
        BY <2>3 DEF Ready
    <3>2. w \notin Workers(k) /\ Workers(k) \subseteq SegWorkers
        BY <2>1, WorkersOf
    <3>3. \A u \in Workers(k) : left'[u] = left[u]
        BY <3>2, <2>3, <1>t DEF HoldTypes
    <3>4. ToMask(k)' = ToMask(k)
        BY <3>1, <3>3 DEF ToMask
    <3> QED BY <3>4, <2>9 DEF Settled
  <2>13. ASSUME NEW k \in Kinds
         PROVE  Counted(counts'[k]) /\ counts'[k].done <= Cardinality(Settled(k)') + recounts'
    <3>1. counts[k].done \in Nat /\ Counted(counts[k])
          /\ counts[k].done <= Cardinality(Settled(k)) + recounts
        BY DEF Counted
    <3>2. CASE k = j
        BY <3>1, <3>2, <2>3, <2>4, <2>5, <2>11, <1>f
    <3>3. CASE k # j
        BY <3>1, <3>3, <2>3, <2>5, <2>12
    <3> QED BY <3>2, <3>3
  <2> QED BY <2>5, <2>13
<1>5. ASSUME NEW w \in SegWorkers,
             \/ w \in ImageWorkers /\ \E im \in readyImages : TakeImage(w, im)
             \/ w \in VideoWorkers /\ \E m \in readyVideos : TakeVideo(w, m)
      PROVE  \A k \in Kinds : Settled(k) \subseteq Settled(k)'
  <2>1. PICK j \in Kinds : \E taken \in SUBSET Ready(j) :
            /\ w \in Workers(j) /\ Ready(j)' \subseteq Ready(j)
            /\ left' = [left EXCEPT ![w] = taken]
            /\ \A k \in Kinds \ {j} : Ready(k)' = Ready(k)
    <3>1. ASSUME w \in ImageWorkers, NEW im \in readyImages, TakeImage(w, im)
          PROVE  /\ w \in Workers("image") /\ {im} \subseteq Ready("image")
                 /\ Ready("image")' \subseteq Ready("image")
                 /\ left' = [left EXCEPT ![w] = {im}] /\ Ready("video")' = Ready("video")
        BY <3>1, WorkersOf DEF TakeImage, Ready
    <3>2. ASSUME w \in VideoWorkers, NEW m \in readyVideos, TakeVideo(w, m)
          PROVE  /\ w \in Workers("video") /\ m \subseteq Ready("video")
                 /\ Ready("video")' \subseteq Ready("video")
                 /\ left' = [left EXCEPT ![w] = m] /\ Ready("image")' = Ready("image")
      <4>1. /\ readyVideos' = readyVideos \ {m} /\ UNCHANGED readyImages
            /\ left' = [left EXCEPT ![w] = m]
          BY <3>2 DEF TakeVideo
      <4>2. Ready("video") = UNION readyVideos /\ Ready("image") = readyImages
            /\ Ready("video")' = UNION (readyVideos') /\ Ready("image")' = readyImages'
          BY DEF Ready
      <4>3. m \subseteq UNION readyVideos /\ UNION (readyVideos') \subseteq UNION readyVideos
          BY <4>1
      <4> QED BY <4>1, <4>2, <4>3, <3>2, WorkersOf
    <3>3. CASE w \in ImageWorkers /\ \E im \in readyImages : TakeImage(w, im)
      <4>1. PICK im \in readyImages : TakeImage(w, im) BY <3>3
      <4>2. {im} \in SUBSET Ready("image") BY <3>1, <3>3, <4>1
      <4> QED BY <3>1, <3>3, <4>1, <4>2, WorkersOf
    <3>4. CASE w \in VideoWorkers /\ \E m \in readyVideos : TakeVideo(w, m)
      <4>1. PICK m \in readyVideos : TakeVideo(w, m) BY <3>4
      <4>2. m \in SUBSET Ready("video") BY <3>2, <3>4, <4>1
      <4> QED BY <3>2, <3>4, <4>1, <4>2, WorkersOf
    <3> QED BY <1>5, <3>3, <3>4
  <2>2. PICK taken \in SUBSET Ready(j) : left' = [left EXCEPT ![w] = taken]
      BY <2>1
  <2>m. masks' = masks
      BY <1>5 DEF TakeImage, TakeVideo, segOut
  <2>3. ASSUME NEW k \in Kinds PROVE ToMask(k)' \subseteq ToMask(k)
    <3>1. CASE k = j
      <4>1. \A u \in Workers(j) : left'[u] = IF u = w THEN taken ELSE left[u]
          BY <2>1, <2>2, <1>t, WorkersOf DEF HoldTypes
      <4> QED BY <4>1, <3>1, <2>1, <2>2 DEF ToMask
    <3>2. CASE k # j
      <4>1. \A u \in Workers(k) : left'[u] = left[u]
          BY <3>2, <2>1, <2>2, <1>t, WorkersOf DEF HoldTypes
      <4> QED BY <4>1, <3>2, <2>1 DEF ToMask
    <3> QED BY <3>1, <3>2
  <2> QED BY <2>3, <2>m DEF Settled, MasksOf
<1>6. ASSUME NEW w \in SegWorkers, RaiseAssets(w), CountsKept
      PROVE  DOMAIN counts' = Kinds /\ (\A k \in Kinds : Counted(counts'[k])) /\ SettledInv'
  <2>1. /\ recounts' = recounts + Cardinality(smsg[w]) /\ masks' = masks
        /\ left' = [left EXCEPT ![w] = {}]
        /\ IF w \in ImageWorkers
           THEN readyImages' = readyImages \cup smsg[w] /\ UNCHANGED readyVideos
           ELSE readyVideos' = readyVideos \cup {smsg[w]} /\ UNCHANGED readyImages
      BY <1>6 DEF RaiseAssets, segOut
  <2>2. IsFiniteSet(smsg[w]) /\ Cardinality(smsg[w]) \in Nat
      BY <1>t, FS_CardinalityType DEF HoldTypes
  <2>3. ASSUME NEW k \in Kinds PROVE Settled(k) \subseteq Settled(k)' \cup smsg[w]
    <3>1. Ready(k)' \subseteq Ready(k) \cup smsg[w]
        BY <2>1 DEF Ready
    <3>2. \A u \in Workers(k) : left'[u] \subseteq left[u]
        BY <2>1, <1>t, WorkersOf DEF HoldTypes
    <3>3. ToMask(k)' \subseteq ToMask(k) \cup smsg[w]
        BY <3>1, <3>2 DEF ToMask
    <3> QED BY <3>3, <2>1 DEF Settled, MasksOf
  <2>4. ASSUME NEW k \in Kinds
        PROVE  Cardinality(Settled(k)) <= Cardinality(Settled(k)') + Cardinality(smsg[w])
    <3> DEFINE S == Settled(k)' \cup smsg[w]
    <3>1. IsFiniteSet(S) /\ Cardinality(S) <= Cardinality(Settled(k)') + Cardinality(smsg[w])
      <4>1. /\ IsFiniteSet(S) /\ IsFiniteSet(Settled(k)' \cap smsg[w])
            /\ Cardinality(S) = Cardinality(Settled(k)') + Cardinality(smsg[w])
                                - Cardinality(Settled(k)' \cap smsg[w])
          BY <1>f, <2>2, FS_Union, FS_Intersection
      <4>2. Cardinality(Settled(k)' \cap smsg[w]) \in Nat
          BY <4>1, FS_CardinalityType
      <4> QED BY <4>1, <4>2, <1>f, <2>2
    <3>2. Cardinality(S) \in Nat /\ Cardinality(Settled(k)) <= Cardinality(S)
        BY <3>1, <2>3, FS_Subset, FS_CardinalityType
    <3> HIDE DEF S
    <3> QED BY <3>1, <3>2, <1>f, <2>2
  <2>5. ASSUME NEW k \in Kinds
        PROVE  counts'[k].done <= Cardinality(Settled(k)') + recounts'
    <3>1. counts'[k].done = counts[k].done /\ counts[k].done \in Nat
          /\ counts[k].done <= Cardinality(Settled(k)) + recounts
        BY <1>6 DEF CountsKept, Counted
    <3> QED BY SMTT(30), <3>1, <2>1, <2>2, <2>4, <1>f
  <2> QED BY <2>5, <1>6 DEF CountsKept
<1>7. CASE SegCrash
  <2>1. counts' = [k \in Kinds |-> NoCounts]
      BY <1>7 DEF SegCrash, ForgetAll
  <2>2. \A k \in Kinds : Counted(counts'[k]) /\ counts'[k].done = 0
      BY <2>1 DEF Counted, NoCounts
  <2> QED BY SMTT(30), <2>1, <2>2, <1>c, <1>f
<1>8. CASE Moving /\ SegmentorNext /\ UNCHANGED finderVars
  <2>1. ASSUME ~SegCrash, NEW w \in SegWorkers,
               \/ w \in ImageWorkers /\ \E im \in readyImages : TakeImage(w, im)
               \/ w \in VideoWorkers /\ \E m \in readyVideos : TakeVideo(w, m)
               \/ RaiseAssets(w)
        PROVE  ~Masking
    <3>1. ASSUME NEW v \in SegWorkers, NEW x \in left[v], MaskAsset(v, x) PROVE FALSE
      <4>1. UNCHANGED smsg
          BY <3>1 DEF MaskAsset
      <4>2. w \in SegTasks
          BY WorkersOf
      <4>3. CASE w \in ImageWorkers /\ \E im \in readyImages : TakeImage(w, im)
          BY SMTT(30), <4>3, <4>1, <4>2, <1>t DEF TakeImage, HoldInv, HoldTypes
      <4>4. CASE RaiseAssets(w)
          BY <4>4, <3>1, <1>t DEF RaiseAssets, MaskAsset, HoldTypes, bus, SegFault, segBound
      <4>5. CASE w \in VideoWorkers /\ \E m \in readyVideos : TakeVideo(w, m)
          BY <4>5, <3>1 DEF TakeVideo, MaskAsset, bus
      <4> QED BY <2>1, <4>3, <4>4, <4>5
    <3> QED BY <3>1 DEF Masking
  <2>2. ASSUME ~SegCrash, NEW w \in SegWorkers,
               \/ w \in ImageWorkers /\ \E im \in readyImages : TakeImage(w, im)
               \/ w \in VideoWorkers /\ \E m \in readyVideos : TakeVideo(w, m)
               \/ RaiseAssets(w)
        PROVE  CountsKept
      BY <2>1, <2>2, <1>8, CountsKeptSteps
  <2> QED BY <1>8, <1>1, <1>5, <1>6, <1>7, <2>2, WorkersOf DEF Moving
<1> QED BY <1>2, <1>3, <1>4, <1>8 DEF FlowNext, Masking

LEMMA TrackStep ==
    ASSUME CountTypes, SegmentorNext
    PROVE  tracking' \in Seq(Kinds) /\ (tracking' = <<>> => mirror' = NoCounts)
<1> DEFINE Goal == tracking' \in Seq(Kinds) /\ (tracking' = <<>> => mirror' = NoCounts)
<1> USE DEF segMemory
<1>0. tracking \in Seq(Kinds) /\ (tracking = <<>> => mirror = NoCounts)
    BY DEF CountTypes
<1>1. ASSUME UNCHANGED <<tracking, mirror>> PROVE Goal
    BY <1>0, <1>1
<1>2. ASSUME NEW k \in Kinds, tracking' = Track(k) PROVE Goal
    BY <1>0, <1>2, TrackTypes
<1> HIDE DEF Goal
<1>3. ASSUME NEW w, NEW im, TakeImage(w, im) PROVE Goal
    BY <1>1, <1>2, <1>3, WorkersOf DEF TakeImage
<1>4. ASSUME NEW w \in SegWorkers, NEW x \in left[w], MaskAsset(w, x) PROVE Goal
  <2>1. KindOf(w, timed) \in Kinds BY WorkersOf
  <2> QED BY <2>1, <1>2, <1>4 DEF MaskAsset
<1>5. ASSUME NEW k \in Kinds, NEW sum, AnnounceTotal(k, sum), UNCHANGED mirror PROVE Goal
    BY <1>1, <1>2, <1>5 DEF AnnounceTotal
<1>6. ASSUME NEW b, TakeImagesBatch(b) \/ TakeVideosBatch(b) PROVE Goal
    BY <1>1, <1>5, <1>6, WorkersOf DEF TakeImagesBatch, TakeVideosBatch
<1>7. ASSUME NEW k \in Kinds, Mirror(k) PROVE Goal
    BY <1>0, <1>7 DEF Mirror, Tracked, Goal
<1>8. ASSUME SegCrash PROVE Goal BY <1>8 DEF SegCrash, ForgetAll, Goal
<1>9. ASSUME NEW w \in SegWorkers,
             \/ \E m \in readyVideos : TakeVideo(w, m)
             \/ EmitMasked(w) \/ AckAssets(w) \/ RaiseAssets(w)
             \/ \E x \in left[w] : LoseAsset(w, x)
      PROVE  Goal
    BY <1>1, <1>9 DEF TakeVideo, EmitMasked, AckAssets, RaiseAssets, LoseAsset, segMemory
<1>10. ASSUME NEW t \in SegTasks, PublishSegmented(t) \/ PublishMaskedBatch(t) PROVE Goal
    BY <1>1, <1>10 DEF PublishSegmented, PublishMaskedBatch, segMemory
<1>11. ASSUME NEW k \in Kinds, Recheck(k) \/ RaiseBatch(k) PROVE Goal
  <2>1. CASE Recheck(k)
    <3>1. UNCHANGED <<tracking, mirror>> BY <2>1 DEF Recheck
    <3> QED BY <3>1, <1>1
  <2>2. CASE RaiseBatch(k)
    <3>1. UNCHANGED <<tracking, mirror>> BY <2>2 DEF RaiseBatch
    <3> QED BY <3>1, <1>1
  <2> QED BY <1>11, <2>1, <2>2
<1>12. ASSUME Expire \/ TimerDies PROVE Goal
  <2>1. CASE Expire
    <3>1. UNCHANGED <<tracking, mirror>> BY <2>1 DEF Expire
    <3> QED BY <3>1, <1>1
  <2>2. CASE TimerDies
    <3>1. UNCHANGED <<tracking, mirror>> BY <2>2 DEF TimerDies
    <3> QED BY <3>1, <1>1
  <2> QED BY <1>12, <2>1, <2>2
<1>13. Goal
    BY <1>3, <1>4, <1>6, <1>7, <1>8, <1>9, <1>10, <1>11, <1>12, WorkersOf
       DEF SegmentorNext, SegmentorWork, Deliver, WorkerStep, SegPublish, BatchStep
<1> QED BY <1>13 DEF Goal

\* What is about to be published stays covered.
Claims ==
    /\ DOMAIN claimed' = SegTasks /\ timed' \in Kinds
    /\ \A t \in SegTasks : Counted(claimed'[t]) /\ claimed'[t].done <= CapNext(KindOf(t, timed'))

LEMMA ClaimsStep ==
    ASSUME HoldInv, HonestInv, FlowNext,
           \A k \in Kinds : Counted(counts'[k]), SettledInv'
    PROVE  Claims
<1>t. CountTypes /\ ClaimInv
    BY DEF HonestInv
<1>c. /\ \A k : Cap(k) \in Nat /\ CapNext(k) \in Nat /\ Cap(k) <= CapNext(k)
      /\ IsFiniteSet(masks') /\ recounts' \in Nat
    BY <1>t, CapGrows
<1>n. Counted(NoCounts) /\ NoCounts.done = 0
    BY DEF Counted, NoCounts
<1>k. \A t \in SegTasks : KindOf(t, timed) \in Kinds
    BY <1>t DEF KindOf, Kinds, CountTypes
<1>s. ASSUME NEW k \in Kinds
      PROVE  /\ Counted(counts[k]) /\ counts[k].done <= CapNext(k)
             /\ Counted(counts'[k]) /\ counts'[k].done <= CapNext(k)
  <2>1. counts[k].done \in Nat /\ counts'[k].done \in Nat /\ Counted(counts[k])
        /\ Counted(counts'[k])
      BY <1>t DEF CountTypes, Counted
  <2>2. /\ counts[k].done <= Cardinality(Settled(k)) + recounts
        /\ counts'[k].done <= Cardinality(Settled(k)') + recounts'
      BY DEF HonestInv, SettledInv
  <2>3. /\ Cardinality(Settled(k)) \in Nat /\ Cardinality(MasksOf(k)) \in Nat
        /\ Cardinality(Settled(k)) <= Cardinality(MasksOf(k)) /\ recounts \in Nat
      BY <1>t, SettledFinite DEF CountTypes
  <2>4. /\ Cardinality(Settled(k)') \in Nat /\ Cardinality(MasksNext(k)) \in Nat
        /\ Cardinality(Settled(k)') <= Cardinality(MasksNext(k))
    <3>1. MasksNext(k) \subseteq masks' /\ Settled(k)' \subseteq MasksNext(k)
        BY DEF MasksOf, MasksNext, Settled
    <3>2. IsFiniteSet(MasksNext(k))
        BY <3>1, <1>c, FS_Subset
    <3> QED BY <3>1, <3>2, FS_Subset, FS_CardinalityType
  <2>5. Cap(k) \in Nat /\ Cap(k) <= CapNext(k) /\ CapNext(k) \in Nat
      BY <1>c
  <2>6. counts[k].done <= Cap(k) /\ counts'[k].done <= CapNext(k)
      BY <2>1, <2>2, <2>3, <2>4, <1>c DEF Cap, CapNext
  <2> QED BY <2>1, <2>5, <2>6
\* A task claims a count that is covered; the others keep theirs.
<1>1. ASSUME NEW u \in SegTasks, NEW c, Counted(c), timed' = timed,
             c.done = 0 \/ c.done <= CapNext(KindOf(u, timed')),
             UNCHANGED claimed \/ claimed' = [claimed EXCEPT ![u] = c]
             \/ claimed' = [claimed EXCEPT ![u] = c, !["timer"] = NoCounts]
      PROVE  Claims
  <2>1. DOMAIN claimed' = SegTasks
      BY <1>t, <1>1 DEF CountTypes
  <2>2. timed' \in Kinds
      BY <1>t, <1>1 DEF CountTypes
  <2>3. ASSUME NEW t \in SegTasks
        PROVE  Counted(claimed'[t]) /\ claimed'[t].done <= CapNext(KindOf(t, timed'))
    <3>1. Counted(claimed[t]) /\ claimed[t].done <= CapNext(KindOf(t, timed'))
      <4>1. Counted(claimed[t]) /\ claimed[t].done \in Nat
            /\ claimed[t].done <= Cap(KindOf(t, timed))
          BY <1>t DEF CountTypes, ClaimInv, Counted
      <4>2. Cap(KindOf(t, timed)) \in Nat /\ CapNext(KindOf(t, timed')) \in Nat
            /\ Cap(KindOf(t, timed)) <= CapNext(KindOf(t, timed'))
          BY <1>1, <1>c
      <4> QED BY <4>1, <4>2
    <3>2. CapNext(KindOf(t, timed')) \in Nat
        BY <1>c
    <3>3. \/ claimed'[t] = claimed[t] \/ claimed'[t] = NoCounts
          \/ t = u /\ claimed'[t] = c
        BY <1>t, <1>1 DEF CountTypes
    <3> QED BY <3>1, <3>2, <3>3, <1>1, <1>n
  <2> QED BY <2>1, <2>2, <2>3 DEF Claims
<1>2. ASSUME UNCHANGED <<claimed, timed>> PROVE Claims
  <2>1. "timer" \in SegTasks BY DEF SegTasks
  <2> QED BY <2>1, <1>1, <1>2, <1>n
<1>3. ASSUME NEW u \in SegTasks, timed' = timed,
             UNCHANGED claimed \/ claimed' = [claimed EXCEPT ![u] = NoCounts]
      PROVE  Claims
    BY <1>1, <1>3, <1>n
<1>4. CASE FinderNext /\ UNCHANGED segVars
    BY <1>2, <1>4 DEF segVars, segTask
<1>5. ASSUME NEW w \in SegWorkers, NEW x \in left[w], MaskAsset(w, x) PROVE Claims
  <2>1. PICK k \in Kinds : w \in Workers(k) BY WorkersOf
  <2>2. KindOf(w, timed) = k /\ KindOf(w, timed') = k /\ w \in SegTasks BY <2>1, WorkersOf
  <2>3. /\ counts' = [counts EXCEPT ![k] = [counts[k] EXCEPT !.done = @ + 1]]
        /\ timed' = timed
        /\ UNCHANGED claimed
           \/ claimed' = [claimed EXCEPT ![w] = [counts[k] EXCEPT !.done = @ + 1]]
      BY <1>5, <2>2 DEF MaskAsset, Conclude
  <2>4. counts'[k] = [counts[k] EXCEPT !.done = @ + 1]
      BY <2>3, <1>t DEF CountTypes
  <2>5. counts'[k].done <= CapNext(KindOf(w, timed'))
    <3>1. counts'[k].done <= CapNext(k) BY <1>s
    <3> QED BY <3>1, <2>2
  <2>6. Counted(counts'[k]) OBVIOUS
  <2>7. UNCHANGED claimed \/ claimed' = [claimed EXCEPT ![w] = counts'[k]]
      BY <2>3, <2>4
  <2> QED BY <1>1, <2>2, <2>3, <2>5, <2>6, <2>7
<1>6. ASSUME NEW k \in Kinds, NEW c, Counted(c), c.done = counts[k].done, timed' = timed,
             UNCHANGED claimed \/ claimed' = [claimed EXCEPT ![BatchTask(k)] = c]
             \/ claimed' = [claimed EXCEPT ![BatchTask(k)] = c, !["timer"] = NoCounts]
      PROVE  Claims
  <2>1. BatchTask(k) \in SegTasks /\ KindOf(BatchTask(k), timed') = k
      BY TaskKinds
  <2>2. c.done <= CapNext(KindOf(BatchTask(k), timed'))
    <3>1. c.done <= CapNext(k) BY <1>s, <1>6
    <3> QED BY <3>1, <2>1
  <2> QED BY <1>1, <1>6, <2>1, <2>2
<1>7. ASSUME NEW k \in Kinds, NEW sum, AnnounceTotal(k, sum), timed' = timed PROVE Claims
  <2> DEFINE c == [expected |-> sum, done |-> counts[k].done]
  <2>1. BatchTask(k) \in SegTasks
      BY TaskKinds
  <2>2. Counted(c) /\ c.done = counts[k].done
      BY <1>s DEF Counted
  <2>3. \/ claimed' = [claimed EXCEPT ![BatchTask(k)] = c, !["timer"] = NoCounts]
        \/ claimed' = [claimed EXCEPT ![BatchTask(k)] = NoCounts, !["timer"] = NoCounts]
      BY <1>7 DEF AnnounceTotal
  <2> HIDE DEF c
  <2>4. CASE claimed' = [claimed EXCEPT ![BatchTask(k)] = c, !["timer"] = NoCounts]
      BY <2>2, <2>4, <1>6, <1>7
  <2>5. CASE claimed' = [claimed EXCEPT ![BatchTask(k)] = NoCounts, !["timer"] = NoCounts]
      BY <2>1, <2>5, <1>1, <1>7, <1>n
  <2> QED BY <2>3, <2>4, <2>5
<1>8. ASSUME NEW b, TakeImagesBatch(b) \/ TakeVideosBatch(b) PROVE Claims
  <2>1. timed' = timed
        /\ (AnnounceTotal("image", b.total) \/ AnnounceTotal("video", b.total)
            \/ UNCHANGED claimed)
      BY <1>8 DEF TakeImagesBatch, TakeVideosBatch
  <2> QED BY <2>1, <1>2, <1>7, WorkersOf
<1>9. ASSUME NEW k \in Kinds, Recheck(k) PROVE Claims
  <2> DEFINE c == [counts[k] EXCEPT !.expected = smsg[BatchTask(k)].total]
  <2>1. Counted(c) /\ c.done = counts[k].done
      BY <1>s DEF Counted
  <2>2. timed' = timed
        /\ (UNCHANGED claimed \/ claimed' = [claimed EXCEPT ![BatchTask(k)] = c])
      BY <1>9 DEF Recheck, Conclude
  <2> HIDE DEF c
  <2> QED BY <2>1, <2>2, <1>6
<1>10. CASE Expire
  <2> DEFINE k == tracking[1]
  <2>1. "timer" \in SegTasks BY DEF SegTasks
  <2>2. \/ UNCHANGED <<claimed, timed>>
        \/ /\ timed' = k /\ claimed' = [claimed EXCEPT !["timer"] = counts[k]]
           /\ mirror.done < mirror.expected
      BY <1>10 DEF Expire
  <2>3. CASE timed' = k /\ claimed' = [claimed EXCEPT !["timer"] = counts[k]]
             /\ mirror.done < mirror.expected
    <3>1. mirror # NoCounts
        BY <2>3 DEF NoCounts
    <3>2. tracking \in Seq(Kinds) /\ tracking # <<>>
        BY <3>1, <1>t DEF CountTypes
    <3>3. k \in Kinds
        BY <3>2
    <3> HIDE DEF k
    <3>4. DOMAIN claimed' = SegTasks /\ claimed'["timer"] = counts[k]
          /\ \A t \in SegTasks \ {"timer"} : claimed'[t] = claimed[t]
        BY <2>1, <2>3, <1>t DEF CountTypes
    <3>5. ASSUME NEW t \in SegTasks
          PROVE  Counted(claimed'[t]) /\ claimed'[t].done <= CapNext(KindOf(t, timed'))
      <4>1. CASE t = "timer"
        <5>1. KindOf(t, timed') = k
          <6>1. t \notin ImageWorkers \cup {"imageBatch"}
              BY <4>1, WorkersOf
          <6> QED BY <6>1, <4>1, <2>3 DEF KindOf
        <5> QED BY <5>1, <4>1, <3>3, <3>4, <1>s
      <4>2. CASE t # "timer"
        <5>1. KindOf(t, timed') = KindOf(t, timed)
            BY <4>2 DEF KindOf
        <5>2. CapNext(KindOf(t, timed')) \in Nat /\ Cap(KindOf(t, timed)) \in Nat
              /\ Cap(KindOf(t, timed)) <= CapNext(KindOf(t, timed'))
            BY <5>1, <1>c
        <5>3. Counted(claimed[t]) /\ claimed[t].done \in Nat
              /\ claimed[t].done <= Cap(KindOf(t, timed))
            BY <1>t DEF CountTypes, ClaimInv, Counted
        <5> QED BY <5>2, <5>3, <3>4, <4>2
      <4> QED BY <4>1, <4>2
    <3> QED BY <3>3, <3>4, <3>5, <2>3 DEF Claims
  <2> QED BY <2>2, <2>3, <1>2
<1>11. CASE SegCrash
  <2>1. claimed' = [t \in SegTasks |-> NoCounts] /\ timed' = "image"
      BY <1>11 DEF SegCrash, ForgetAll
  <2>2. \A t \in SegTasks : CapNext(KindOf(t, timed')) \in Nat
      BY <1>c
  <2> QED BY <2>1, <2>2, <1>n, WorkersOf DEF Claims
<1>12. ASSUME NEW w \in SegWorkers,
              \/ \E im \in readyImages : TakeImage(w, im)
              \/ \E m \in readyVideos : TakeVideo(w, m)
              \/ EmitMasked(w) \/ AckAssets(w) \/ RaiseAssets(w)
              \/ \E x \in left[w] : LoseAsset(w, x)
       PROVE  Claims
  <2>1. w \in SegTasks BY WorkersOf
  <2>2. /\ timed' = timed
        /\ UNCHANGED claimed \/ claimed' = [claimed EXCEPT ![w] = NoCounts]
      BY <1>12 DEF TakeImage, TakeVideo, EmitMasked, AckAssets, RaiseAssets, LoseAsset
  <2> QED BY <2>1, <2>2, <1>3
<1>13. ASSUME NEW t \in SegTasks, PublishSegmented(t) \/ PublishMaskedBatch(t) PROVE Claims
  <2>1. /\ timed' = timed
        /\ UNCHANGED claimed \/ claimed' = [claimed EXCEPT ![t] = NoCounts]
      BY <1>13 DEF PublishSegmented, PublishMaskedBatch
  <2> QED BY <2>1, <1>3
<1>14. ASSUME NEW k \in Kinds, Mirror(k) \/ RaiseBatch(k) PROVE Claims
  <2>1. BatchTask(k) \in SegTasks BY TaskKinds
  <2>2. /\ timed' = timed
        /\ UNCHANGED claimed \/ claimed' = [claimed EXCEPT ![BatchTask(k)] = NoCounts]
      BY <1>14 DEF Mirror, RaiseBatch
  <2> QED BY <2>1, <2>2, <1>3
<1>15. CASE TimerDies
  <2>1. "timer" \in SegTasks BY DEF SegTasks
  <2> QED BY <2>1, <1>15, <1>3 DEF TimerDies
<1>16. ImageWorkers \subseteq SegWorkers /\ VideoWorkers \subseteq SegWorkers
    BY WorkersOf
<1> QED BY <1>4, <1>5, <1>8, <1>9, <1>10, <1>11, <1>12, <1>13, <1>14, <1>15, <1>16
        DEF FlowNext, SegmentorNext, SegmentorWork, Deliver, WorkerStep, SegPublish, BatchStep

LEMMA SaidStep ==
    ASSUME HoldInv, HonestInv, SentInv, FlowNext
    PROVE  SaidInv'
<1>t. CountTypes /\ SaidInv /\ ClaimInv
    BY DEF HonestInv
<1>c. \A k : Cap(k) \in Nat /\ CapNext(k) \in Nat /\ Cap(k) <= CapNext(k)
    BY <1>t, CapGrows
<1>0. ASSUME \A n \in DOMAIN maskedBatch' :
                /\ maskedBatch'[n].kind \in Kinds /\ maskedBatch'[n].count \in Nat
                /\ maskedBatch'[n].count <= CapNext(maskedBatch'[n].kind)
      PROVE  SaidInv'
    BY <1>0 DEF SaidInv, CapNext, MasksNext, Cap, MasksOf
<1>1. ASSUME NEW m, m.kind \in Kinds, m.count \in Nat, m.count <= Cap(m.kind)
      PROVE  m.count <= CapNext(m.kind)
  <2>1. Cap(m.kind) \in Nat /\ CapNext(m.kind) \in Nat /\ Cap(m.kind) <= CapNext(m.kind)
      BY <1>c
  <2> QED BY <2>1, <1>1
<1>2. ASSUME UNCHANGED maskedBatch PROVE SaidInv'
  <2>1. ASSUME NEW n \in DOMAIN maskedBatch
        PROVE  /\ maskedBatch[n].kind \in Kinds /\ maskedBatch[n].count \in Nat
               /\ maskedBatch[n].count <= CapNext(maskedBatch[n].kind)
      BY <1>t, <1>1 DEF SaidInv
  <2> QED BY <2>1, <1>0, <1>2
<1>3. ASSUME NEW t \in SegTasks, PublishMaskedBatch(t) PROVE SaidInv'
  <2> DEFINE e == [kind |-> KindOf(t, timed), count |-> claimed[t].done]
             L == Len(maskedBatch)
  <2>1. maskedBatch' = Append(maskedBatch, e)
      BY <1>3 DEF PublishMaskedBatch
  <2>2. e.kind \in Kinds /\ e.count \in Nat /\ e.count <= Cap(e.kind)
      BY <1>t DEF KindOf, Kinds, CountTypes, ClaimInv, Counted
  <2> HIDE DEF e
  <2>3. maskedBatch \in Seq(Elements(maskedBatch) \cup {e})
      BY DEF SentInv, SentTypes
  <2>4. /\ L \in Nat /\ DOMAIN maskedBatch = 1..L /\ DOMAIN maskedBatch' = 1..L+1
        /\ maskedBatch'[L+1] = e /\ \A n \in 1..L : maskedBatch'[n] = maskedBatch[n]
      BY <2>1, <2>3
  <2> HIDE DEF L
  <2>5. ASSUME NEW n \in DOMAIN maskedBatch'
        PROVE  /\ maskedBatch'[n].kind \in Kinds /\ maskedBatch'[n].count \in Nat
               /\ maskedBatch'[n].count <= CapNext(maskedBatch'[n].kind)
    <3>1. CASE n = L+1 BY <3>1, <2>2, <2>4, <1>1
    <3>2. CASE n \in 1..L BY <3>2, <2>4, <1>t, <1>1 DEF SaidInv
    <3> QED BY <3>1, <3>2, <2>4
  <2> QED BY <2>5, <1>0
<1>4. ASSUME SegmentorNext, \A t \in SegTasks : ~PublishMaskedBatch(t) PROVE SaidInv'
  <2>1. ASSUME NEW w \in SegWorkers,
               \/ \E im \in readyImages : TakeImage(w, im)
               \/ \E m \in readyVideos : TakeVideo(w, m)
               \/ EmitMasked(w) \/ AckAssets(w) \/ RaiseAssets(w)
               \/ \E x \in left[w] : LoseAsset(w, x) \/ MaskAsset(w, x)
        PROVE  UNCHANGED maskedBatch
      BY <2>1 DEF TakeImage, TakeVideo, EmitMasked, AckAssets, RaiseAssets, LoseAsset,
                  MaskAsset, segOut
  <2>2. ASSUME NEW k \in Kinds, BatchStep(k) \/ RaiseBatch(k) PROVE UNCHANGED maskedBatch
      BY <2>2 DEF BatchStep, Recheck, Mirror, RaiseBatch, segOut
  <2>3. ASSUME NEW t \in SegTasks, PublishSegmented(t) PROVE UNCHANGED maskedBatch
      BY <2>3 DEF PublishSegmented, segOut
  <2>4. CASE Expire \/ TimerDies \/ SegCrash
      BY <2>4, <1>2 DEF Expire, TimerDies, SegCrash, segOut
  <2>5. ASSUME NEW b, TakeImagesBatch(b) \/ TakeVideosBatch(b) PROVE UNCHANGED maskedBatch
      BY <2>5 DEF TakeImagesBatch, TakeVideosBatch, segOut
  <2> QED BY <1>2, <1>4, <2>1, <2>2, <2>3, <2>4, <2>5, WorkersOf
          DEF SegmentorNext, SegmentorWork, Deliver, WorkerStep, SegPublish
<1>5. CASE UNCHANGED segVars
    BY <1>2, <1>5 DEF segVars, segOut
<1> QED BY <1>3, <1>4, <1>5 DEF FlowNext

FlowInv == CollectInv /\ FreshInv /\ HoldInv /\ SentInv /\ HonestInv

LEMMA FlowInvInit == FlowInit => FlowInv
<1>1. FlowInit => FreshInv
    BY DEF FlowInit, FinderInit, FreshInv
<1> QED BY <1>1, CollectInit, SentInit, HoldInit, HonestInit DEF FlowInv, FlowInit

LEMMA FlowStep == FlowInv /\ [FlowNext]_flowVars => FlowInv'
<1> SUFFICES ASSUME FlowInv, [FlowNext]_flowVars PROVE FlowInv'
    OBVIOUS
<1> USE DEF FlowInv
<1>1. CollectInv' /\ FreshInv'
    BY CollectStep, FreshStep DEF FlowNext, flowVars
<1>2. SentInv'
    BY SentStep DEF FlowNext, flowVars
<1>3. CASE FlowNext
  <2>1. HoldInv'
    <3>1. CASE FinderNext /\ UNCHANGED segVars
      <4>1. UNCHANGED <<smsg, left, spc, masks, readyVideos>>
          BY <3>1, NewImage DEF segVars, segTask, segOut
      <4>2. CASE UNCHANGED <<readyImages, announced>>
        <5>1. Holding BY <4>1, <4>2 DEF Holding, HoldInv, HoldTypes
        <5> QED BY <5>1, HoldingHolds
      <4>3. ASSUME NEW im \in Nat \X Items \X Nat, im \notin announced,
                   announced' = announced \cup {im}, readyImages' = readyImages \cup {im}
            PROVE  HoldInv'
        <5>1. im \notin Frames
            BY FlowAssumption
        <5>2. HoldTypes'
            BY <4>1 DEF HoldInv, HoldTypes
        <5>3. ASSUME NEW k \in Kinds
              PROVE  /\ Ready(k)' \subseteq Assets(k)'
                     /\ \A w \in Workers(k) : smsg'[w] \subseteq Assets(k)' \ Ready(k)'
                     /\ \A w, u \in Workers(k) : w # u => smsg'[w] \cap smsg'[u] = {}
          <6>1. CASE k = "image"
              BY <6>1, <4>1, <4>3 DEF HoldInv, Ready, Assets
          <6>2. CASE k = "video"
              BY <6>2, <4>1, <4>3 DEF HoldInv, Ready, Assets
          <6> QED BY <6>1, <6>2, WorkersOf
        <5> QED BY <4>1, <4>3, <5>1, <5>2, <5>3 DEF HoldInv
      <4> QED BY <3>1, <4>2, <4>3, NewImage
    <3>2. CASE SegmentorNext /\ UNCHANGED finderVars
        BY <3>2, HoldingSteps, HoldingHolds, HoldMoves
    <3> QED BY <1>3, <3>1, <3>2 DEF FlowNext
  <2>2. DOMAIN counts' = Kinds /\ (\A k \in Kinds : Counted(counts'[k])) /\ SettledInv'
      BY <1>3, SettledStep DEF HonestInv
  <2>3. Claims
      BY <1>3, <2>2, ClaimsStep
  <2>4. IsFiniteSet(masks') /\ recounts' \in Nat
      BY <1>3, CapGrows DEF HonestInv
  <2>5. tracking' \in Seq(Kinds) /\ (tracking' = <<>> => mirror' = NoCounts)
      BY <1>3, TrackStep DEF FlowNext, HonestInv, CountTypes, segVars, segMemory
  <2>6. CountTypes' /\ ClaimInv'
      BY <2>2, <2>3, <2>4, <2>5
         DEF Claims, CountTypes, ClaimInv, Counted, CapNext, MasksNext, Cap, MasksOf
  <2> QED BY <1>1, <1>2, <1>3, <2>1, <2>2, <2>6, SaidStep DEF HonestInv
<1>4. CASE UNCHANGED flowVars
  <2>1. UNCHANGED <<counts, claimed, timed, tracking, mirror, masks, recounts, maskedBatch>>
        /\ UNCHANGED <<spc, smsg, left, readyImages, readyVideos, announced>>
      BY <1>4 DEF flowVars, finderVars, stored, segVars, segMemory, segTask, segOut, segPast, bus
  <2>2. Holding
      BY <2>1 DEF Holding, HoldInv, HoldTypes
  <2>3. HonestInv'
    <3>1. CountTypes'
        BY <2>1 DEF HonestInv, CountTypes, Counted
    <3>2. SettledInv'
        BY <2>1 DEF HonestInv, SettledInv, Settled, ToMask, Ready, MasksOf
    <3>3. ClaimInv'
        BY <2>1 DEF HonestInv, ClaimInv, Cap, MasksOf, Counted
    <3>4. SaidInv'
        BY <2>1 DEF HonestInv, SaidInv, Cap, MasksOf
    <3> QED BY <3>1, <3>2, <3>3, <3>4 DEF HonestInv
  <2> QED BY <1>1, <1>2, <2>2, <2>3, HoldingHolds
<1> QED BY <1>3, <1>4

\* The count in a masked batch, for which both vision services wait, is at most
\* the number of masks of its kind, up to assets of messages that raised and
\* came again (service.py of product-segmentor).
THEOREM MaskedHonestHolds == FlowSpec => []MaskedHonest
<1>1. FlowInv => MaskedHonest
  <2> SUFFICES ASSUME FlowInv PROVE MaskedHonest
      OBVIOUS
  <2>1. CountTypes /\ SettledInv /\ SaidInv
      BY DEF FlowInv, HonestInv
  <2>2. ASSUME NEW k \in Kinds PROVE counts[k].done <= Cardinality(MasksOf(k)) + recounts
    <3>1. /\ Cardinality(Settled(k)) \in Nat /\ Cardinality(MasksOf(k)) \in Nat
          /\ Cardinality(Settled(k)) <= Cardinality(MasksOf(k))
        BY <2>1, SettledFinite DEF CountTypes
    <3>2. counts[k].done \in Nat /\ recounts \in Nat
          /\ counts[k].done <= Cardinality(Settled(k)) + recounts
        BY <2>1 DEF CountTypes, SettledInv, Counted
    <3> QED BY <3>1, <3>2
  <2> QED BY <2>1, <2>2 DEF MaskedHonest, SaidInv, Cap
<1> QED BY FlowInvInit, <1>1, FlowStep, PTL DEF FlowSpec

-----------------------------------------------------------------------------
\* Types, which the bounds and the contents of messages add to the above

ImageTotals == [id : 1..MaxAttempts, total : Nat]
VideoBatchTotals == [id : Nat, total : Nat]
Counts == [expected : Nat, done : Nat]

\* A handler runs in a delivery, so what it stores carries one.
FinderTypes ==
    /\ request \in {"queued", "taken", "done"} /\ attempt \in 0..MaxAttempts
    /\ stage # "idle" => attempt # 0
    /\ total \in Nat /\ emitted \in BOOLEAN
    /\ buffer \in [Items -> Seq(Images)]
    /\ rows \subseteq Images /\ orphans \subseteq Images /\ IsFiniteSet(rows)
    /\ finderCrashes \in 0..MaxFinderCrashes /\ finderFaults \in 0..MaxFinderFaults

LEMMA SeqFinite ==
    ASSUME NEW S, NEW s \in Seq(S)
    PROVE  IsFiniteSet(Elements(s))
<1>1. DOMAIN s = 1..Len(s) /\ Len(s) \in Nat
    OBVIOUS
<1>2. IsFiniteSet(1..Len(s))
    BY <1>1, FS_Interval
<1>3. s \in Surjection(1..Len(s), Elements(s))
    BY <1>1 DEF Surjection, Elements
<1> QED BY <1>2, <1>3, FS_Surjection

LEMMA BufferedTypes ==
    ASSUME FinderTypes, NEW i \in Items
    PROVE  Buffered(i) \subseteq Images /\ IsFiniteSet(Buffered(i))
<1>1. buffer[i] \in Seq(Images)
    BY DEF FinderTypes
<1>2. Buffered(i) = Elements(buffer[i])
    BY DEF Buffered, Elements
<1>3. Elements(buffer[i]) \subseteq Images
    BY <1>1 DEF Elements
<1> QED BY <1>1, <1>2, <1>3, SeqFinite

LEMMA FinderTypesInit == FinderInit => FinderTypes
<1> SUFFICES ASSUME FinderInit PROVE FinderTypes
    OBVIOUS
<1> USE DEF FinderInit
<1>1. IsFiniteSet(rows)
    BY FS_EmptySet
<1>2. <<>> \in Seq(Images)
    OBVIOUS
<1>3. buffer \in [Items -> Seq(Images)]
    BY <1>2
<1>4. attempt \in 0..MaxAttempts /\ finderCrashes \in 0..MaxFinderCrashes
      /\ finderFaults \in 0..MaxFinderFaults
    BY FinderAssumption
<1>5. rows \subseteq Images /\ orphans \subseteq Images /\ total \in Nat /\ emitted \in BOOLEAN
      /\ request = "queued" /\ stage = "idle"
    OBVIOUS
<1> HIDE DEF FinderInit
<1> QED BY <1>1, <1>3, <1>4, <1>5 DEF FinderTypes

LEMMA FinderTypesStep ==
    ASSUME CollectTypes, TasksInv, FinderTypes, [FinderNext]_finderVars
    PROVE  FinderTypes'
<1> USE DEF FinderTypes, handler, storing, stored, finderBound
<1>0. MaxAttempts \in Nat /\ MaxFinderCrashes \in Nat /\ MaxFinderFaults \in Nat
    BY FinderAssumption
<1>f. FinderFault => finderFaults' \in 0..MaxFinderFaults /\ UNCHANGED finderCrashes
    BY <1>0 DEF FinderFault
<1>1. CASE TakeRequest
    BY <1>0, <1>1 DEF TakeRequest
<1>2. ASSUME NEW q \in Queries, NEW found \in SUBSET Found[q], Browse(q, found)
      PROVE  FinderTypes'
    BY <1>2 DEF Browse
<1>3. CASE HandlerStep
  <2>1. Cardinality(rows) \in Nat
      BY FS_CardinalityType
  <2>2. CASE Count
    <3>1. emitted' \in BOOLEAN /\ total' \in Nat
        BY <2>1, <2>2 DEF Count
    <3> QED BY <2>2, <3>1 DEF Count, Gathered
  <2>3. CASE PublishCollected \/ PublishImagesBatch \/ AckRequest
      BY <2>3 DEF PublishCollected, PublishImagesBatch, AckRequest
  <2> QED BY <1>3, <2>2, <2>3 DEF HandlerStep
<1>4. ASSUME NEW i \in Items, StoreStep(i) PROVE FinderTypes'
  <2>1. CASE BeginStore(i) BY <2>1 DEF BeginStore
  <2>2. CASE SkipImage(i) BY <2>2 DEF SkipImage
  <2>3. CASE StoreImage(i)
    <3>1. attempt \in 1..MaxAttempts
      <4>1. stage = "collect"
          BY <2>3 DEF StoreImage, TasksInv
      <4>2. attempt \in 0..MaxAttempts /\ attempt # 0
          BY <4>1
      <4> QED BY <4>2, <1>0
    <3>2. shot' = [shot EXCEPT ![i] = @ + 1] /\ shot[i] \in Nat /\ i \in DOMAIN shot
        BY <2>3 DEF StoreImage, CollectTypes
    <3>3. <<attempt, i, shot'[i]>> \in Images
        BY <3>1, <3>2 DEF Images
    <3>4. Append(buffer[i], <<attempt, i, shot'[i]>>) \in Seq(Images)
        BY <3>3, AppendElements
    <3>5. buffer' \in [Items -> Seq(Images)]
        BY <2>3, <3>4 DEF StoreImage
    <3> QED BY <2>3, <3>5 DEF StoreImage
  <2>4. CASE Commit(i)
    <3>1. rows' \subseteq Images /\ orphans' \subseteq Images /\ IsFiniteSet(rows')
        BY <2>4, BufferedTypes, FS_Union DEF Commit
    <3> QED BY <2>4, <3>1 DEF Commit
  <2>5. CASE Announce(i)
    <3>1. buffer[i] \in Seq(Images) /\ buffer[i] # <<>>
        BY <2>5 DEF Announce, CollectTypes
    <3>2. Tail(buffer[i]) \in Seq(Images)
        BY <3>1, TailType
    <3>3. buffer' \in [Items -> Seq(Images)]
        BY <2>5, <3>2 DEF Announce
    <3> QED BY <2>5, <3>3 DEF Announce
  <2> QED BY <1>4, <2>1, <2>2, <2>3, <2>4, <2>5 DEF StoreStep
<1>5. ASSUME NEW i \in Items, StoreFault(i) PROVE FinderTypes'
  <2>1. CASE FailStore(i) BY <2>1, <1>f DEF FailStore
  <2>2. CASE BreakImage(i) BY <2>2, <1>f DEF BreakImage
  <2>3. CASE FailCommit(i)
    <3>1. rows' \subseteq Images /\ IsFiniteSet(rows')
        BY <2>3, BufferedTypes, FS_Union DEF FailCommit
    <3> QED BY <2>3, <3>1, <1>f DEF FailCommit
  <2>4. CASE FailAnnounce(i) BY <2>4, <1>f DEF FailAnnounce
  <2> QED BY <1>5, <2>1, <2>2, <2>3, <2>4 DEF StoreFault
<1>6. CASE RaiseCollect
  <2>1. request' = "queued" /\ stage' = "idle" /\ finderFaults' \in 0..MaxFinderFaults
        /\ UNCHANGED <<attempt, total, emitted, buffer, rows, orphans, finderCrashes>>
      BY <1>6, <1>f DEF RaiseCollect
  <2> QED BY <2>1
<1>7. CASE FinderCrash
  <2>1. request' = "queued" /\ stage' = "idle" /\ emitted' = FALSE
        /\ UNCHANGED <<attempt, total, buffer, rows, orphans, finderFaults>>
      BY <1>7 DEF FinderCrash
  <2>2. finderCrashes' \in 0..MaxFinderCrashes
      BY <1>7, <1>0 DEF FinderCrash
  <2> QED BY <2>1, <2>2
<1>8. CASE UNCHANGED finderVars
    BY <1>8 DEF finderVars
<1> QED BY <1>1, <1>2, <1>3, <1>4, <1>5, <1>6, <1>7, <1>8
        DEF FinderNext, FinderWork, Search

-----------------------------------------------------------------------------
\* The segmentor

TrackTypesOK ==
    \/ tracking = <<>> \/ \E k \in Kinds : tracking = <<k>>
    \/ tracking \in {<<"image", "video">>, <<"video", "image">>}

SegTypes ==
    /\ TrackTypesOK
    /\ counts \in [Kinds -> Counts] /\ mirror \in Counts
    /\ claimed \in [SegTasks -> Counts]
    /\ batchKnown \subseteq Kinds /\ completed \subseteq Kinds /\ batched \subseteq Kinds
    /\ segCrashes \in 0..MaxSegCrashes /\ segFaults \in 0..MaxSegFaults

\* A batch task that is busy has a batch message, which it gives back as it was.
BatchTypes ==
    /\ imageBatches \subseteq ImageTotals /\ videoBatches \subseteq VideoBatchTotals
    /\ seen \subseteq Nat
    /\ smsg["imageBatch"] \in ImageTotals \cup {NoBatch}
    /\ smsg["videoBatch"] \in VideoBatchTotals
    /\ spc["imageBatch"] # "idle" => smsg["imageBatch"] \in ImageTotals

\* What is masked in a message is of it, and on disk.
MadeTypes ==
    /\ DOMAIN made = SegWorkers /\ maskedOut \subseteq masks
    /\ \A w \in SegWorkers : made[w] \subseteq smsg[w] \ left[w] /\ made[w] \subseteq masks

LEMMA CountsTypes ==
    /\ NoCounts \in Counts /\ NoBatch \in VideoBatchTotals
    /\ \A c \in Counts : [c EXCEPT !.done = @ + 1] \in Counts
    /\ \A c \in Counts : \A n \in Nat : [c EXCEPT !.expected = n] \in Counts
    /\ \A c \in Counts : \A n \in Nat : [expected |-> n, done |-> c.done] \in Counts
    /\ \A b \in ImageTotals \cup VideoBatchTotals \cup {NoBatch} : b.total \in Nat
BY DEF NoCounts, NoBatch, Counts, VideoBatchTotals, ImageTotals

LEMMA BatchNames ==
    /\ "imageBatch" \in SegTasks /\ "videoBatch" \in SegTasks /\ "timer" \in SegTasks
    /\ "imageBatch" \notin SegWorkers /\ "videoBatch" \notin SegWorkers
    /\ "timer" \notin SegWorkers /\ SegTasks = SegWorkers \cup {"imageBatch", "videoBatch", "timer"}
    /\ BatchTask("image") = "imageBatch" /\ BatchTask("video") = "videoBatch"
    /\ Kinds = {"image", "video"} /\ BatchTasks = {"imageBatch", "videoBatch"}
<1>1. BatchTask("image") = "imageBatch" /\ BatchTask("video") = "videoBatch"
      /\ Kinds = {"image", "video"}
    BY DEF BatchTask, Kinds
<1>2. BatchTasks = {"imageBatch", "videoBatch"}
    BY <1>1 DEF BatchTasks
<1> QED BY <1>1, <1>2, SegmentorAssumption DEF SegTasks

LEMMA TrackShape ==
    ASSUME TrackTypesOK, NEW k \in Kinds, tracking' = Track(k)
    PROVE  TrackTypesOK'
<1>1. CASE Tracked(k)
    BY <1>1 DEF Track, TrackTypesOK
<1>2. CASE ~Tracked(k)
  <2>1. tracking' = Append(tracking, k)
      BY <1>2 DEF Track
  <2>2. CASE tracking = <<>>
    <3>1. tracking' = <<k>> BY <2>1, <2>2
    <3> QED BY <3>1 DEF TrackTypesOK
  <2>3. ASSUME NEW l \in Kinds, tracking = <<l>> PROVE TrackTypesOK'
    <3>1. l # k
        BY <1>2, <2>3 DEF Tracked
    <3>2. Append(<<l>>, k) = <<l, k>>
      <4> DEFINE s == Append(<<l>>, k)
      <4>1. s \in Seq(Kinds) /\ Len(s) = 2 /\ s[1] = l /\ s[2] = k
          OBVIOUS
      <4>2. <<l, k>> \in Seq(Kinds) /\ Len(<<l, k>>) = 2 /\ <<l, k>>[1] = l /\ <<l, k>>[2] = k
          OBVIOUS
      <4> HIDE DEF s
      <4>3. \A i \in 1..2 : s[i] = <<l, k>>[i]
          BY <4>1, <4>2
      <4>4. s = <<l, k>>
          BY <4>1, <4>2, <4>3, SeqEqual
      <4> QED BY <4>4 DEF s
    <3>3. tracking' = <<l, k>>
        BY <2>1, <2>3, <3>2
    <3> QED BY <3>1, <3>3 DEF TrackTypesOK, Kinds
  <2>4. CASE tracking \in {<<"image", "video">>, <<"video", "image">>}
    <3>1. \A l \in Kinds : \E n \in DOMAIN tracking : tracking[n] = l
      <4>1. 1 \in DOMAIN tracking /\ 2 \in DOMAIN tracking
          BY <2>4
      <4>2. \/ tracking[1] = "image" /\ tracking[2] = "video"
            \/ tracking[1] = "video" /\ tracking[2] = "image"
          BY <2>4
      <4> QED BY <4>1, <4>2 DEF Kinds
    <3> QED BY <3>1, <1>2 DEF Tracked
  <2> QED BY <2>2, <2>3, <2>4 DEF TrackTypesOK
<1> QED BY <1>1, <1>2

LEMMA ConcludeTypes ==
    ASSUME SegTypes, NEW t \in SegTasks, NEW k \in Kinds, NEW reached, NEW c \in Counts,
           NEW rest, Conclude(t, k, reached, c, rest)
    PROVE  completed' \subseteq Kinds /\ claimed' \in [SegTasks -> Counts]
BY DEF Conclude, SegTypes

LEMMA AnnounceTypes ==
    ASSUME SegTypes, NEW k \in Kinds, NEW sum \in Nat, AnnounceTotal(k, sum)
    PROVE  /\ TrackTypesOK' /\ counts' \in [Kinds -> Counts]
           /\ claimed' \in [SegTasks -> Counts]
           /\ batchKnown' \subseteq Kinds /\ completed' \subseteq Kinds
           /\ batched' \subseteq Kinds
<1> DEFINE t == BatchTask(k)
           c == [expected |-> sum, done |-> counts[k].done]
<1>1. counts[k] \in Counts /\ TrackTypesOK
    BY DEF SegTypes
<1>2. c \in Counts /\ NoCounts \in Counts
    BY <1>1, CountsTypes
<1>3. batchKnown' \subseteq Kinds
    BY DEF AnnounceTotal, SegTypes
<1>4. CASE sum = 0
  <2>1. UNCHANGED <<tracking, counts, completed>> /\ batched' \subseteq Kinds
      BY <1>4 DEF AnnounceTotal, SegTypes
  <2>2. claimed' = [claimed EXCEPT ![t] = NoCounts, !["timer"] = NoCounts]
      BY <1>4 DEF AnnounceTotal
  <2>3. claimed' \in [SegTasks -> Counts]
      BY <2>2, <1>2 DEF SegTypes
  <2>4. TrackTypesOK'
      BY <2>1, <1>1 DEF TrackTypesOK
  <2> QED BY <1>3, <2>1, <2>3, <2>4 DEF SegTypes
<1>5. CASE sum # 0
  <2> DEFINE sends == SegReached(c) /\ k \notin completed
  <2>1. /\ tracking' = Track(k) /\ counts' = [counts EXCEPT ![k] = c] /\ UNCHANGED batched
        /\ completed' = IF sends THEN completed \cup {k} ELSE completed
        /\ claimed' = [claimed EXCEPT ![t] = IF sends THEN c ELSE NoCounts,
                                      !["timer"] = NoCounts]
      BY <1>5 DEF AnnounceTotal
  <2> HIDE DEF sends, c, t
  <2>2. counts' \in [Kinds -> Counts] /\ claimed' \in [SegTasks -> Counts]
        /\ completed' \subseteq Kinds
      BY <2>1, <1>2 DEF SegTypes
  <2>3. TrackTypesOK'
      BY <2>1, <1>1, TrackShape
  <2> QED BY <1>3, <2>1, <2>2, <2>3 DEF SegTypes
<1> QED BY <1>4, <1>5

LEMMA SegTypesStep ==
    ASSUME SegTypes, BatchTypes, CountTypes, [SegmentorNext]_segVars
    PROVE  SegTypes'
<1> USE DEF segMemory, segBound
<1>0. MaxSegCrashes \in Nat /\ MaxSegFaults \in Nat /\ SegHigh \in Nat
    BY SegmentorAssumption
<1>f. SegFault => segFaults' \in 0..MaxSegFaults /\ UNCHANGED segCrashes
    BY <1>0 DEF SegFault, SegTypes
<1>t. TrackTypesOK /\ (UNCHANGED tracking => TrackTypesOK')
    BY DEF SegTypes, TrackTypesOK
<1>c. NoCounts \in Counts /\ claimed \in [SegTasks -> Counts]
    BY CountsTypes DEF SegTypes
<1>1. ASSUME NEW w \in SegWorkers, NEW im, TakeImage(w, im) PROVE SegTypes'
  <2>1. "image" \in Kinds BY DEF Kinds
  <2>2. counts["image"] \in Counts BY <2>1 DEF SegTypes
  <2>3. [counts["image"] EXCEPT !.expected = SegHigh] \in Counts
      BY <2>2, <1>0, CountsTypes
  <2>4. counts' \in [Kinds -> Counts]
    <3>1. CASE "image" \in batchKnown BY <3>1, <1>1 DEF TakeImage, SegTypes
    <3>2. CASE "image" \notin batchKnown
        BY <3>2, <1>1, <2>1, <2>3 DEF TakeImage, SegTypes
    <3> QED BY <3>1, <3>2
  <2>5. TrackTypesOK'
      BY <1>1, <1>t, <2>1, TrackShape DEF TakeImage
  <2> QED BY <1>1, <2>4, <2>5 DEF TakeImage, SegTypes
<1>2. ASSUME NEW w \in SegWorkers,
             \/ \E m \in readyVideos : TakeVideo(w, m)
             \/ EmitMasked(w) \/ AckAssets(w)
             \/ \E x \in left[w] : LoseAsset(w, x)
      PROVE  SegTypes'
  <2>1. UNCHANGED <<segMemory, claimed, segBound>>
      BY <1>2 DEF TakeVideo, EmitMasked, AckAssets, LoseAsset
  <2> QED BY <2>1, <1>t DEF SegTypes
<1>3. ASSUME NEW w \in SegWorkers, RaiseAssets(w) PROVE SegTypes'
  <2>1. UNCHANGED segMemory /\ SegFault /\ claimed' = [claimed EXCEPT ![w] = NoCounts]
      BY <1>3 DEF RaiseAssets
  <2>2. claimed' \in [SegTasks -> Counts]
      BY <2>1, <1>c
  <2> QED BY <2>1, <2>2, <1>f, <1>t DEF SegTypes
<1>4. ASSUME NEW w \in SegWorkers, NEW x \in left[w], MaskAsset(w, x) PROVE SegTypes'
  <2>1. PICK k \in Kinds : k = KindOf(w, timed)
      BY WorkersOf
  <2> DEFINE c == [counts[k] EXCEPT !.done = @ + 1]
  <2>2. c \in Counts
      BY CountsTypes DEF SegTypes
  <2>3. /\ tracking' = Track(k) /\ counts' = [counts EXCEPT ![k] = c]
        /\ Conclude(w, k, c.expected \notin {0, SegHigh} /\ SegReached(c), c, "next")
        /\ UNCHANGED <<batchKnown, mirror, batched, segBound>>
      BY <1>4, <2>1 DEF MaskAsset
  <2> HIDE DEF c
  <2>4. completed' \subseteq Kinds /\ claimed' \in [SegTasks -> Counts]
      BY <2>2, <2>3, ConcludeTypes, WorkersOf
  <2>5. TrackTypesOK' /\ counts' \in [Kinds -> Counts]
      BY <2>2, <2>3, <1>t, TrackShape DEF SegTypes
  <2> QED BY <2>3, <2>4, <2>5 DEF SegTypes
<1>5. ASSUME NEW t \in SegTasks, PublishSegmented(t) \/ PublishMaskedBatch(t) PROVE SegTypes'
  <2>1. KindOf(t, timed) \in Kinds
      BY DEF KindOf, Kinds, CountTypes
  <2>2. claimed' \in [SegTasks -> Counts]
      BY <1>5, <1>c DEF PublishSegmented, PublishMaskedBatch
  <2>3. batched' \subseteq Kinds
      BY <1>5, <2>1 DEF PublishSegmented, PublishMaskedBatch, SegTypes
  <2>4. UNCHANGED <<tracking, counts, mirror, batchKnown, completed, segBound>>
      BY <1>5 DEF PublishSegmented, PublishMaskedBatch
  <2> QED BY <2>2, <2>3, <2>4, <1>t DEF SegTypes
<1>6. ASSUME NEW k \in Kinds, NEW sum \in Nat, AnnounceTotal(k, sum),
             UNCHANGED <<mirror, segBound>>
      PROVE  SegTypes'
    BY <1>6, AnnounceTypes DEF SegTypes
<1>7. ASSUME NEW b \in imageBatches, TakeImagesBatch(b) PROVE SegTypes'
  <2>1. "image" \in Kinds /\ b.total \in Nat
      BY CountsTypes DEF BatchTypes, Kinds
  <2> QED BY <1>6, <1>7, <2>1 DEF TakeImagesBatch
<1>8. ASSUME NEW b \in videoBatches, TakeVideosBatch(b) PROVE SegTypes'
  <2>1. "video" \in Kinds /\ b.total \in Nat
      BY CountsTypes DEF BatchTypes, Kinds
  <2>2. CASE b.id \in seen
    <3>1. UNCHANGED <<tracking, counts, batchKnown, mirror, completed, batched, claimed, segBound>>
        BY <1>8, <2>2 DEF TakeVideosBatch
    <3> QED BY <3>1, <1>t DEF SegTypes
  <2>3. CASE b.id \notin seen
      BY <1>6, <1>8, <2>1, <2>3 DEF TakeVideosBatch
  <2> QED BY <2>2, <2>3
<1>9. ASSUME NEW k \in Kinds, Recheck(k) PROVE SegTypes'
  <2>1. PICK t \in SegTasks : t = BatchTask(k)
      BY BatchNames
  <2> DEFINE c == [counts[k] EXCEPT !.expected = smsg[t].total]
  <2>2. smsg[t].total \in Nat
      BY <2>1, BatchNames, CountsTypes DEF BatchTypes
  <2>3. c \in Counts
      BY <2>2, CountsTypes DEF SegTypes
  <2>4. /\ counts' = IF Tracked(k) THEN [counts EXCEPT ![k] = c] ELSE counts
        /\ Conclude(t, k, Tracked(k) /\ SegReached(c), c, "mirror")
        /\ UNCHANGED <<tracking, batchKnown, mirror, batched, segBound>>
      BY <1>9, <2>1 DEF Recheck
  <2> HIDE DEF c
  <2>5. completed' \subseteq Kinds /\ claimed' \in [SegTasks -> Counts]
      BY <2>3, <2>4, ConcludeTypes
  <2>6. counts' \in [Kinds -> Counts]
      BY <2>3, <2>4 DEF SegTypes
  <2> QED BY <2>4, <2>5, <2>6, <1>t DEF SegTypes
<1>10. ASSUME NEW k \in Kinds, Mirror(k) PROVE SegTypes'
  <2>1. mirror' \in Counts
      BY <1>10 DEF Mirror, SegTypes
  <2>2. UNCHANGED <<tracking, counts, batchKnown, completed, batched, claimed, segBound>>
      BY <1>10 DEF Mirror
  <2> QED BY <2>1, <2>2, <1>t DEF SegTypes
<1>11. ASSUME NEW k \in Kinds, RaiseBatch(k) PROVE SegTypes'
  <2>1. UNCHANGED segMemory /\ SegFault /\ claimed' = [claimed EXCEPT ![BatchTask(k)] = NoCounts]
      BY <1>11 DEF RaiseBatch
  <2>2. claimed' \in [SegTasks -> Counts]
      BY <2>1, <1>c
  <2> QED BY <2>1, <2>2, <1>f, <1>t DEF SegTypes
<1>12. CASE Expire
  <2> DEFINE k == tracking[1]
             sends == /\ mirror.done < mirror.expected
                      /\ counts[k].expected # 0 /\ k \notin completed
  <2>1. UNCHANGED <<tracking, counts, batchKnown, mirror, batched, segBound>>
      BY <1>12 DEF Expire
  <2>2. CASE ~sends
    <3>1. UNCHANGED <<completed, claimed>> BY <1>12, <2>2 DEF Expire
    <3> QED BY <2>1, <3>1, <1>t DEF SegTypes
  <2>3. CASE sends
    <3>1. mirror # NoCounts
        BY <2>3 DEF NoCounts
    <3>2. tracking # <<>>
        BY <3>1 DEF CountTypes
    <3>3. k \in Kinds
        BY <3>2, <1>t DEF TrackTypesOK, Kinds
    <3>4. counts[k] \in Counts
        BY <3>3 DEF SegTypes
    <3>5. completed' = completed \cup {k} /\ claimed' = [claimed EXCEPT !["timer"] = counts[k]]
        BY <1>12, <2>3 DEF Expire
    <3> HIDE DEF k
    <3>6. completed' \subseteq Kinds /\ claimed' \in [SegTasks -> Counts]
        BY <3>3, <3>4, <3>5, <1>c DEF SegTypes
    <3> QED BY <2>1, <3>6, <1>t DEF SegTypes
  <2> QED BY <2>2, <2>3
<1>13. CASE TimerDies
  <2>1. UNCHANGED segMemory /\ SegFault /\ claimed' = [claimed EXCEPT !["timer"] = NoCounts]
      BY <1>13 DEF TimerDies
  <2>2. claimed' \in [SegTasks -> Counts]
      BY <2>1, <1>c
  <2> QED BY <2>1, <2>2, <1>f, <1>t DEF SegTypes
<1>14. CASE SegCrash
  <2>1. /\ tracking' = <<>> /\ counts' = [k \in Kinds |-> NoCounts] /\ batchKnown' = {}
        /\ mirror' = NoCounts /\ completed' = {} /\ batched' = {}
        /\ claimed' = [t \in SegTasks |-> NoCounts] /\ UNCHANGED segFaults
      BY <1>14 DEF SegCrash, ForgetAll
  <2>2. segCrashes' \in 0..MaxSegCrashes
      BY <1>14, <1>0 DEF SegCrash, SegTypes
  <2>3. TrackTypesOK'
      BY <2>1 DEF TrackTypesOK
  <2> QED BY <2>1, <2>2, <2>3, <1>c DEF SegTypes
<1>15. CASE UNCHANGED segVars
  <2>1. UNCHANGED <<segMemory, claimed, segBound>>
      BY <1>15 DEF segVars, segTask
  <2> QED BY <2>1, <1>t DEF SegTypes
<1> QED BY <1>1, <1>2, <1>3, <1>4, <1>5, <1>7, <1>8, <1>9, <1>10, <1>11, <1>12, <1>13,
           <1>14, <1>15, WorkersOf
        DEF SegmentorNext, SegmentorWork, Deliver, WorkerStep, SegPublish, BatchStep

LEMMA TotalsOf ==
    /\ ImageTotals \cup {NoBatch} \subseteq VideoBatchTotals
    /\ NoBatch \in VideoBatchTotals
<1>1. MaxAttempts \in Nat
    BY FinderAssumption
<1>2. 1..MaxAttempts \subseteq Nat
    BY <1>1
<1> QED BY <1>2 DEF ImageTotals, NoBatch, VideoBatchTotals

LEMMA BatchTypesStep ==
    ASSUME BatchTypes, HoldTypes, SegmentorNext
    PROVE  BatchTypes'
<1>n. /\ "imageBatch" \in SegTasks /\ "videoBatch" \in SegTasks
      /\ \A w \in SegWorkers : w # "imageBatch" /\ w # "videoBatch" /\ w # "timer"
    BY BatchNames
<1>d. DOMAIN spc = SegTasks /\ DOMAIN smsg = SegTasks
    BY DEF HoldTypes
<1>1. ASSUME UNCHANGED <<imageBatches, videoBatches, seen>>,
             smsg'["imageBatch"] = smsg["imageBatch"], smsg'["videoBatch"] = smsg["videoBatch"],
             spc'["imageBatch"] # "idle" => spc["imageBatch"] # "idle"
      PROVE  BatchTypes'
    BY <1>1 DEF BatchTypes
<1>2. ASSUME NEW w \in SegWorkers,
             \/ \E im \in readyImages : TakeImage(w, im)
             \/ \E m \in readyVideos : TakeVideo(w, m)
             \/ EmitMasked(w) \/ AckAssets(w) \/ RaiseAssets(w)
             \/ \E x \in left[w] : LoseAsset(w, x)
             \/ \E x \in left[w] : MaskAsset(w, x)
      PROVE  BatchTypes'
  <2>1. UNCHANGED <<imageBatches, videoBatches, seen>>
      BY <1>2 DEF TakeImage, TakeVideo, EmitMasked, AckAssets, RaiseAssets, LoseAsset,
                  MaskAsset, segMemory, bus
  <2>2. smsg'["imageBatch"] = smsg["imageBatch"] /\ smsg'["videoBatch"] = smsg["videoBatch"]
      BY <1>2, <1>n, <1>d DEF TakeImage, TakeVideo, EmitMasked, AckAssets, RaiseAssets, LoseAsset,
                  MaskAsset
  <2>3. spc'["imageBatch"] = spc["imageBatch"]
      BY <1>2, <1>n, <1>d DEF TakeImage, TakeVideo, EmitMasked, AckAssets, RaiseAssets, LoseAsset,
                  MaskAsset, Conclude
  <2> QED BY <1>1, <2>1, <2>2, <2>3
<1>3. ASSUME NEW t \in SegTasks, PublishSegmented(t) \/ PublishMaskedBatch(t) PROVE BatchTypes'
  <2>1. UNCHANGED <<imageBatches, videoBatches, seen, smsg>>
      BY <1>3 DEF PublishSegmented, PublishMaskedBatch, segMemory, bus
  <2>2. spc'["imageBatch"] # "idle" => spc["imageBatch"] # "idle"
      BY <1>3, <1>n, <1>d DEF PublishSegmented, PublishMaskedBatch
  <2> QED BY <1>1, <2>1, <2>2
<1>4. ASSUME NEW b \in imageBatches, TakeImagesBatch(b) PROVE BatchTypes'
  <2>1. /\ imageBatches' = imageBatches \ {b} /\ smsg' = [smsg EXCEPT !["imageBatch"] = b]
        /\ UNCHANGED <<videoBatches, seen>>
      BY <1>4 DEF TakeImagesBatch
  <2>2. smsg'["imageBatch"] = b /\ smsg'["videoBatch"] = smsg["videoBatch"]
      BY <2>1, <1>n, <1>d
  <2> QED BY <2>1, <2>2 DEF BatchTypes
<1>5. ASSUME NEW b \in videoBatches, TakeVideosBatch(b) PROVE BatchTypes'
  <2>1. b \in VideoBatchTotals /\ b.id \in Nat
      BY DEF BatchTypes, VideoBatchTotals
  <2>2. videoBatches' = videoBatches \ {b} /\ UNCHANGED imageBatches
      BY <1>5 DEF TakeVideosBatch
  <2>3. CASE b.id \in seen
      BY <1>5, <2>2, <2>3 DEF TakeVideosBatch, BatchTypes
  <2>4. CASE b.id \notin seen
    <3>1. seen' = seen \cup {b.id} /\ smsg' = [smsg EXCEPT !["videoBatch"] = b]
          /\ AnnounceTotal("video", b.total)
        BY <1>5, <2>4 DEF TakeVideosBatch
    <3>2. smsg'["videoBatch"] = b /\ smsg'["imageBatch"] = smsg["imageBatch"]
        BY <3>1, <1>n, <1>d
    <3>3. spc'["imageBatch"] = spc["imageBatch"]
        BY <3>1, <1>n, <1>d, BatchNames DEF AnnounceTotal
    <3> QED BY <2>1, <2>2, <3>1, <3>2, <3>3 DEF BatchTypes
  <2> QED BY <2>3, <2>4
<1>6. ASSUME NEW k \in Kinds, Recheck(k) PROVE BatchTypes'
  <2>1. UNCHANGED <<imageBatches, videoBatches, seen, smsg>>
      BY <1>6 DEF Recheck, bus
  <2>2. spc'["imageBatch"] # "idle" => spc["imageBatch"] # "idle"
      BY <1>6, <1>n, <1>d, BatchNames DEF Recheck, Conclude
  <2> QED BY <1>1, <2>1, <2>2
<1>7. ASSUME NEW k \in Kinds, Mirror(k) \/ RaiseBatch(k) PROVE BatchTypes'
  <2>1. PICK t \in {"imageBatch", "videoBatch"} : t = BatchTask(k)
      BY BatchNames
  <2>2. /\ spc' = [spc EXCEPT ![t] = "idle"] /\ smsg' = [smsg EXCEPT ![t] = NoBatch]
        /\ UNCHANGED seen
      BY <1>7, <2>1 DEF Mirror, RaiseBatch, segMemory
  <2>3. /\ smsg'["imageBatch"] \in ImageTotals \cup {NoBatch}
        /\ smsg'["videoBatch"] \in VideoBatchTotals
        /\ spc'["imageBatch"] # "idle" => smsg'["imageBatch"] \in ImageTotals
      BY <2>2, <1>n, <1>d, TotalsOf DEF BatchTypes
  <2>4. CASE Mirror(k)
    <3>1. UNCHANGED <<imageBatches, videoBatches>>
        BY <2>4 DEF Mirror, bus
    <3> QED BY <2>2, <2>3, <3>1 DEF BatchTypes
  <2>5. CASE RaiseBatch(k)
    <3>1. spc[t] # "idle"
        BY <2>1, <2>5 DEF RaiseBatch
    <3>2. CASE k = "image"
      <4>1. imageBatches' = imageBatches \cup {smsg["imageBatch"]} /\ UNCHANGED videoBatches
          BY <2>5, <3>2, BatchNames DEF RaiseBatch
      <4>2. smsg["imageBatch"] \in ImageTotals
          BY <2>1, <3>1, <3>2, BatchNames DEF BatchTypes
      <4> QED BY <2>2, <2>3, <4>1, <4>2 DEF BatchTypes
    <3>3. CASE k # "image"
      <4>1. videoBatches' = videoBatches \cup {smsg["videoBatch"]} /\ UNCHANGED imageBatches
          BY <2>5, <3>3, BatchNames DEF RaiseBatch
      <4> QED BY <2>2, <2>3, <4>1 DEF BatchTypes
    <3> QED BY <3>2, <3>3
  <2> QED BY <1>7, <2>4, <2>5
<1>8. CASE Expire
  <2>1. UNCHANGED <<imageBatches, videoBatches, seen, smsg>>
      BY <1>8 DEF Expire, bus
  <2>2. spc'["imageBatch"] = spc["imageBatch"]
      BY <1>8, <1>n, <1>d DEF Expire
  <2> QED BY <1>1, <2>1, <2>2
<1>9. CASE TimerDies
  <2>1. UNCHANGED <<imageBatches, videoBatches, seen, smsg>>
      BY <1>9 DEF TimerDies, bus, segMemory
  <2>2. spc'["imageBatch"] = spc["imageBatch"]
      BY <1>9, <1>n, <1>d DEF TimerDies
  <2> QED BY <1>1, <2>1, <2>2
<1>10. CASE SegCrash
  <2>1. /\ imageBatches' = imageBatches \cup ({smsg["imageBatch"]} \ {NoBatch})
        /\ videoBatches' = videoBatches \cup ({smsg["videoBatch"]} \ {NoBatch})
      BY <1>10 DEF SegCrash
  <2>2. /\ seen' = {} /\ spc'["imageBatch"] = "idle"
        /\ smsg'["imageBatch"] = NoBatch /\ smsg'["videoBatch"] = NoBatch
      BY <1>10, <1>n DEF SegCrash, ForgetAll
  <2> QED BY <2>1, <2>2, TotalsOf DEF BatchTypes
<1> QED BY <1>2, <1>3, <1>4, <1>5, <1>6, <1>7, <1>8, <1>9, <1>10, WorkersOf
        DEF SegmentorNext, SegmentorWork, Deliver, WorkerStep, SegPublish, BatchStep

LEMMA MadeTypesStep ==
    ASSUME MadeTypes, HoldInv, SegmentorNext
    PROVE  MadeTypes'
<1> USE DEF MadeTypes, segOut
<1>n. \A w \in SegWorkers : w \in SegTasks /\ w # "imageBatch" /\ w # "videoBatch"
    BY BatchNames
<1>d. /\ DOMAIN smsg = SegTasks /\ DOMAIN left = SegWorkers
      /\ \A w \in SegWorkers : left[w] \subseteq smsg[w]
      /\ \A w \in SegWorkers : spc[w] = "idle" => smsg[w] = {}
    BY DEF HoldInv, HoldTypes
<1>1. ASSUME UNCHANGED <<made, left, maskedOut, masks>>,
             \A w \in SegWorkers : smsg'[w] = smsg[w]
      PROVE  MadeTypes'
    BY <1>1
<1>2. ASSUME NEW w \in SegWorkers,
             \/ \E im \in readyImages : TakeImage(w, im)
             \/ \E m \in readyVideos : TakeVideo(w, m)
      PROVE  MadeTypes'
  <2>1. PICK m : /\ smsg' = [smsg EXCEPT ![w] = m] /\ left' = [left EXCEPT ![w] = m]
                 /\ spc[w] = "idle" /\ UNCHANGED <<made, maskedOut, masks>>
      BY <1>2 DEF TakeImage, TakeVideo
  <2>2. made[w] = {}
      BY <2>1, <1>d
  <2> QED BY <2>1, <2>2, <1>d, <1>n
<1>3. ASSUME NEW w \in SegWorkers, NEW x \in left[w], MaskAsset(w, x) PROVE MadeTypes'
  <2>1. /\ left' = [left EXCEPT ![w] = @ \ {x}] /\ made' = [made EXCEPT ![w] = @ \cup {x}]
        /\ masks' = masks \cup {x} /\ UNCHANGED <<smsg, maskedOut>>
      BY <1>3 DEF MaskAsset
  <2> QED BY <2>1, <1>d
<1>4. ASSUME NEW w \in SegWorkers, NEW x \in left[w], LoseAsset(w, x) PROVE MadeTypes'
  <2>1. left' = [left EXCEPT ![w] = @ \ {x}] /\ UNCHANGED <<made, masks, smsg, maskedOut>>
      BY <1>4 DEF LoseAsset
  <2> QED BY <2>1, <1>d
<1>5. ASSUME NEW w \in SegWorkers, EmitMasked(w) PROVE MadeTypes'
  <2>1. made' = [made EXCEPT ![w] = {}] /\ maskedOut' = maskedOut \cup made[w]
        /\ UNCHANGED <<left, masks, smsg>>
      BY <1>5 DEF EmitMasked
  <2> QED BY <2>1
<1>6. ASSUME NEW w \in SegWorkers, AckAssets(w) PROVE MadeTypes'
  <2>1. made[w] = {} /\ smsg' = [smsg EXCEPT ![w] = {}]
        /\ UNCHANGED <<made, left, masks, maskedOut>>
      BY <1>6 DEF AckAssets
  <2> QED BY <2>1, <1>d, <1>n
<1>7. ASSUME NEW w \in SegWorkers, RaiseAssets(w) PROVE MadeTypes'
  <2>1. /\ smsg' = [smsg EXCEPT ![w] = {}] /\ left' = [left EXCEPT ![w] = {}]
        /\ made' = [made EXCEPT ![w] = {}] /\ UNCHANGED <<masks, maskedOut>>
      BY <1>7 DEF RaiseAssets
  <2> QED BY <2>1, <1>d, <1>n
<1>8. ASSUME NEW t \in SegTasks, PublishSegmented(t) \/ PublishMaskedBatch(t) PROVE MadeTypes'
    BY <1>1, <1>8 DEF PublishSegmented, PublishMaskedBatch
<1>9. ASSUME NEW b, TakeImagesBatch(b) \/ TakeVideosBatch(b) PROVE MadeTypes'
  <2>1. UNCHANGED <<made, left, maskedOut, masks>>
      BY <1>9 DEF TakeImagesBatch, TakeVideosBatch
  <2>2. \A w \in SegWorkers : smsg'[w] = smsg[w]
      BY <1>9, <1>d, <1>n DEF TakeImagesBatch, TakeVideosBatch
  <2> QED BY <1>1, <2>1, <2>2
<1>10. ASSUME NEW k \in Kinds, Recheck(k) \/ Mirror(k) \/ RaiseBatch(k) PROVE MadeTypes'
  <2>1. UNCHANGED <<made, left, maskedOut, masks>>
      BY <1>10 DEF Recheck, Mirror, RaiseBatch
  <2>2. \A w \in SegWorkers : smsg'[w] = smsg[w]
      BY <1>10, <1>d, <1>n, BatchNames DEF Recheck, Mirror, RaiseBatch
  <2> QED BY <1>1, <2>1, <2>2
<1>11. CASE Expire \/ TimerDies
    BY <1>1, <1>11 DEF Expire, TimerDies
<1>12. CASE SegCrash
  <2>1. /\ left' = [w \in SegWorkers |-> {}] /\ made' = [w \in SegWorkers |-> {}]
        /\ UNCHANGED <<maskedOut, masks>>
      BY <1>12 DEF SegCrash, ForgetAll
  <2> QED BY <2>1
<1> QED BY <1>2, <1>3, <1>4, <1>5, <1>6, <1>7, <1>8, <1>9, <1>10, <1>11, <1>12, WorkersOf
        DEF SegmentorNext, SegmentorWork, Deliver, WorkerStep, SegPublish, BatchStep

FlowTypesInv == FinderTypes /\ SegTypes /\ BatchTypes /\ MadeTypes

LEMMA FlowTypesInit == FlowInit => FlowTypesInv
<1> SUFFICES ASSUME FlowInit PROVE FlowTypesInv
    OBVIOUS
<1>1. FinderTypes
    BY FinderTypesInit DEF FlowInit
<1>2. SegmentorInit /\ imageBatches = {}
    BY DEF FlowInit
<1>3. SegTypes
  <2>1. counts \in [Kinds -> Counts] /\ mirror \in Counts /\ claimed \in [SegTasks -> Counts]
      BY <1>2, CountsTypes DEF SegmentorInit
  <2>2. segCrashes \in 0..MaxSegCrashes /\ segFaults \in 0..MaxSegFaults
      BY <1>2, SegmentorAssumption DEF SegmentorInit
  <2> QED BY <1>2, <2>1, <2>2 DEF SegmentorInit, SegTypes, TrackTypesOK
<1>4. videoBatches \subseteq VideoBatchTotals
    BY FlowAssumption DEF FlowInit, VideoBatchTotals
<1>5. BatchTypes
  <2>1. smsg["imageBatch"] = NoBatch /\ smsg["videoBatch"] = NoBatch
        /\ spc["imageBatch"] = "idle" /\ seen = {}
      BY <1>2, BatchNames DEF SegmentorInit
  <2> QED BY <1>2, <1>4, <2>1, TotalsOf DEF BatchTypes
<1>6. MadeTypes
    BY <1>2 DEF MadeTypes, SegmentorInit
<1> QED BY <1>1, <1>3, <1>5, <1>6 DEF FlowTypesInv

LEMMA FlowTypesStep ==
    ASSUME FlowInv, FlowTypesInv, [FlowNext]_flowVars
    PROVE  FlowTypesInv'
<1> USE DEF FlowTypesInv
<1>0. CollectTypes /\ TasksInv /\ CountTypes /\ HoldInv /\ HoldTypes
    BY DEF FlowInv, CollectInv, HonestInv, HoldInv
<1>1. FinderTypes'
    BY <1>0, FinderTypesStep DEF FlowNext, flowVars
<1>2. SegTypes'
    BY <1>0, SegTypesStep DEF FlowNext, flowVars
<1>3. CASE SegmentorNext
    BY <1>0, <1>1, <1>2, <1>3, BatchTypesStep, MadeTypesStep
<1>4. ASSUME UNCHANGED segVars, FinderNext \/ UNCHANGED flowVars PROVE FlowTypesInv'
  <2>1. MadeTypes'
      BY <1>4 DEF MadeTypes, segVars, segTask, segOut
  <2>2. UNCHANGED <<seen, smsg, spc>>
      BY <1>4 DEF segVars, segTask, segMemory
  <2>3. ASSUME UNCHANGED <<imageBatches, videoBatches>> PROVE BatchTypes'
      BY <2>2, <2>3 DEF BatchTypes
  <2>4. ASSUME UNCHANGED flowVars PROVE BatchTypes'
      BY <2>3, <2>4 DEF flowVars, bus
  <2>5. ASSUME PublishImagesBatch PROVE BatchTypes'
    <3>1. attempt \in 1..MaxAttempts /\ total \in Nat
        BY <2>5, FinderAssumption DEF PublishImagesBatch, FinderTypes
    <3>2. [id |-> attempt, total |-> total] \in ImageTotals
        BY <3>1 DEF ImageTotals
    <3> QED BY <2>2, <2>5, <3>2 DEF PublishImagesBatch, BatchTypes
  <2>6. ASSUME FinderNext, ~PublishImagesBatch PROVE BatchTypes'
    <3>1. UNCHANGED <<imageBatches, videoBatches>>
        BY <2>6 DEF FinderNext, FinderWork, Search, HandlerStep, StoreStep, StoreFault, TakeRequest,
           Browse, BeginStore, FailStore, SkipImage, StoreImage, BreakImage, Commit, FailCommit,
           Announce, FailAnnounce, Count, PublishCollected, RaiseCollect, AckRequest,
           FinderCrash, bus
    <3> QED BY <2>3, <3>1
  <2>7. BatchTypes'
      BY <1>4, <2>4, <2>5, <2>6
  <2> QED BY <1>1, <1>2, <2>1, <2>7
<1> QED BY <1>3, <1>4 DEF FlowNext, flowVars

\* The state of both services stays well formed, with what they send each other:
\* only announced images and frames of the job are on their way, a batch message
\* is of a delivery, what a worker has masked is of its message, and every asset
\* in a masked message has its mask.
THEOREM FlowTypesHold == FlowSpec => []FlowTypeOK
<1>1. FlowInit => FlowInv /\ FlowTypesInv
    BY FlowInvInit, FlowTypesInit
<1>2. FlowInv /\ FlowTypesInv /\ [FlowNext]_flowVars => (FlowInv /\ FlowTypesInv)'
    BY FlowStep, FlowTypesStep
<1>3. FlowInv /\ FlowTypesInv => FlowTypeOK
  <2> SUFFICES ASSUME FlowInv, FlowTypesInv PROVE FlowTypeOK
      OBVIOUS
  <2>1. CollectTypes /\ BooksInv /\ HoldInv /\ SentTypes /\ CountTypes
        /\ FinderTypes /\ SegTypes /\ BatchTypes /\ MadeTypes
      BY DEF FlowInv, FlowTypesInv, CollectInv, SentInv, HonestInv
  <2>2. FinderTypeOK
    <3>1. announced \subseteq Images /\ lost \subseteq rows
        BY <2>1 DEF BooksInv, FinderTypes
    <3> QED BY <2>1, <3>1 DEF FinderTypeOK, FinderTypes, CollectTypes, ItemStages
  <2>3. SegmentorTypeOK
    <3>1. \A w \in SegWorkers : left[w] \subseteq smsg[w]
        BY <2>1 DEF HoldInv, HoldTypes
    <3>2. timed \in Kinds
        BY <2>1 DEF CountTypes
    <3>3. seen \subseteq Nat
        BY <2>1 DEF BatchTypes
    <3> QED BY <2>1, <3>1, <3>2, <3>3
            DEF SegmentorTypeOK, SegTypes, TrackTypesOK, Counts, MadeTypes, SentTypes, SegStages
  <2>4. readyImages \subseteq announced /\ UNION readyVideos \subseteq Frames
    <3>1. \A k \in Kinds : Ready(k) \subseteq Assets(k)
        BY <2>1 DEF HoldInv
    <3> QED BY <3>1 DEF Ready, Assets, Kinds
  <2>5. imageBatches \subseteq ImageTotals /\ videoBatches \subseteq VideoBatchTotals
      BY <2>1 DEF BatchTypes
  <2> QED BY <2>2, <2>3, <2>4, <2>5 DEF FlowTypeOK, ImageTotals, VideoBatchTotals
<1> QED BY <1>1, <1>2, <1>3, PTL DEF FlowSpec
=============================================================================
