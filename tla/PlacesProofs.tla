---------------------------- MODULE PlacesProofs ----------------------------
(***************************************************************************)
(* What filters and sorts make of lists, and what rests on it: the dedup   *)
(* of the videos that a search has found, the cheapest products of a       *)
(* search, and the times of the keyframes of a video.                      *)
(***************************************************************************)
EXTENDS Places, VideoSearch, EbaySearch, Keyframes, FiniteSetTheorems, FunctionTheorems,
        SequenceTheorems, Integers, TLAPS

-----------------------------------------------------------------------------
\* Filters and sorts

\* R orders S: of two members one comes first.
Orders(S, R) ==
    /\ \A a \in S : <<a, a>> \notin R
    /\ \A a, b \in S : a # b => <<a, b>> \in R \/ <<b, a>> \in R
    /\ \A a, b, c \in S : <<a, b>> \in R /\ <<b, c>> \in R => <<a, c>> \in R

Earlier(n, S, R) == {m \in S : <<m, n>> \in R}

\* Members have different numbers of members before them.
LEMMA BeforeGrows ==
    ASSUME NEW S, IsFiniteSet(S), NEW R, Orders(S, R)
    PROVE  /\ \A a \in S : Cardinality(Earlier(a, S, R)) \in 0..Cardinality(S)-1
           /\ \A a, b \in S : <<a, b>> \in R
                  => Cardinality(Earlier(a, S, R)) < Cardinality(Earlier(b, S, R))
<1>1. Cardinality(S) \in Nat
    BY FS_CardinalityType
<1>2. ASSUME NEW a \in S
      PROVE  /\ IsFiniteSet(Earlier(a, S, R)) /\ Cardinality(Earlier(a, S, R)) \in Nat
             /\ Cardinality(Earlier(a, S, R)) < Cardinality(S)
  <2>1. Earlier(a, S, R) \subseteq S /\ Earlier(a, S, R) # S
      BY DEF Earlier, Orders
  <2>2. Cardinality(Earlier(a, S, R)) <= Cardinality(S)
        /\ Cardinality(Earlier(a, S, R)) # Cardinality(S) /\ IsFiniteSet(Earlier(a, S, R))
      BY <2>1, FS_Subset
  <2>3. Cardinality(Earlier(a, S, R)) \in Nat
      BY <2>2, FS_CardinalityType
  <2> QED BY <1>1, <2>2, <2>3
<1>3. ASSUME NEW a \in S, NEW b \in S, <<a, b>> \in R
      PROVE  Cardinality(Earlier(a, S, R)) < Cardinality(Earlier(b, S, R))
  <2>1. Earlier(a, S, R) \subseteq Earlier(b, S, R) /\ Earlier(a, S, R) # Earlier(b, S, R)
      BY <1>3 DEF Earlier, Orders
  <2>2. Cardinality(Earlier(a, S, R)) <= Cardinality(Earlier(b, S, R))
        /\ Cardinality(Earlier(a, S, R)) # Cardinality(Earlier(b, S, R))
      BY <1>2, <2>1, FS_Subset
  <2>3. Cardinality(Earlier(a, S, R)) \in Nat /\ Cardinality(Earlier(b, S, R)) \in Nat
      BY <1>2
  <2> QED BY <2>2, <2>3
<1> QED BY <1>1, <1>2, <1>3

\* Every member has its place, and those before it have earlier ones.
LEMMA ArrangedInOrder ==
    ASSUME NEW S, IsFiniteSet(S), NEW R, Orders(S, R)
    PROVE  /\ Cardinality(S) \in Nat
           /\ Arranged(S, R) \in [1..Cardinality(S) -> S]
           /\ \A n \in S : \E k \in 1..Cardinality(S) : Arranged(S, R)[k] = n
           /\ \A k, l \in 1..Cardinality(S) :
                  k < l => <<Arranged(S, R)[k], Arranged(S, R)[l]>> \in R
<1> DEFINE c == Cardinality(S)
           place == [n \in S |-> Cardinality(Earlier(n, S, R)) + 1]
<1>1. c \in Nat
    BY FS_CardinalityType
<1>2. \A n \in S : Cardinality(Earlier(n, S, R)) \in 0..c-1
    BY BeforeGrows
<1>3. place \in [S -> 1..c]
  <2>1. \A n \in S : Cardinality(Earlier(n, S, R)) + 1 \in 1..c
      BY <1>1, <1>2
  <2> QED BY <2>1
<1>4. \A a, b \in S : <<a, b>> \in R => place[a] < place[b]
  <2>1. ASSUME NEW a \in S, NEW b \in S, <<a, b>> \in R PROVE place[a] < place[b]
    <3>1. Cardinality(Earlier(a, S, R)) < Cardinality(Earlier(b, S, R))
        BY <2>1, BeforeGrows
    <3>2. Cardinality(Earlier(a, S, R)) \in Nat /\ Cardinality(Earlier(b, S, R)) \in Nat
        BY <1>1, <1>2
    <3> QED BY <3>1, <3>2
  <2> QED BY <2>1
<1>5. \A a, b \in S : place[a] = place[b] => a = b
  <2>1. ASSUME NEW a \in S, NEW b \in S, place[a] = place[b], a # b PROVE FALSE
    <3>1. place[a] < place[b] \/ place[b] < place[a]
        BY <1>4, <2>1 DEF Orders
    <3>2. place[a] \in Nat /\ place[b] \in Nat
        BY <1>1, <1>3
    <3> QED BY <2>1, <3>1, <3>2
  <2> QED BY <2>1
<1>6. \A k \in 1..c : \E n \in S : place[n] = k
  <2>1. place \in Injection(S, 1..c)
      BY <1>3, <1>5 DEF Injection, IsInjective
  <2>2. IsFiniteSet(1..c) /\ Cardinality(1..c) = c
      BY <1>1, FS_Interval
  <2>3. place \in Surjection(S, 1..c)
      BY <2>1, <2>2, FS_Injection
  <2> QED BY <2>3 DEF Surjection
<1> DEFINE order == Arranged(S, R)
<1>7. ASSUME NEW k \in 1..c PROVE order[k] \in S /\ place[order[k]] = k
  <2>1. order[k] = CHOOSE n \in S : Cardinality(Earlier(n, S, R)) = k - 1
      BY DEF Arranged, Earlier
  <2>2. PICK n \in S : place[n] = k
      BY <1>6
  <2>3. Cardinality(Earlier(n, S, R)) = k - 1
    <3>1. Cardinality(Earlier(n, S, R)) \in Nat /\ k \in Nat /\ Cardinality(Earlier(n, S, R)) + 1 = k
        BY <1>1, <1>2, <2>2
    <3> QED BY <3>1
  <2>4. order[k] \in S /\ Cardinality(Earlier(order[k], S, R)) = k - 1
      BY <2>1, <2>3
  <2> QED BY <2>4, <1>1
<1>8. order \in [1..c -> S]
    BY <1>7 DEF Arranged
<1> HIDE DEF place, order
<1>9. ASSUME NEW n \in S PROVE \E k \in 1..c : order[k] = n
  <2>1. place[n] \in 1..c
      BY <1>3
  <2>2. order[place[n]] \in S /\ place[order[place[n]]] = place[n]
      BY <2>1, <1>7
  <2> QED BY <2>1, <2>2, <1>5
<1>10. ASSUME NEW k \in 1..c, NEW l \in 1..c, k < l PROVE <<order[k], order[l]>> \in R
  <2>1. order[k] \in S /\ place[order[k]] = k /\ order[l] \in S /\ place[order[l]] = l
      BY <1>7
  <2>2. order[k] # order[l]
      BY <2>1, <1>1, <1>10
  <2>3. ~(<<order[l], order[k]>> \in R)
      BY <2>1, <1>1, <1>4, <1>10
  <2> QED BY <2>1, <2>2, <2>3 DEF Orders
<1> QED BY <1>1, <1>8, <1>9, <1>10 DEF order

\* The least of a set of places.
LEMMA LeastPlace ==
    ASSUME NEW S, IsFiniteSet(S), NEW R, Orders(S, R), S # {}
    PROVE  \E a \in S : \A b \in S : b = a \/ <<a, b>> \in R
<1> DEFINE c == Cardinality(S)
           order == Arranged(S, R)
<1>1. c \in Nat /\ c # 0
    BY FS_CardinalityType, FS_EmptySet
<1>2. /\ order \in [1..c -> S] /\ (\A n \in S : \E k \in 1..c : order[k] = n)
      /\ \A k, l \in 1..c : k < l => <<order[k], order[l]>> \in R
    BY ArrangedInOrder
<1> HIDE DEF c, order
<1>3. 1 \in 1..c /\ order[1] \in S
    BY <1>1, <1>2
<1>4. ASSUME NEW b \in S PROVE b = order[1] \/ <<order[1], b>> \in R
  <2>1. PICK k \in 1..c : order[k] = b
      BY <1>2
  <2>2. k = 1 \/ 1 < k
      BY <1>1
  <2> QED BY <2>1, <2>2, <1>2, <1>3
<1> QED BY <1>3, <1>4

\* A filter keeps the chosen elements, each once, in their order.
LEMMA KeptInOrder ==
    ASSUME NEW T, NEW s \in Seq(T), NEW places \in SUBSET DOMAIN s
    PROVE  /\ Cardinality(places) \in Nat /\ InPlace(places) \in [1..Cardinality(places) -> places]
           /\ Kept(s, places) \in Seq(T) /\ Len(Kept(s, places)) = Cardinality(places)
           /\ \A k \in 1..Cardinality(places) : Kept(s, places)[k] = s[InPlace(places)[k]]
           /\ \A n \in places : \E k \in 1..Cardinality(places) : InPlace(places)[k] = n
           /\ \A k, l \in 1..Cardinality(places) :
                  k < l => InPlace(places)[k] < InPlace(places)[l]
<1> DEFINE R == {x \in places \X places : x[1] < x[2]}
           order == Arranged(places, R)
           c == Cardinality(places)
<1>1. places \subseteq Nat /\ IsFiniteSet(places)
  <2>1. DOMAIN s = 1..Len(s) /\ Len(s) \in Nat
      OBVIOUS
  <2>2. IsFiniteSet(1..Len(s))
      BY <2>1, FS_Interval
  <2>3. IsFiniteSet(places)
      BY <2>1, <2>2, FS_Subset
  <2> QED BY <2>1, <2>3
<1>2. \A a, b \in places : <<a, b>> \in R <=> a < b
    OBVIOUS
<1> HIDE DEF R
<1>3. Orders(places, R)
    BY <1>1, <1>2 DEF Orders
<1>4. /\ c \in Nat /\ order \in [1..c -> places]
      /\ \A n \in places : \E k \in 1..c : order[k] = n
      /\ \A k, l \in 1..c : k < l => <<order[k], order[l]>> \in R
    BY <1>1, <1>3, ArrangedInOrder
<1>5. Kept(s, places) = [k \in 1..c |-> s[order[k]]] /\ InPlace(places) = order
    BY DEF Kept, InPlace, R
<1> HIDE DEF order
<1>6. \A k, l \in 1..c : k < l => order[k] < order[l]
    BY <1>2, <1>4
<1>7. \A k \in 1..c : s[order[k]] \in T
    BY <1>4
<1>8. Kept(s, places) \in [1..c -> T]
    BY <1>5, <1>7
<1>9. Kept(s, places) \in Seq(T) /\ Len(Kept(s, places)) = c
    BY <1>4, <1>8
<1> QED BY <1>4, <1>5, <1>6, <1>9

-----------------------------------------------------------------------------
\* The searches of video-crawler

NoneAlike(videos, key) ==
    \A m, n \in DOMAIN videos : m # n => ~Alike(videos[m], videos[n], key)

FirstWith(videos, key, n, m) ==
    /\ m \in DOMAIN videos /\ key[videos[m]] = key[videos[n]]
    /\ \A l \in 1..m-1 : key[videos[l]] # key[videos[m]]

LEMMA FirstPlace ==
    ASSUME NEW videos \in Seq(SearchVideos), NEW key, NEW n \in DOMAIN videos
    PROVE  \E m : FirstWith(videos, key, n, m)
<1> DEFINE same == {m \in DOMAIN videos : key[videos[m]] = key[videos[n]]}
           R == {x \in same \X same : x[1] < x[2]}
<1>1. DOMAIN videos = 1..Len(videos) /\ Len(videos) \in Nat
    OBVIOUS
<1>2. same \subseteq Nat /\ same # {} /\ same \subseteq 1..Len(videos)
    BY <1>1
<1>3. IsFiniteSet(1..Len(videos))
    BY <1>1, FS_Interval
<1>4. IsFiniteSet(same)
    BY <1>2, <1>3, FS_Subset
<1>5. \A a, b \in same : <<a, b>> \in R <=> a < b
    OBVIOUS
<1>6. Orders(same, R)
  <2> HIDE DEF R, same
  <2> QED BY <1>2, <1>5 DEF Orders
<1>7. \E a \in same : \A b \in same : b = a \/ <<a, b>> \in R
  <2> HIDE DEF R, same
  <2> QED BY <1>2, <1>4, <1>6, LeastPlace
<1>8. PICK m \in same : \A b \in same : b = m \/ m < b
    BY <1>5, <1>7
<1>9. ASSUME NEW l \in 1..m-1 PROVE key[videos[l]] # key[videos[m]]
  <2>1. l \in DOMAIN videos /\ l < m /\ m \in Nat /\ l \in Nat
      BY <1>1, <1>2, <1>8
  <2>2. l \notin same
      BY <1>8, <2>1
  <2> QED BY <1>8, <2>1, <2>2
<1> QED BY <1>8, <1>9 DEF FirstWith

\* A pass loses only what repeats a key, leaves no key twice and repeats no
\* other key that was there once.
LEMMA FirstOfKeeps ==
    ASSUME NEW videos \in Seq(SearchVideos), NEW key
    PROVE  /\ FirstOf(videos, key) \in Seq(SearchVideos)
           /\ \A k \in DOMAIN FirstOf(videos, key) : FirstOf(videos, key)[k] \in ToSet(videos)
           /\ \A v \in ToSet(videos) : \E w \in ToSet(FirstOf(videos, key)) :
                  w = v \/ Alike(w, v, key)
           /\ NoneAlike(FirstOf(videos, key), key)
           /\ \A other : NoneAlike(videos, other) => NoneAlike(FirstOf(videos, key), other)
<1> DEFINE places == {n \in DOMAIN videos : \/ key[videos[n]] = NoValue
                                            \/ \A m \in 1..n-1 : key[videos[m]] # key[videos[n]]}
           first == FirstOf(videos, key)
           c == Cardinality(places)
           order == InPlace(places)
<1>1. first = Kept(videos, places)
    BY DEF FirstOf
<1>2. places \in SUBSET DOMAIN videos
    OBVIOUS
<1>3. \A n \in places : \/ key[videos[n]] = NoValue
                        \/ \A m \in 1..n-1 : key[videos[m]] # key[videos[n]]
    OBVIOUS
<1>4. ASSUME NEW n \in DOMAIN videos
      PROVE  \/ n \in places
             \/ /\ key[videos[n]] # NoValue
                /\ \E m \in places : key[videos[m]] = key[videos[n]]
  <2>0. n \in places \/ key[videos[n]] # NoValue
      OBVIOUS
  <2>1. PICK m : FirstWith(videos, key, n, m)
      BY FirstPlace
  <2>2. m \in places /\ key[videos[m]] = key[videos[n]]
      BY <2>1 DEF FirstWith
  <2> QED BY <2>0, <2>2
<1> HIDE DEF places
<1>5. places \subseteq DOMAIN videos /\ DOMAIN videos \subseteq Nat \ {0}
    BY <1>2
<1>6. /\ c \in Nat /\ order \in [1..c -> places] /\ first \in Seq(SearchVideos) /\ Len(first) = c
      /\ \A k \in 1..c : first[k] = videos[order[k]]
      /\ \A n \in places : \E k \in 1..c : order[k] = n
      /\ \A k, l \in 1..c : k < l => order[k] < order[l]
  <2> HIDE DEF first
  <2> QED BY <1>1, <1>2, KeptInOrder
<1> HIDE DEF first, c, order
<1>7. DOMAIN first = 1..c
    BY <1>6
<1>8. \A k \in 1..c : order[k] \in places
    BY <1>6
<1>9. ASSUME NEW k \in DOMAIN first PROVE first[k] \in ToSet(videos)
    BY <1>6, <1>5, <1>7, <1>8 DEF ToSet
<1>10. ASSUME NEW v \in ToSet(videos) PROVE \E w \in ToSet(first) : w = v \/ Alike(w, v, key)
  <2>1. PICK n \in DOMAIN videos : videos[n] = v
      BY DEF ToSet
  <2>2. ASSUME NEW m \in places PROVE videos[m] \in ToSet(first)
    <3>1. PICK k \in 1..c : order[k] = m
        BY <1>6, <2>2
    <3>2. first[k] = videos[m] /\ k \in DOMAIN first
        BY <1>6, <1>7, <3>1
    <3> QED BY <3>2 DEF ToSet
  <2>3. CASE n \in places
      BY <2>1, <2>2, <2>3
  <2>4. CASE n \notin places
      BY <1>4, <2>1, <2>2, <2>4 DEF Alike
  <2> QED BY <2>3, <2>4
<1>11. ASSUME NEW k \in 1..c, NEW l \in 1..c, k < l
       PROVE  ~Alike(first[k], first[l], key)
  <2>1. order[k] \in 1..order[l]-1
      BY <1>6, <1>5, <1>8, <1>11
  <2> QED BY <1>6, <1>3, <1>8, <2>1 DEF Alike
<1>12. \A v, w : Alike(v, w, key) => Alike(w, v, key)
    BY DEF Alike
<1>13. NoneAlike(first, key)
  <2>1. \A k, l \in 1..c : k # l => k < l \/ l < k
      BY <1>6
  <2> QED BY <1>7, <1>11, <1>12, <2>1 DEF NoneAlike
<1>14. \A k, l \in 1..c : k # l => order[k] # order[l]
  <2>1. ASSUME NEW k \in 1..c, NEW l \in 1..c, k # l PROVE order[k] # order[l]
    <3>1. k < l \/ l < k
        BY <1>6, <2>1
    <3>2. order[k] \in Nat /\ order[l] \in Nat
        BY <1>5, <1>8
    <3> QED BY <1>6, <3>1, <3>2
  <2> QED BY <2>1
<1>15. ASSUME NEW other, NoneAlike(videos, other) PROVE NoneAlike(first, other)
    BY <1>6, <1>5, <1>7, <1>8, <1>14, <1>15 DEF NoneAlike
<1> QED BY <1>6, <1>9, <1>10, <1>13, <1>15 DEF first

LEMMA UniqueKeeps ==
    ASSUME NEW videos \in Seq(SearchVideos)
    PROVE  /\ UniqueVideos(videos) \in Seq(SearchVideos)
           /\ \A v \in ToSet(videos) : \E u \in ToSet(videos), w \in ToSet(UniqueVideos(videos)) :
                  (u = v \/ Alike(u, v, IdOf)) /\ (w = u \/ Alike(w, u, TitleOf))
           /\ NoneAlike(UniqueVideos(videos), IdOf) /\ NoneAlike(UniqueVideos(videos), TitleOf)
<1> DEFINE once == FirstOf(videos, IdOf)
           twice == FirstOf(once, TitleOf)
<1>1. /\ once \in Seq(SearchVideos) /\ ToSet(once) \subseteq ToSet(videos)
      /\ \A v \in ToSet(videos) : \E u \in ToSet(once) : u = v \/ Alike(u, v, IdOf)
      /\ NoneAlike(once, IdOf)
  <2>1. \A k \in DOMAIN once : once[k] \in ToSet(videos)
      BY FirstOfKeeps
  <2>2. ToSet(once) \subseteq ToSet(videos)
      BY <2>1 DEF ToSet
  <2> QED BY <2>2, FirstOfKeeps
<1> HIDE DEF once
<1>2. /\ twice \in Seq(SearchVideos)
      /\ \A v \in ToSet(once) : \E w \in ToSet(twice) : w = v \/ Alike(w, v, TitleOf)
      /\ NoneAlike(twice, TitleOf) /\ NoneAlike(twice, IdOf)
    BY <1>1, FirstOfKeeps
<1>3. UniqueVideos(videos) = twice
    BY DEF UniqueVideos, once
<1> HIDE DEF twice
<1> QED BY <1>1, <1>2, <1>3

\* What the searches know of their queries, and where the dedup has been.
SearchInv ==
    /\ sstage \in {"prepare", "search", "dedup", "download", "failed"}
    /\ asked \in Seq(DOMAIN Answers \cup {NoQuery})
    /\ sstage = "search" => asked # <<>> /\ asked \in Seq(DOMAIN Answers)
    /\ limit \in Nat /\ best \in Seq(SearchVideos) /\ found \in Seq(SearchVideos)
    /\ sstage = "prepare" => found = <<>>
    /\ sstage # "download" => unique = <<>>
    /\ sstage = "download" => \/ found = <<>> /\ unique = <<>>
                              \/ unique = UniqueVideos(found)

LEMMA UptoType ==
    ASSUME NEW T, NEW s \in Seq(T), NEW n \in Nat
    PROVE  Upto(s, n) \in Seq(T)
<1>1. Len(s) \in Nat /\ DOMAIN s = 1..Len(s) /\ \A k \in 1..Len(s) : s[k] \in T
    OBVIOUS
<1> DEFINE l == IF Len(s) < n THEN Len(s) ELSE n
<1>2. l \in Nat /\ l <= Len(s)
    BY <1>1
<1> HIDE DEF l
<1>3. SubSeq(s, 1, l) \in Seq(T)
    BY <1>1, <1>2, SubSeqProperties
<1> QED BY <1>3 DEF Upto, l

LEMMA FormattedType ==
    ASSUME NEW q \in DOMAIN Answers, NEW n \in Nat
    PROVE  Formatted(q, n) \in Seq(SearchVideos)
<1> DEFINE entries == Upto(Answers[q], n)
           places == {m \in DOMAIN entries : entries[m] \in WithDuration}
<1>1. entries \in Seq(SearchVideos)
    BY UptoType, SearchAssumption
<1>2. Formatted(q, n) = Upto(Kept(entries, places), NumVideos)
    BY DEF Formatted
<1>3. places \in SUBSET DOMAIN entries
    OBVIOUS
<1> HIDE DEF entries, places
<1>4. Kept(entries, places) \in Seq(SearchVideos)
    BY <1>1, <1>3, KeptInOrder
<1> QED BY <1>2, <1>4, UptoType, SearchAssumption

LEMMA NextQueryStep ==
    ASSUME SearchInv, sstage = "search", NEW videos \in Seq(SearchVideos),
           NextQuery(videos), UNCHANGED unique
    PROVE  SearchInv'
<1>1. /\ found' = found \o videos /\ asked' = Tail(asked)
      /\ sstage' = IF asked' # <<>> THEN "search" ELSE IF found' = <<>> THEN "download" ELSE "dedup"
      /\ limit' = NumVideos /\ best' = <<>>
    BY DEF NextQuery
<1>2. found' \in Seq(SearchVideos) /\ unique = <<>>
    BY <1>1, ConcatProperties DEF SearchInv
<1>3. asked' \in Seq(DOMAIN Answers) /\ asked' \in Seq(DOMAIN Answers \cup {NoQuery})
    BY <1>1, HeadTailProperties DEF SearchInv
<1>4. limit' \in Nat /\ best' \in Seq(SearchVideos)
    BY <1>1, SearchAssumption
<1>5. CASE asked' # <<>>
    BY <1>1, <1>2, <1>3, <1>4, <1>5 DEF SearchInv
<1>6. CASE asked' = <<>> /\ found' = <<>>
    BY <1>1, <1>2, <1>3, <1>4, <1>6 DEF SearchInv
<1>7. CASE asked' = <<>> /\ found' # <<>>
    BY <1>1, <1>2, <1>3, <1>4, <1>7 DEF SearchInv
<1> QED BY <1>5, <1>6, <1>7

LEMMA SearchStep == SearchInv /\ [SearchNext]_searchVars => SearchInv'
<1> SUFFICES ASSUME SearchInv, [SearchNext]_searchVars PROVE SearchInv'
    OBVIOUS
<1>0. ASSUME sstage = "search" PROVE Head(asked) \in DOMAIN Answers
  <2>1. asked \in Seq(DOMAIN Answers) /\ asked # <<>>
      BY <1>0 DEF SearchInv
  <2> QED BY <2>1, HeadTailProperties
<1>1. CASE PrepareQueries
  <2> DEFINE usable(q) == q # NoQuery /\ ~(skind = "youtube" /\ q \in UrlLike)
             places == {n \in DOMAIN asked : usable(asked[n])}
  <2>1. /\ sstage = "prepare" /\ asked' = Kept(asked, places)
        /\ sstage' = IF asked' = <<>> THEN "download" ELSE "search"
        /\ UNCHANGED <<limit, best, found, unique>>
      BY <1>1 DEF PrepareQueries
  <2>2. places \in SUBSET DOMAIN asked /\ \A n \in places : asked[n] # NoQuery
      OBVIOUS
  <2>3. asked \in Seq(DOMAIN Answers \cup {NoQuery})
      BY DEF SearchInv
  <2> HIDE DEF places
  <2>4. /\ asked' \in Seq(DOMAIN Answers \cup {NoQuery}) /\ Len(asked') \in Nat
        /\ Cardinality(places) = Len(asked')
        /\ InPlace(places) \in [1..Len(asked') -> places]
        /\ \A k \in 1..Len(asked') : asked'[k] = asked[InPlace(places)[k]]
      BY <2>1, <2>2, <2>3, KeptInOrder
  <2>5. \A k \in 1..Len(asked') : asked'[k] \in DOMAIN Answers
    <3>1. ASSUME NEW k \in 1..Len(asked') PROVE asked'[k] \in DOMAIN Answers
      <4>1. InPlace(places)[k] \in places
          BY <2>4
      <4>2. asked'[k] # NoQuery
          BY <2>2, <2>4, <4>1
      <4> QED BY <2>4, <4>2
    <3> QED BY <3>1
  <2>6. asked' \in Seq(DOMAIN Answers)
    <3>1. asked' \in [1..Len(asked') -> DOMAIN Answers]
        BY <2>4, <2>5
    <3> QED BY <2>4, <3>1
  <2> QED BY <2>1, <2>4, <2>6 DEF SearchInv
<1>2. CASE TiktokAnswers
  <2>1. /\ sstage = "search" /\ UNCHANGED unique
        /\ NextQuery(Upto(Answers[Head(asked)], NumVideos))
      BY <1>2 DEF TiktokAnswers
  <2>2. Upto(Answers[Head(asked)], NumVideos) \in Seq(SearchVideos)
      BY <1>0, <2>1, UptoType, SearchAssumption
  <2> QED BY <2>1, <2>2, NextQueryStep
<1>3. CASE TiktokRetries
    BY <1>3 DEF TiktokRetries, SearchInv
<1>4. CASE TiktokGivesUp
  <2>1. sstage = "search" /\ UNCHANGED unique /\ NextQuery(<<>>)
      BY <1>4 DEF TiktokGivesUp
  <2>2. <<>> \in Seq(SearchVideos)
      OBVIOUS
  <2> QED BY <2>1, <2>2, NextQueryStep
<1>5. CASE YoutubeAnswers
  <2> DEFINE videos == Formatted(Head(asked), limit)
  <2>1. /\ sstage = "search" /\ UNCHANGED unique
        /\ \/ /\ limit' = limit + NumVideos /\ best' = videos
              /\ UNCHANGED <<sstage, asked, found>>
           \/ NextQuery(videos)
      BY <1>5 DEF YoutubeAnswers
  <2>2. videos \in Seq(SearchVideos)
    <3>1. limit \in Nat
        BY DEF SearchInv
    <3> QED BY <1>0, <2>1, <3>1, FormattedType
  <2> HIDE DEF videos
  <2>3. CASE NextQuery(videos)
      BY <2>1, <2>2, <2>3, NextQueryStep
  <2>4. CASE limit' = limit + NumVideos /\ best' = videos /\ UNCHANGED <<sstage, asked, found>>
      BY <2>1, <2>2, <2>4, SearchAssumption DEF SearchInv
  <2> QED BY <2>1, <2>3, <2>4
<1>6. CASE YoutubeFails
  <2>1. sstage = "search" /\ UNCHANGED unique /\ NextQuery(best)
      BY <1>6 DEF YoutubeFails
  <2>2. best \in Seq(SearchVideos)
      BY DEF SearchInv
  <2> QED BY <2>1, <2>2, NextQueryStep
<1>7. CASE DedupeVideos
  <2>1. unique' = UniqueVideos(found) /\ sstage' = "download" /\ sstage = "dedup"
        /\ UNCHANGED <<asked, limit, best, found>>
      BY <1>7 DEF DedupeVideos
  <2> QED BY <2>1 DEF SearchInv
<1>8. CASE FailPlatform
    BY <1>8 DEF FailPlatform, SearchInv
<1>9. CASE UNCHANGED searchVars
    BY <1>9 DEF searchVars, SearchInv
<1> QED BY <1>1, <1>2, <1>3, <1>4, <1>5, <1>6, <1>7, <1>8, <1>9 DEF SearchNext

LEMMA SearchInvInit == SearchInit => SearchInv
<1> SUFFICES ASSUME SearchInit PROVE SearchInv
    OBVIOUS
<1>1. asked \in Seq(DOMAIN Answers \cup {NoQuery})
    BY SearchAssumption DEF SearchInit
<1> QED BY <1>1, SearchAssumption DEF SearchInit, SearchInv

\* Whatever the platforms answer, and however often the searches are tried, the
\* two passes of the dedup lose nothing but repetitions and leave none.
THEOREM SearchKeepsAllHolds == SearchSpec => []SearchKeepsAll
<1>1. SearchInv => SearchKeepsAll
  <2> SUFFICES ASSUME SearchInv, sstage = "download"
               PROVE  /\ \A v \in ToSet(found) : \E u \in ToSet(found), w \in ToSet(unique) :
                             (u = v \/ Alike(u, v, IdOf)) /\ (w = u \/ Alike(w, u, TitleOf))
                      /\ NoneAlike(unique, IdOf) /\ NoneAlike(unique, TitleOf)
      BY DEF SearchKeepsAll, NoneAlike
  <2>1. CASE found = <<>> /\ unique = <<>>
      BY <2>1 DEF ToSet, NoneAlike
  <2>2. CASE unique = UniqueVideos(found)
      BY <2>2, UniqueKeeps DEF SearchInv
  <2> QED BY <2>1, <2>2 DEF SearchInv
<1> QED BY <1>1, SearchInvInit, SearchStep, PTL DEF SearchSpec

-----------------------------------------------------------------------------
\* The search of dropship-product-finder

\* Each product has one place among the lowest, and it is a cheapest one.
LEMMA LowestPlaces ==
    ASSUME NEW items \in Seq(Items)
    PROVE  /\ Lowest(items) \in SUBSET DOMAIN items /\ IsFiniteSet(Lowest(items))
           /\ \A n \in DOMAIN items : \E m \in Lowest(items) :
                  items[m].product = items[n].product /\ items[m].price <= items[n].price
           /\ \A m, n \in Lowest(items) : items[m].product = items[n].product => m = n
<1>1. DOMAIN items = 1..Len(items) /\ Len(items) \in Nat
    OBVIOUS
<1>2. \A n \in DOMAIN items : items[n] \in Items
    OBVIOUS
<1>3. \A n \in DOMAIN items : items[n].price \in Nat
    BY <1>2, EbayAssumption
<1>4. IsFiniteSet(DOMAIN items)
    BY <1>1, FS_Interval
<1>5. \A n \in Lowest(items) : n \in DOMAIN items /\ \A m \in Group(items, n) :
        items[n].price < items[m].price \/ (items[n].price = items[m].price /\ n <= m)
    BY DEF Lowest
<1>6. IsFiniteSet(Lowest(items)) /\ Lowest(items) \in SUBSET DOMAIN items
  <2>1. Lowest(items) \subseteq DOMAIN items
      BY <1>5
  <2> QED BY <1>4, <2>1, FS_Subset
<1>7. ASSUME NEW n \in DOMAIN items
      PROVE  \E m \in Lowest(items) :
                 items[m].product = items[n].product /\ items[m].price <= items[n].price
  <2> DEFINE group == Group(items, n)
             Lower(a, b) == \/ items[a].price < items[b].price
                            \/ items[a].price = items[b].price /\ a < b
             R == {x \in group \X group : Lower(x[1], x[2])}
  <2>1. group \subseteq DOMAIN items /\ n \in group
        /\ \A m \in group : items[m].product = items[n].product
      BY DEF Group
  <2>2. \A a, b \in group : <<a, b>> \in R <=> Lower(a, b)
      OBVIOUS
  <2>3. \A m \in group : Group(items, m) = group
      BY <2>1 DEF Group
  <2>4. \A a \in group : a \in Nat /\ items[a].price \in Nat
      BY <1>1, <1>3, <2>1
  <2> HIDE DEF group, R
  <2>5. Orders(group, R)
    <3>1. \A a \in group : ~Lower(a, a)
        BY <2>4
    <3>2. \A a, b \in group : a # b => Lower(a, b) \/ Lower(b, a)
        BY <2>4
    <3>3. \A a, b, c \in group : Lower(a, b) /\ Lower(b, c) => Lower(a, c)
        BY <2>4
    <3> QED BY <2>2, <3>1, <3>2, <3>3 DEF Orders
  <2>6. IsFiniteSet(group) /\ group # {}
      BY <1>4, <2>1, FS_Subset
  <2>7. PICK m \in group : \A b \in group : b = m \/ <<m, b>> \in R
      BY <2>5, <2>6, LeastPlace
  <2>8. \A b \in group : b = m \/ Lower(m, b)
      BY <2>2, <2>7
  <2>9. \A b \in group : items[m].price < items[b].price
                         \/ (items[m].price = items[b].price /\ m <= b)
      BY <2>4, <2>8
  <2>10. m \in Lowest(items)
      BY <2>1, <2>3, <2>9 DEF Lowest
  <2> QED BY <2>1, <2>4, <2>9, <2>10
<1>8. ASSUME NEW m \in Lowest(items), NEW n \in Lowest(items),
             items[m].product = items[n].product
      PROVE  m = n
  <2>1. m \in Group(items, n) /\ n \in Group(items, m)
      BY <1>5, <1>8 DEF Group
  <2>2. /\ m \in Nat /\ n \in Nat /\ items[m].price \in Nat /\ items[n].price \in Nat
      BY <1>1, <1>3, <1>5
  <2>3. /\ items[m].price < items[n].price \/ (items[m].price = items[n].price /\ m <= n)
        /\ items[n].price < items[m].price \/ (items[n].price = items[m].price /\ n <= m)
      BY <1>5, <2>1
  <2> QED BY <2>2, <2>3
<1> QED BY <1>6, <1>7, <1>8

\* A product comes first, whatever it is compared with.
LEMMA FirstOfGroup ==
    ASSUME NEW items \in Seq(Items), NEW n \in DOMAIN items
    PROVE  \E a \in Group(items, n) : \A b \in Group(items, n) : a <= b
<1> DEFINE group == Group(items, n)
           R == {x \in group \X group : x[1] < x[2]}
<1>1. DOMAIN items = 1..Len(items) /\ Len(items) \in Nat
    OBVIOUS
<1>2. group \subseteq 1..Len(items) /\ n \in group
    BY <1>1 DEF Group
<1>3. IsFiniteSet(1..Len(items))
    BY <1>1, FS_Interval
<1>4. \A a, b \in group : <<a, b>> \in R <=> a < b
    OBVIOUS
<1> HIDE DEF group, R
<1>5. IsFiniteSet(group) /\ group # {} /\ \A a \in group : a \in Nat
    BY <1>1, <1>2, <1>3, FS_Subset
<1>6. Orders(group, R)
    BY <1>4, <1>5 DEF Orders
<1>7. PICK a \in group : \A b \in group : b = a \/ <<a, b>> \in R
    BY <1>5, <1>6, LeastPlace
<1>8. ASSUME NEW b \in group PROVE a <= b
  <2>1. b = a \/ a < b
      BY <1>4, <1>7
  <2> QED BY <1>5, <2>1
<1> QED BY <1>8 DEF group

\* By price, and at one price by the first places of the products.
LEMMA CheaperOrders ==
    ASSUME NEW items \in Seq(Items), NEW P \in SUBSET DOMAIN items,
           \A m, n \in P : items[m].product = items[n].product => m = n
    PROVE  Orders(P, {x \in P \X P : Cheaper(items, x[1], x[2])})
<1> DEFINE R == {x \in P \X P : Cheaper(items, x[1], x[2])}
           Ahead(m, n) == \E a \in Group(items, m) : \A b \in Group(items, n) : a < b
<1>1. \A n \in DOMAIN items : n \in Nat /\ items[n].price \in Nat
  <2>1. \A n \in DOMAIN items : items[n] \in Items /\ n \in Nat
      OBVIOUS
  <2> QED BY <2>1, EbayAssumption
<1>2. \A m, n \in P : <<m, n>> \in R <=> Cheaper(items, m, n)
    OBVIOUS
<1>3. \A m, n \in P : Cheaper(items, m, n) <=>
        \/ items[m].price < items[n].price
        \/ items[m].price = items[n].price /\ Ahead(m, n)
    BY DEF Cheaper
<1>4. \A n \in DOMAIN items : \A a \in Group(items, n) : a \in Nat
    BY <1>1 DEF Group
<1>5. ASSUME NEW n \in P PROVE ~Ahead(n, n)
    BY <1>4
<1>6. ASSUME NEW m \in P, NEW n \in P, m # n PROVE Ahead(m, n) \/ Ahead(n, m)
  <2>1. PICK a \in Group(items, m) : \A b \in Group(items, m) : a <= b
      BY FirstOfGroup
  <2>2. PICK b \in Group(items, n) : \A c \in Group(items, n) : b <= c
      BY FirstOfGroup
  <2>3. a \in Nat /\ b \in Nat /\ a # b
    <3>1. items[a].product # items[b].product
        BY <1>6 DEF Group
    <3> QED BY <1>4, <3>1
  <2>4. CASE a < b
    <3>1. \A c \in Group(items, n) : a < c
        BY <1>4, <2>2, <2>3, <2>4
    <3> QED BY <3>1
  <2>5. CASE b < a
    <3>1. \A c \in Group(items, m) : b < c
        BY <1>4, <2>1, <2>3, <2>5
    <3> QED BY <3>1
  <2> QED BY <2>3, <2>4, <2>5
<1>7. ASSUME NEW m \in P, NEW n \in P, NEW p \in P, Ahead(m, n), Ahead(n, p) PROVE Ahead(m, p)
  <2>1. PICK a \in Group(items, m) : \A b \in Group(items, n) : a < b
      BY <1>7
  <2>2. PICK b \in Group(items, n) : \A c \in Group(items, p) : b < c
      BY <1>7
  <2>3. \A c \in Group(items, p) : a < c
      BY <1>4, <2>1, <2>2
  <2> QED BY <2>3
<1>8. \A n \in P : items[n].price \in Nat
    BY <1>1
<1> HIDE DEF R, Ahead
<1>9. \A n \in P : <<n, n>> \notin R
    BY <1>2, <1>3, <1>5, <1>8
<1>10. \A m, n \in P : m # n => <<m, n>> \in R \/ <<n, m>> \in R
    BY <1>2, <1>3, <1>6, <1>8
<1>11. \A m, n, p \in P : <<m, n>> \in R /\ <<n, p>> \in R => <<m, p>> \in R
    BY SMTT(30), <1>2, <1>3, <1>7, <1>8
<1>12. Orders(P, R)
    BY <1>9, <1>10, <1>11 DEF Orders
<1> QED BY <1>12 DEF R

\* What is left of the products is cheaper than what is dropped.
Cheapest(items, cap, left) ==
    /\ \A i \in ToSet(items) :
           \/ \E n \in DOMAIN left : left[n].product = i.product /\ left[n].price <= i.price
           \/ Len(left) = cap /\ \A n \in DOMAIN left : left[n].price <= i.price
    /\ \A n, k \in DOMAIN left : n # k => left[n].product # left[k].product

LEMMA DeduplicateCheapest ==
    ASSUME NEW items \in Seq(Items), NEW cap \in Nat
    PROVE  Cheapest(items, cap, Deduplicate(items, cap))
<1> DEFINE P == Lowest(items)
           R == {x \in P \X P : Cheaper(items, x[1], x[2])}
           c == Cardinality(P)
           sorted == Arranged(P, R)
           h == Capped(c, cap)
           left == [k \in 1..h |-> items[sorted[k]]]
<1>1. /\ P \in SUBSET DOMAIN items /\ IsFiniteSet(P)
      /\ \A n \in DOMAIN items : \E m \in P :
             items[m].product = items[n].product /\ items[m].price <= items[n].price
      /\ \A m, n \in P : items[m].product = items[n].product => m = n
    BY LowestPlaces
<1>2. \A n \in DOMAIN items : items[n].price \in Nat
  <2>1. \A n \in DOMAIN items : items[n] \in Items
      OBVIOUS
  <2> QED BY <2>1, EbayAssumption
<1>3. \A m, n \in P : <<m, n>> \in R <=> Cheaper(items, m, n)
    OBVIOUS
<1>4. Deduplicate(items, cap) = [k \in 1..Capped(Len(sorted), cap) |-> items[sorted[k]]]
    BY DEF Deduplicate, ByPrice
<1> HIDE DEF P
<1>5. Orders(P, R)
    BY <1>1, CheaperOrders
<1> HIDE DEF R
<1>6. /\ c \in Nat /\ sorted \in [1..c -> P]
      /\ \A n \in P : \E k \in 1..c : sorted[k] = n
      /\ \A k, l \in 1..c : k < l => <<sorted[k], sorted[l]>> \in R
    BY <1>1, <1>5, ArrangedInOrder
<1> HIDE DEF c, sorted
<1>7. Len(sorted) = c
    BY <1>6
<1>8. Deduplicate(items, cap) = left
    BY <1>4, <1>7
<1>9. h \in Nat /\ h <= c /\ (h < c => h = cap)
    BY <1>6 DEF Capped
<1> HIDE DEF h
<1>10. DOMAIN left = 1..h /\ Len(left) = h /\ \A k \in 1..h : left[k] = items[sorted[k]]
    BY <1>9
<1> HIDE DEF left
<1>11. ASSUME NEW i \in ToSet(items)
       PROVE  \/ \E n \in DOMAIN left : left[n].product = i.product /\ left[n].price <= i.price
              \/ Len(left) = cap /\ \A n \in DOMAIN left : left[n].price <= i.price
  <2>1. PICK n \in DOMAIN items : items[n] = i
      BY DEF ToSet
  <2>2. PICK m \in P : items[m].product = i.product /\ items[m].price <= i.price
      BY <1>1, <2>1
  <2>3. PICK k \in 1..c : sorted[k] = m
      BY <1>6, <2>2
  <2>4. CASE k <= h
    <3>1. k \in DOMAIN left /\ left[k] = items[m]
        BY <1>9, <1>10, <2>3, <2>4
    <3> QED BY <2>2, <3>1
  <2>5. CASE h < k
    <3>1. Len(left) = cap
        BY <1>6, <1>9, <1>10, <2>3, <2>5
    <3>2. ASSUME NEW l \in DOMAIN left PROVE left[l].price <= i.price
      <4>1. l \in 1..c /\ l < k /\ left[l] = items[sorted[l]]
          BY <1>6, <1>9, <1>10, <2>3, <2>5
      <4>2. sorted[l] \in P /\ <<sorted[l], m>> \in R
          BY <1>6, <2>3, <4>1
      <4>3. items[sorted[l]].price <= items[m].price
        <5>1. Cheaper(items, sorted[l], m)
            BY <1>3, <2>2, <4>2
        <5>2. items[sorted[l]].price \in Nat /\ items[m].price \in Nat
            BY <1>1, <1>2, <2>2, <4>2
        <5> QED BY <5>1, <5>2 DEF Cheaper
      <4>4. items[sorted[l]].price \in Nat /\ items[m].price \in Nat /\ i.price \in Nat
          BY <1>1, <1>2, <2>1, <2>2, <4>2
      <4> QED BY <2>2, <4>1, <4>3, <4>4
    <3> QED BY <3>1, <3>2
  <2> QED BY <1>6, <1>9, <2>3, <2>4, <2>5
<1>12. ASSUME NEW n \in DOMAIN left, NEW k \in DOMAIN left, n # k
       PROVE  left[n].product # left[k].product
  <2>1. n \in 1..c /\ k \in 1..c /\ (n < k \/ k < n)
      BY <1>6, <1>9, <1>10, <1>12
  <2>2. sorted[n] \in P /\ sorted[k] \in P /\ sorted[n] # sorted[k]
      BY <1>5, <1>6, <2>1 DEF Orders
  <2> QED BY <1>1, <1>10, <2>2
<1> QED BY <1>8, <1>11, <1>12 DEF Cheapest

\* What is listed and can be read is among the products, or is one of the
\* summaries of the marketplace; and the details repeat the summaries.
EbayInv ==
    /\ topK \in Nat /\ shelf \in Shelves /\ market \in 1..Len(shelf)
    /\ summaries \in Seq(Items) /\ products \in Seq(Items) /\ details \in Seq(Items)
    /\ listed \ Misshapen \subseteq ToSet(products) \cup ToSet(summaries)
    /\ \A n \in DOMAIN details : n \in DOMAIN summaries /\ details[n] = summaries[n]
    /\ ebay \in {"search_token", "search"} => summaries = <<>> /\ details = <<>>
    /\ ebay \in {"detail_token", "detail"} => Len(details) < Len(summaries)
    /\ ebay = "done" => summaries = <<>> /\ answer = Deduplicate(products, topK)

LEMMA JoinedElements ==
    ASSUME NEW T, NEW s \in Seq(T), NEW t \in Seq(T)
    PROVE  s \o t \in Seq(T) /\ ToSet(s \o t) = ToSet(s) \cup ToSet(t)
<1>1. /\ s \o t \in Seq(T) /\ Len(s \o t) = Len(s) + Len(t)
      /\ \A k \in 1..Len(s) + Len(t) : (s \o t)[k] = IF k <= Len(s) THEN s[k] ELSE t[k - Len(s)]
    BY ConcatProperties
<1>2. /\ DOMAIN s = 1..Len(s) /\ DOMAIN t = 1..Len(t) /\ Len(s) \in Nat /\ Len(t) \in Nat
      /\ DOMAIN (s \o t) = 1..Len(s) + Len(t)
    BY <1>1
<1>3. ASSUME NEW k \in DOMAIN (s \o t) PROVE (s \o t)[k] \in ToSet(s) \cup ToSet(t)
  <2>1. CASE k <= Len(s)
      BY <1>1, <1>2, <2>1 DEF ToSet
  <2>2. CASE ~(k <= Len(s))
    <3>1. k - Len(s) \in DOMAIN t /\ (s \o t)[k] = t[k - Len(s)]
        BY <1>1, <1>2, <2>2
    <3> QED BY <3>1 DEF ToSet
  <2> QED BY <2>1, <2>2
<1>4. ASSUME NEW k \in DOMAIN s PROVE s[k] \in ToSet(s \o t)
  <2>1. k \in DOMAIN (s \o t) /\ (s \o t)[k] = s[k]
      BY <1>1, <1>2
  <2> QED BY <2>1 DEF ToSet
<1>5. ASSUME NEW k \in DOMAIN t PROVE t[k] \in ToSet(s \o t)
  <2>1. Len(s) + k \in DOMAIN (s \o t) /\ (s \o t)[Len(s) + k] = t[k]
      BY <1>1, <1>2
  <2> QED BY <2>1 DEF ToSet
<1> QED BY <1>1, <1>3, <1>4, <1>5 DEF ToSet

LEMMA NextMarketStep ==
    ASSUME EbayInv, NEW items \in Seq(Items), ToSet(summaries) \subseteq ToSet(items),
           NextMarket(items), UNCHANGED <<shelf, topK, listed>>
    PROVE  EbayInv'
<1> DEFINE places == {n \in DOMAIN items : items[n] \notin Misshapen}
           kept == Kept(items, places)
<1>1. /\ products' = products \o kept /\ summaries' = <<>> /\ details' = <<>>
      /\ \/ market < Len(shelf) /\ market' = market + 1 /\ ebay' = "search_token"
         \/ ebay' = "done" /\ answer' = Deduplicate(products', topK) /\ UNCHANGED market
    BY DEF NextMarket
<1>2. places \in SUBSET DOMAIN items
    OBVIOUS
<1>3. \A n \in DOMAIN items : items[n] \notin Misshapen => n \in places
    OBVIOUS
<1> HIDE DEF places
<1>4. /\ Cardinality(places) \in Nat /\ kept \in Seq(Items) /\ Len(kept) = Cardinality(places)
      /\ \A k \in 1..Cardinality(places) : kept[k] = items[InPlace(places)[k]]
      /\ \A n \in places : \E k \in 1..Cardinality(places) : InPlace(places)[k] = n
    BY <1>2, KeptInOrder
<1> HIDE DEF kept
<1>5. ToSet(items) \ Misshapen \subseteq ToSet(kept)
  <2>1. ASSUME NEW n \in DOMAIN items, items[n] \notin Misshapen PROVE items[n] \in ToSet(kept)
    <3>1. PICK k \in 1..Cardinality(places) : InPlace(places)[k] = n
        BY <1>3, <1>4, <2>1
    <3>2. k \in DOMAIN kept /\ kept[k] = items[n]
        BY <1>4, <3>1
    <3> QED BY <3>2 DEF ToSet
  <2> QED BY <2>1 DEF ToSet
<1>6. products' \in Seq(Items) /\ ToSet(products') = ToSet(products) \cup ToSet(kept)
    BY <1>1, <1>4, JoinedElements DEF EbayInv
<1>7. listed' \ Misshapen \subseteq ToSet(products')
    BY <1>5, <1>6 DEF EbayInv
<1>8. market' \in 1..Len(shelf')
  <2>1. Len(shelf) \in Nat /\ market \in 1..Len(shelf)
      BY EbayAssumption DEF EbayInv
  <2> QED BY <1>1, <2>1
<1>9. <<>> \in Seq(Items) /\ DOMAIN <<>> = {}
    OBVIOUS
<1>10. topK' \in Nat /\ shelf' \in Shelves
    BY DEF EbayInv
<1>11. /\ summaries' = <<>> /\ details' = <<>>
       /\ ebay' = "search_token" \/ (ebay' = "done" /\ answer' = Deduplicate(products', topK'))
    BY <1>1
<1> QED BY <1>6, <1>7, <1>8, <1>9, <1>10, <1>11 DEF EbayInv

LEMMA DetailedStep ==
    ASSUME EbayInv, ebay \in {"detail_token", "detail"}, Detailed, UNCHANGED <<shelf, topK>>
    PROVE  EbayInv'
<1> DEFINE more == Append(details, summaries[Len(details) + 1])
<1>1. /\ details' = more /\ UNCHANGED <<market, summaries, products, listed>>
      /\ ebay' = IF Outstanding(summaries, more) THEN "detail_token" ELSE "collected"
    BY DEF Detailed
<1>2. /\ details \in Seq(Items) /\ summaries \in Seq(Items) /\ Len(details) < Len(summaries)
      /\ \A n \in DOMAIN details : n \in DOMAIN summaries /\ details[n] = summaries[n]
    BY DEF EbayInv
<1>3. Len(details) + 1 \in DOMAIN summaries /\ summaries[Len(details) + 1] \in Items
    BY <1>2
<1>4. /\ more \in Seq(Items) /\ Len(more) = Len(details) + 1
      /\ \A n \in 1..Len(details) : more[n] = details[n]
      /\ more[Len(details) + 1] = summaries[Len(details) + 1]
    BY <1>2, <1>3, AppendProperties
<1>5. DOMAIN details = 1..Len(details) /\ Len(details) \in Nat /\ DOMAIN more = 1..(Len(details) + 1)
    BY <1>2, <1>4
<1> HIDE DEF more
<1>6. \A n \in DOMAIN more : n \in DOMAIN summaries /\ more[n] = summaries[n]
  <2>1. \A n \in DOMAIN more : n \in DOMAIN details \/ n = Len(details) + 1
      BY <1>5
  <2> QED BY <1>2, <1>3, <1>4, <1>5, <2>1
<1>7. ebay' \in {"detail_token", "collected"}
      /\ (ebay' = "detail_token" => Len(details') < Len(summaries'))
    BY <1>1 DEF Outstanding
<1> QED BY <1>1, <1>4, <1>6, <1>7 DEF EbayInv

LEMMA EbayResultStep ==
    ASSUME EbayInv, ebay \in {"search", "detail"}, NEW items \in Seq(Items), Result(items),
           UNCHANGED <<shelf, topK>>
    PROVE  EbayInv'
<1>1. CASE ebay = "search"
  <2>1. /\ summaries' = items /\ listed' = listed \cup ToSet(items)
        /\ ebay' = IF Outstanding(items, <<>>) THEN "detail_token" ELSE "collected"
        /\ UNCHANGED <<market, details, products>>
      BY <1>1 DEF Result
  <2>2. details = <<>> /\ summaries = <<>>
      BY <1>1 DEF EbayInv
  <2>3. ToSet(summaries) = {}
      BY <2>2 DEF ToSet
  <2>4. listed' \ Misshapen \subseteq ToSet(products') \cup ToSet(summaries')
      BY <2>1, <2>3 DEF EbayInv
  <2>5. ebay' \in {"detail_token", "collected"}
        /\ (ebay' = "detail_token" => Len(details') < Len(summaries'))
      BY <2>1, <2>2 DEF Outstanding
  <2>6. \A n \in DOMAIN details' : n \in DOMAIN summaries' /\ details'[n] = summaries'[n]
      BY <2>1, <2>2
  <2> QED BY <2>1, <2>4, <2>5, <2>6 DEF EbayInv
<1>2. CASE ebay = "detail"
    BY <1>2, DetailedStep DEF Result
<1> QED BY <1>1, <1>2

LEMMA AgainStep ==
    ASSUME EbayInv, ebay \in {"search", "detail"}, Again, UNCHANGED <<shelf, topK>>
    PROVE  EbayInv'
<1>1. CASE UNCHANGED <<market, ebay, summaries, details, products, answer, listed>>
    BY <1>1 DEF EbayInv
<1>2. CASE Result(<<>>)
  <2>1. <<>> \in Seq(Items)
      OBVIOUS
  <2> QED BY <1>2, <2>1, EbayResultStep
<1> QED BY <1>1, <1>2 DEF Again

\* The least of two numbers and a page.
LEMMA PageSize ==
    ASSUME NEW a \in Nat, NEW b \in Nat
    PROVE  \E n \in 0..50 : n <= a /\ n <= b /\ (n = a \/ n = b \/ n = 50)
<1>1. CASE a <= b /\ a <= 50
    BY <1>1
<1>2. CASE b <= a /\ b <= 50
    BY <1>2
<1>3. CASE 50 <= a /\ 50 <= b
    BY <1>3
<1> QED BY <1>1, <1>2, <1>3

LEMMA EbayStep == EbayInv /\ [EbayNext]_ebayVars => EbayInv'
<1> SUFFICES ASSUME EbayInv, [EbayNext]_ebayVars PROVE EbayInv'
    OBVIOUS
<1>0. <<>> \in Seq(Items) /\ ToSet(<<>>) = {}
    BY DEF ToSet
<1>1. CASE SkipSearch
  <2>1. summaries = <<>> /\ NextMarket(<<>>) /\ UNCHANGED <<shelf, topK, listed>>
      BY <1>1 DEF SkipSearch, EbayInv
  <2> QED BY <1>0, <2>1, NextMarketStep
<1>2. CASE HaveToken
    BY <1>2 DEF HaveToken, EbayInv
<1>3. CASE NoToken
  <2>1. UNCHANGED <<shelf, topK>>
      BY <1>3 DEF NoToken
  <2>2. CASE ebay = "search_token"
    <3>1. summaries = <<>> /\ NextMarket(<<>>) /\ UNCHANGED listed
        BY <1>3, <2>2 DEF NoToken, EbayInv
    <3> QED BY <1>0, <2>1, <3>1, NextMarketStep
  <2>3. CASE ebay = "detail_token"
    <3>1. Detailed
        BY <1>3, <2>3 DEF NoToken
    <3> QED BY <2>1, <2>3, <3>1, DetailedStep
  <2> QED BY <1>3, <2>2, <2>3 DEF NoToken
<1>4. CASE Answered
  <2> DEFINE len == Len(shelf[market])
             Fits(n) == n <= topK /\ n <= len /\ (n = topK \/ n = len \/ n = 50)
             size == CHOOSE n \in 0..50 : Fits(n)
  <2>1. /\ ebay \in {"search", "detail"} /\ UNCHANGED <<shelf, topK>>
        /\ Result(SubSeq(shelf[market], 1, size))
      BY <1>4 DEF Answered
  <2>2. shelf[market] \in Seq(Items) /\ topK \in Nat
    <3>1. shelf \in Seq(Seq(Items)) /\ market \in 1..Len(shelf) /\ topK \in Nat
        BY EbayAssumption DEF EbayInv
    <3> QED BY <3>1
  <2>3. \E n \in 0..50 : Fits(n)
    <3>1. len \in Nat /\ topK \in Nat
        BY <2>2
    <3> HIDE DEF len
    <3> QED BY <3>1, PageSize
  <2>4. size \in 0..50 /\ Fits(size)
      BY <2>3
  <2> HIDE DEF size
  <2>5. SubSeq(shelf[market], 1, size) \in Seq(Items)
    <3>1. size \in Nat /\ size <= Len(shelf[market])
        BY <2>4
    <3>2. \A k \in 1..size : shelf[market][k] \in Items
        BY <2>2, <3>1
    <3> QED BY <2>2, <3>1, <3>2, SubSeqProperties
  <2> QED BY <2>1, <2>5, EbayResultStep
<1>5. CASE Refused
    BY <1>0, <1>5, EbayResultStep DEF Refused
<1>6. CASE Unavailable
    BY <1>6, AgainStep DEF Unavailable
<1>7. CASE Unauthorized
  <2>1. ebay \in {"search", "detail"} /\ UNCHANGED <<shelf, topK>> /\ (Again \/ Result(<<>>))
      BY <1>7 DEF Unauthorized
  <2> QED BY <1>0, <2>1, AgainStep, EbayResultStep
<1>8. CASE Collected
  <2>1. NextMarket(Parsed) /\ UNCHANGED <<shelf, topK, listed>>
      BY <1>8 DEF Collected
  <2>2. Parsed = summaries
    <3>1. \A n \in DOMAIN details : details[n] = summaries[n]
        BY DEF EbayInv
    <3>2. Parsed = [n \in DOMAIN summaries |-> summaries[n]]
        BY <3>1 DEF Parsed
    <3> QED BY <3>2 DEF EbayInv
  <2> QED BY <2>1, <2>2, NextMarketStep DEF EbayInv
<1>9. CASE Expire
    BY <1>9 DEF Expire, EbayInv
<1>10. CASE UNCHANGED ebayVars
    BY <1>10 DEF ebayVars, EbayInv
<1> QED BY <1>1, <1>2, <1>3, <1>4, <1>5, <1>6, <1>7, <1>8, <1>9, <1>10 DEF EbayNext

LEMMA EbayInvInit == EbayInit => EbayInv
<1> SUFFICES ASSUME EbayInit PROVE EbayInv
    OBVIOUS
<1>1. topK \in Nat /\ shelf \in Shelves /\ shelf \in Seq(Seq(Items)) /\ shelf # <<>>
    BY EbayAssumption DEF EbayInit
<1>2. 1 \in 1..Len(shelf)
    BY <1>1, EmptySeq
<1>3. <<>> \in Seq(Items) /\ DOMAIN <<>> = {}
    OBVIOUS
<1> QED BY <1>1, <1>2, <1>3 DEF EbayInit, EbayInv

\* Whatever eBay answers and however often the token is lost, each listed item is
\* returned, a cheaper variant of it, or as many cheaper products as were asked for.
THEOREM CheapestReturnedHolds == EbaySpec => []CheapestReturned
<1>1. EbayInv => CheapestReturned
  <2> SUFFICES ASSUME EbayInv, ebay = "done" PROVE CheapestReturned
      BY DEF CheapestReturned
  <2>1. /\ summaries = <<>> /\ answer = Deduplicate(products, topK) /\ topK \in Nat
        /\ products \in Seq(Items) /\ listed \ Misshapen \subseteq ToSet(products) \cup ToSet(summaries)
      BY DEF EbayInv
  <2>2. ToSet(summaries) = {}
      BY <2>1 DEF ToSet
  <2>3. Cheapest(products, topK, answer)
      BY <2>1, DeduplicateCheapest
  <2> QED BY <2>1, <2>2, <2>3 DEF Cheapest, CheapestReturned
<1> QED BY <1>1, EbayInvInit, EbayStep, PTL DEF EbaySpec

-----------------------------------------------------------------------------
\* The extraction of keyframes

\* Marks of a video that no two frames share the name of, and none after its
\* end, where that is known.
Within(x, v) == v.length = 0 \/ x <= v.length

Telling(m, v) ==
    /\ m \in Seq(Nat)
    /\ \A i \in DOMAIN m : Within(m[i], v)
    /\ \A i, j \in DOMAIN m : i # j => FrameName(m[i]) # FrameName(m[j])

Piece(i, n, k) == ((2*i - 1) * k) \div (2*n)

Bounded(i, n, k) ==
    /\ Piece(i, n, k) \in Nat
    /\ 2*n * Piece(i, n, k) <= (2*i - 1) * k
    /\ (2*i - 1) * k < 2*n * Piece(i, n, k) + 2*n

LEMMA PieceBounds ==
    ASSUME NEW k \in Nat, NEW n \in 1..5, NEW i \in 1..n
    PROVE  Bounded(i, n, k)
<1>1. CASE n = 1
    BY <1>1 DEF Bounded, Piece
<1>2. CASE n = 2
    BY <1>2 DEF Bounded, Piece
<1>3. CASE n = 3
    BY <1>3 DEF Bounded, Piece
<1>4. CASE n = 4
    BY <1>4 DEF Bounded, Piece
<1>5. CASE n = 5
    BY <1>5 DEF Bounded, Piece
<1> QED BY <1>1, <1>2, <1>3, <1>4, <1>5

LEMMA OddSteps ==
    ASSUME NEW k \in Nat, NEW n \in 1..5, NEW i \in 1..n, NEW j \in 1..n, i < j
    PROVE  /\ (2*i - 1) * k + 2 * k <= (2*j - 1) * k
           /\ (2*j - 1) * k <= (2*n - 1) * k
<1>1. \A a, b \in 0..9 : a <= b => a * k <= b * k
  <2>1. ASSUME NEW a \in 0..9, NEW b \in 0..9, a <= b PROVE a * k <= b * k
    <3>1. b - a \in Nat /\ b = a + (b - a)
        BY <2>1
    <3>2. (b - a) * k >= 0
        BY <3>1
    <3> QED BY <3>1, <3>2
  <2> QED BY <2>1
<1>2. /\ 2*i - 1 \in 0..9 /\ 2*i + 1 \in 0..9 /\ 2*j - 1 \in 0..9 /\ 2*n - 1 \in 0..9
      /\ 2*i + 1 <= 2*j - 1 /\ 2*j - 1 <= 2*n - 1
    OBVIOUS
<1>3. (2*i + 1) * k <= (2*j - 1) * k /\ (2*j - 1) * k <= (2*n - 1) * k
    BY <1>1, <1>2
<1> QED BY <1>3

LEMMA FarNames ==
    ASSUME NEW a \in Nat, NEW b \in Nat, a + 10 <= b
    PROVE  FrameName(a) # FrameName(b)
BY DEF FrameName

LEMMA PiecesApart ==
    ASSUME NEW k \in Nat, k > 5000, NEW n \in 1..5, NEW i \in 1..n, NEW j \in 1..n, i < j
    PROVE  Piece(i, n, k) + 10 <= Piece(j, n, k)
<1>1. /\ Piece(i, n, k) \in Nat /\ 2*n * Piece(i, n, k) <= (2*i - 1) * k
      /\ Piece(j, n, k) \in Nat /\ (2*j - 1) * k < 2*n * Piece(j, n, k) + 2*n
  <2>1. Bounded(i, n, k) /\ Bounded(j, n, k)
      BY PieceBounds
  <2> QED BY <2>1 DEF Bounded
<1>2. (2*i - 1) * k + 2 * k <= (2*j - 1) * k
    BY OddSteps
<1>3. (2*i - 1) * k \in Nat /\ (2*j - 1) * k \in Nat
  <2>1. 2*i - 1 \in Nat /\ 2*j - 1 \in Nat
      OBVIOUS
  <2> QED BY <2>1
<1> DEFINE a == (2*i - 1) * k
           b == (2*j - 1) * k
           p == Piece(i, n, k)
           q == Piece(j, n, k)
<1>4. /\ p \in Nat /\ q \in Nat /\ a \in Nat /\ b \in Nat /\ a + 2 * k <= b
      /\ 2*n * p <= a /\ b < 2*n * q + 2*n
    BY <1>1, <1>2, <1>3
<1> HIDE DEF a, b, p, q
<1>5. p + 10 <= q
  <2>1. CASE n = 1
      BY <1>4, <2>1
  <2>2. CASE n = 2
      BY <1>4, <2>2
  <2>3. CASE n = 3
      BY <1>4, <2>3
  <2>4. CASE n = 4
      BY <1>4, <2>4
  <2>5. CASE n = 5
      BY <1>4, <2>5
  <2> QED BY <2>1, <2>2, <2>3, <2>4, <2>5
<1> QED BY <1>5 DEF p, q

\* The last piece ends before the guard, when there are more.
Inside(p, k) == p \in Nat /\ p <= k /\ (k > 5000 => p <= k - 250)

LEMMA PieceInside ==
    ASSUME NEW k \in Nat, NEW n \in 1..5, NEW i \in 1..n
    PROVE  Inside(Piece(i, n, k), k)
<1>1. /\ Piece(i, n, k) \in Nat /\ 2*n * Piece(i, n, k) <= (2*i - 1) * k
    BY PieceBounds DEF Bounded
<1>2. (2*i - 1) * k <= (2*n - 1) * k
  <2>1. CASE i = n
      BY <2>1
  <2>2. CASE i < n
      BY <2>2, OddSteps
  <2> QED BY <2>1, <2>2
<1> DEFINE p == Piece(i, n, k)
           a == (2*i - 1) * k
<1>3. a \in Nat
  <2>1. 2*i - 1 \in Nat
      OBVIOUS
  <2> QED BY <2>1
<1>4. p \in Nat /\ a \in Nat /\ 2*n * p <= a /\ a <= (2*n - 1) * k
    BY <1>1, <1>2, <1>3
<1> HIDE DEF p, a
<1>5. p <= k /\ (k > 5000 => p <= k - 250)
  <2>1. CASE n = 1
      BY <1>4, <2>1
  <2>2. CASE n = 2
      BY <1>4, <2>2
  <2>3. CASE n = 3
      BY <1>4, <2>3
  <2>4. CASE n = 4
      BY <1>4, <2>4
  <2>5. CASE n = 5
      BY <1>4, <2>5
  <2> QED BY <2>1, <2>2, <2>3, <2>4, <2>5
<1> QED BY <1>1, <1>5 DEF p, Inside

Roomy(start, end, n, guard, v) ==
    /\ v.length \in Nat /\ start \in Nat /\ end \in Nat /\ start <= end /\ Within(end, v)
    /\ guard \in 0..250 /\ n \in 1..5 /\ (n > 1 => end - start > 5000)

LEMMA SpreadTelling ==
    ASSUME NEW v, NEW start, NEW end, NEW n, NEW guard, Roomy(start, end, n, guard, v)
    PROVE  Telling(Spread(start, end, n, guard), v)
<1> /\ v.length \in Nat /\ start \in Nat /\ end \in Nat /\ start <= end /\ Within(end, v)
    /\ guard \in 0..250 /\ n \in 1..5 /\ (n > 1 => end - start > 5000)
    BY DEF Roomy
<1> DEFINE m == Spread(start, end, n, guard)
           k == end - start
<1>0. k \in Nat /\ end = start + k /\ (n > 1 => k > 5000)
    OBVIOUS
<1>1. m = [i \in 1..n |-> AtMost(start + Piece(i, n, k), AtLeast(start, Minus(end, guard)))]
    BY DEF Spread, Piece
<1> HIDE DEF m, k
<1>2. ASSUME NEW i \in 1..n
      PROVE  m[i] \in Nat /\ m[i] <= end /\ (n > 1 => m[i] = start + Piece(i, n, k))
  <2>1. m[i] = AtMost(start + Piece(i, n, k), AtLeast(start, Minus(end, guard)))
      BY <1>1
  <2>2. /\ Piece(i, n, k) \in Nat /\ Piece(i, n, k) <= k
        /\ n > 1 => Piece(i, n, k) <= k - 250 /\ k > 5000
    <3>1. Inside(Piece(i, n, k), k)
        BY <1>0, PieceInside
    <3> QED BY <3>1, <1>0 DEF Inside
  <2> QED BY <1>0, <2>1, <2>2 DEF AtMost, AtLeast, Minus
<1>3. m \in Seq(Nat) /\ DOMAIN m = 1..n
  <2>1. m \in [1..n -> Nat]
      BY <1>1, <1>2
  <2> QED BY <2>1
<1>4. ASSUME NEW i \in 1..n, NEW j \in 1..n, i < j PROVE FrameName(m[i]) # FrameName(m[j])
  <2>1. n > 1
      BY <1>4
  <2>2. Piece(i, n, k) + 10 <= Piece(j, n, k) /\ Piece(i, n, k) \in Nat /\ Piece(j, n, k) \in Nat
    <3>1. Inside(Piece(i, n, k), k) /\ Inside(Piece(j, n, k), k)
        BY <1>0, PieceInside
    <3> QED BY <1>0, <1>4, <2>1, <3>1, PiecesApart DEF Inside
  <2>3. m[i] \in Nat /\ m[j] \in Nat /\ m[i] + 10 <= m[j]
      BY <1>2, <2>1, <2>2
  <2> QED BY <2>3, FarNames
<1>5. \A i, j \in 1..n : i # j => FrameName(m[i]) # FrameName(m[j])
  <2>1. ASSUME NEW i \in 1..n, NEW j \in 1..n, i # j PROVE FrameName(m[i]) # FrameName(m[j])
    <3>1. i < j \/ j < i
        BY <2>1
    <3> QED BY <1>4, <3>1
  <2> QED BY <2>1
<1>6. \A i \in 1..n : Within(m[i], v)
    BY <1>2 DEF Within
<1>7. Telling(m, v)
    BY <1>3, <1>5, <1>6 DEF Telling
<1> QED BY <1>7 DEF m

\* What _calculate_timestamps returns, for a video of every length and every
\* limit of frames, are times of the video whose names are apart.
LEMMA PyAVTelling ==
    ASSUME NEW v, v.length \in Nat
    PROVE  Telling(PyAVMarks(v), v)
<1>1. CASE v.length = 0
  <2>1. PyAVMarks(v) = <<0>>
      BY <1>1 DEF PyAVMarks
  <2>2. <<0>> \in Seq(Nat) /\ DOMAIN <<0>> = 1..1 /\ <<0>>[1] = 0
      OBVIOUS
  <2> QED BY <1>1, <2>1, <2>2 DEF Telling, Within
<1>2. CASE v.length # 0
  <2> DEFINE wanted == IF v.length <= 5000 THEN 1 ELSE IF v.length <= 15000 THEN 3 ELSE 5
             n == AtMost(wanted, AtLeast(1, MaxFrames))
  <2>1. n \in 1..5 /\ (n > 1 => v.length - 0 > 5000)
      BY KeyframesAssumption DEF AtMost, AtLeast, KeyframesAssumption
  <2>2. PyAVMarks(v) = Spread(0, v.length, n, PyAVGuard)
      BY <1>2 DEF PyAVMarks
  <2> HIDE DEF n
  <2>3. Roomy(0, v.length, n, PyAVGuard, v)
      BY <2>1 DEF Roomy, PyAVGuard, Within
  <2> QED BY <2>2, <2>3, SpreadTelling
<1> QED BY <1>1, <1>2

\* The middle of a scene is in it, and 10 ms before its end if it has 20 ms.
LEMMA MidpointInside ==
    ASSUME NEW start \in Nat, NEW end \in Nat, start <= end
    PROVE  /\ Midpoint(start, end) \in Nat
           /\ start <= Midpoint(start, end) /\ Midpoint(start, end) <= end
           /\ start + 20 <= end => Midpoint(start, end) + 10 <= end
<1> DEFINE half == (end - start) \div 2
<1>1. half \in Nat /\ 2 * half <= end - start /\ end - start <= 2 * half + 1
    OBVIOUS
<1> HIDE DEF half
<1>2. Midpoint(start, end) = start + half
  <2>1. CASE end - start < MinScene
      BY <1>1, <2>1 DEF Midpoint, half, AtMost, MinScene, ShortOffset
  <2>2. CASE ~(end - start < MinScene)
    <3>1. half >= 250
        BY <1>1, <2>2 DEF MinScene
    <3>2. AtMost(SceneGuard, half) = 150
        BY <1>1, <3>1 DEF AtMost, SceneGuard
    <3>3. AtLeast(start, end - 150) = end - 150 /\ start + half < end - 150
        BY <1>1, <3>1, <2>2 DEF AtLeast, MinScene
    <3>4. Midpoint(start, end) = AtMost(start + half, AtLeast(start, end - AtMost(SceneGuard, half)))
        BY <2>2 DEF Midpoint, half
    <3> QED BY <3>2, <3>3, <3>4 DEF AtMost
  <2> QED BY <2>1, <2>2
<1> QED BY <1>1, <1>2

\* A scene that is kept ends in the video, and before the next one.
CutsApart(v) ==
    /\ Cuts(v) \in Seq(Nat \X Nat)
    /\ \A i \in DOMAIN Cuts(v) : Within(Cuts(v)[i][2], v)
    /\ \A i, j \in DOMAIN Cuts(v) :
           i < j /\ Cuts(v)[j][1] < Cuts(v)[j][2]
              => Cuts(v)[i][1] + 20 <= Cuts(v)[i][2] /\ Cuts(v)[i][2] <= Cuts(v)[j][1]

LEMMA Clipped ==
    ASSUME NEW v, v.length \in Nat, NEW t \in Nat
    PROVE  /\ Clip(t, v) \in Nat /\ Clip(t, v) <= t /\ Within(Clip(t, v), v)
           /\ Clip(t, v) = t \/ (v.length > 0 /\ Clip(t, v) = v.length)
BY DEF Clip, AtMost, Within

LEMMA CutsInOrder ==
    ASSUME NEW v \in Footage
    PROVE  CutsApart(v)
<1> DEFINE cuts == v.scenes
           all == Cuts(v)
<1>1. v.length \in Nat /\ cuts \in Seq(Nat \X Nat) /\ InOrder(cuts)
    BY KeyframesAssumption
<1>2. CASE cuts = <<>>
  <2>1. all = << <<0, v.length>> >>
      BY <1>2 DEF Cuts
  <2>2. all \in Seq(Nat \X Nat) /\ DOMAIN all = 1..1 /\ all[1] = <<0, v.length>>
    <3>1. <<0, v.length>> \in Nat \X Nat
        BY <1>1
    <3> HIDE DEF all
    <3> QED BY <2>1, <3>1
  <2> HIDE DEF all
  <2>3. Within(all[1][2], v)
      BY <1>1, <2>2 DEF Within
  <2>4. \A i \in DOMAIN all : i = 1
      BY <2>2
  <2>5. \A i, j \in DOMAIN all : ~(i < j)
      BY <2>2
  <2> QED BY <2>2, <2>3, <2>4, <2>5 DEF CutsApart, all
<1>3. CASE cuts # <<>>
  <2>1. all = [i \in DOMAIN cuts |-> <<cuts[i][1], Clip(cuts[i][2], v)>>]
      BY <1>3 DEF Cuts
  <2>2. /\ DOMAIN cuts = 1..Len(cuts) /\ Len(cuts) \in Nat
        /\ \A i \in DOMAIN cuts : cuts[i] \in Nat \X Nat
      BY <1>1
  <2> HIDE DEF cuts, all
  <2>3. \A i \in DOMAIN cuts : cuts[i][1] \in Nat /\ cuts[i][2] \in Nat
      BY <2>2
  <2>4. DOMAIN all = DOMAIN cuts
      BY <2>1
  <2>5. ASSUME NEW i \in DOMAIN cuts
        PROVE  /\ all[i] \in Nat \X Nat /\ Within(all[i][2], v)
               /\ all[i][1] = cuts[i][1] /\ all[i][2] = Clip(cuts[i][2], v)
    <3>1. all[i] = <<cuts[i][1], Clip(cuts[i][2], v)>>
        BY <2>1
    <3>2. Clip(cuts[i][2], v) \in Nat /\ Within(Clip(cuts[i][2], v), v)
        BY <1>1, <2>3, Clipped
    <3> QED BY <2>3, <3>1, <3>2
  <2>6. all \in Seq(Nat \X Nat)
    <3>1. all \in [1..Len(cuts) -> Nat \X Nat]
        BY <2>1, <2>2, <2>4, <2>5
    <3> QED BY <2>2, <3>1
  <2>7. ASSUME NEW i \in DOMAIN cuts, NEW j \in DOMAIN cuts, i < j, all[j][1] < all[j][2]
        PROVE  all[i][1] + 20 <= all[i][2] /\ all[i][2] <= all[j][1]
    <3>1. cuts[i][1] + 20 <= cuts[i][2] /\ cuts[i][2] <= cuts[j][1]
        BY <1>1, <2>7 DEF InOrder
    <3>2. /\ all[i][1] = cuts[i][1] /\ all[i][2] = Clip(cuts[i][2], v)
          /\ all[j][1] = cuts[j][1] /\ all[j][2] = Clip(cuts[j][2], v)
        BY <2>5
    <3>3. cuts[i][2] \in Nat /\ cuts[j][1] \in Nat /\ cuts[j][2] \in Nat /\ cuts[i][1] \in Nat
        BY <2>3
    <3>4. Clip(cuts[j][2], v) \in Nat /\ Within(Clip(cuts[j][2], v), v)
        BY <1>1, <3>3, Clipped
    <3>5. Clip(cuts[i][2], v) = cuts[i][2] \/ (v.length > 0 /\ Clip(cuts[i][2], v) = v.length)
        BY <1>1, <3>3, Clipped
    <3>6. Clip(cuts[i][2], v) <= cuts[i][2]
        BY <1>1, <3>3, Clipped
    <3>7. Clip(cuts[i][2], v) = cuts[i][2]
      <4>1. CASE v.length > 0 /\ Clip(cuts[i][2], v) = v.length
        <5>1. cuts[j][1] < Clip(cuts[j][2], v)
            BY <2>7, <3>2
        <5>2. Clip(cuts[j][2], v) <= Clip(cuts[i][2], v)
            BY <1>1, <3>4, <4>1 DEF Within
        <5>3. Clip(cuts[i][2], v) \in Nat
            BY <1>1, <4>1
        <5> QED BY <3>1, <3>3, <3>4, <3>6, <5>1, <5>2, <5>3
      <4> QED BY <3>5, <4>1
    <3> QED BY <3>1, <3>2, <3>7
  <2> QED BY <2>4, <2>5, <2>6, <2>7 DEF CutsApart, all
<1> QED BY <1>2, <1>3

\* What _select_midpoint_timestamps returns, for all scenes that PySceneDetect may
\* cut and a video of every length, are times of the video whose names are apart.
LEMMA ScenesTelling ==
    ASSUME NEW v \in Footage
    PROVE  Telling(SceneMarks(v), v)
<1> DEFINE L == v.length
           all == Cuts(v)
           places == {i \in DOMAIN all : all[i][1] < all[i][2]}
           scenes == Kept(all, places)
           span == scenes[1][2] - scenes[1][1]
           n == Limited(IF span > 10000 THEN 5 ELSE IF span > 5000 THEN 3 ELSE 1)
<1>1. L \in Nat /\ MaxScenes \in Nat
    BY KeyframesAssumption
<1>2. SceneMarks(v) = IF scenes = <<>> THEN <<>>
                      ELSE IF Len(all) = 1 /\ n > 1
                      THEN Spread(scenes[1][1], scenes[1][2], n, SceneGuard)
                      ELSE [i \in 1..Limited(Len(scenes)) |-> Midpoint(scenes[i][1], scenes[i][2])]
    BY DEF SceneMarks
<1>3. v.length \in Nat
    BY <1>1
<1>4. /\ all \in Seq(Nat \X Nat)
      /\ \A i \in DOMAIN all : Within(all[i][2], v)
      /\ \A i, j \in DOMAIN all : i < j /\ all[j][1] < all[j][2]
            => all[i][1] + 20 <= all[i][2] /\ all[i][2] <= all[j][1]
    BY CutsInOrder DEF CutsApart
<1>5. places \in SUBSET DOMAIN all /\ \A i \in places : all[i][1] < all[i][2]
    OBVIOUS
<1> DEFINE c == Cardinality(places)
           order == InPlace(places)
<1> HIDE DEF all, places
<1>6. /\ c \in Nat /\ order \in [1..c -> places] /\ scenes \in Seq(Nat \X Nat) /\ Len(scenes) = c
      /\ \A k \in 1..c : scenes[k] = all[order[k]]
      /\ \A k, l \in 1..c : k < l => order[k] < order[l]
    BY SMTT(30), <1>4, <1>5, KeptInOrder
<1> HIDE DEF scenes, c, order
<1>7. ASSUME NEW k \in 1..c
      PROVE  /\ scenes[k][1] \in Nat /\ scenes[k][2] \in Nat /\ scenes[k][1] < scenes[k][2]
             /\ Within(scenes[k][2], v)
  <2>1. order[k] \in places /\ order[k] \in DOMAIN all /\ scenes[k] = all[order[k]]
      BY <1>5, <1>6
  <2>2. all[order[k]] \in Nat \X Nat
      BY <1>4, <2>1
  <2> QED BY <1>4, <1>5, <2>1, <2>2 DEF Within
<1>8. ASSUME NEW k \in 1..c, NEW l \in 1..c, k < l
      PROVE  scenes[k][1] + 20 <= scenes[k][2] /\ scenes[k][2] <= scenes[l][1]
  <2>1. order[k] \in DOMAIN all /\ order[l] \in places /\ order[l] \in DOMAIN all /\ order[k] < order[l]
      BY <1>5, <1>6, <1>8
  <2> QED BY <1>4, <1>5, <1>6, <2>1
<1>9. CASE scenes = <<>>
  <2>1. SceneMarks(v) = <<>>
      BY <1>2, <1>9
  <2>2. <<>> \in Seq(Nat) /\ DOMAIN <<>> = {}
      OBVIOUS
  <2> QED BY <2>1, <2>2 DEF Telling
<1>10. CASE scenes # <<>> /\ Len(all) = 1 /\ n > 1
  <2>1. 1 \in 1..c
      BY <1>6, <1>10
  <2>2. span \in Nat
      BY <1>7, <2>1
  <2>3. n \in 1..5 /\ (n > 1 => span > 5000)
    <3> HIDE DEF span
    <3> QED BY <1>1, <2>2 DEF Limited, AtMost
  <2>4. SceneGuard \in 0..250
      BY DEF SceneGuard
  <2>5. /\ scenes[1][1] \in Nat /\ scenes[1][2] \in Nat /\ scenes[1][1] <= scenes[1][2]
        /\ Within(scenes[1][2], v) /\ (n > 1 => scenes[1][2] - scenes[1][1] > 5000)
    <3> HIDE DEF n
    <3> QED BY <1>7, <2>1, <2>3 DEF span
  <2>6. SceneMarks(v) = Spread(scenes[1][1], scenes[1][2], n, SceneGuard)
      BY <1>2, <1>10
  <2> HIDE DEF n
  <2>7. Roomy(scenes[1][1], scenes[1][2], n, SceneGuard, v)
      BY <1>3, <2>3, <2>4, <2>5 DEF Roomy
  <2>8. Telling(Spread(scenes[1][1], scenes[1][2], n, SceneGuard), v)
      BY <2>7, SpreadTelling
  <2> QED BY <2>6, <2>8
<1>11. CASE scenes # <<>> /\ ~(Len(all) = 1 /\ n > 1)
  <2> DEFINE h == Limited(c)
             m == [i \in 1..h |-> Midpoint(scenes[i][1], scenes[i][2])]
  <2>1. SceneMarks(v) = m
      BY <1>2, <1>6, <1>11
  <2>2. h \in Nat /\ h <= c
      BY <1>1, <1>6 DEF Limited, AtMost
  <2> HIDE DEF h
  <2>3. \A i \in 1..h : i \in 1..c /\ m[i] = Midpoint(scenes[i][1], scenes[i][2])
      BY <1>6, <2>2
  <2>4. DOMAIN m = 1..h
      OBVIOUS
  <2>5. ASSUME NEW i \in 1..h
        PROVE  m[i] \in Nat /\ Within(m[i], v) /\ scenes[i][1] <= m[i]
    <3>1. /\ scenes[i][1] \in Nat /\ scenes[i][2] \in Nat /\ scenes[i][1] <= scenes[i][2]
          /\ Within(scenes[i][2], v)
        BY <1>7, <2>3
    <3>2. m[i] \in Nat /\ scenes[i][1] <= m[i] /\ m[i] <= scenes[i][2]
        BY <2>3, <3>1, MidpointInside
    <3> QED BY <1>3, <3>1, <3>2 DEF Within
  <2>6. m \in [1..h -> Nat]
      BY <2>3, <2>5
  <2> HIDE DEF m
  <2>7. m \in Seq(Nat)
      BY <2>2, <2>6
  <2>8. ASSUME NEW i \in 1..h, NEW j \in 1..h, i < j PROVE FrameName(m[i]) # FrameName(m[j])
    <3>1. /\ scenes[i][1] \in Nat /\ scenes[i][2] \in Nat /\ scenes[i][1] <= scenes[i][2]
          /\ scenes[j][1] \in Nat
        BY <1>7, <2>3
    <3>2. scenes[i][1] + 20 <= scenes[i][2] /\ scenes[i][2] <= scenes[j][1]
        BY <1>8, <2>3, <2>8
    <3>3. m[i] + 10 <= scenes[i][2]
        BY <2>3, <3>1, <3>2, MidpointInside
    <3>4. m[i] \in Nat /\ m[j] \in Nat /\ scenes[j][1] <= m[j]
        BY <2>5
    <3>5. m[i] + 10 <= m[j]
        BY <3>1, <3>2, <3>3, <3>4
    <3> QED BY <3>4, <3>5, FarNames
  <2>9. \A i, j \in 1..h : i # j => FrameName(m[i]) # FrameName(m[j])
    <3>1. ASSUME NEW i \in 1..h, NEW j \in 1..h, i # j PROVE FrameName(m[i]) # FrameName(m[j])
      <4>1. i < j \/ j < i
          BY <2>2, <3>1
      <4> QED BY <2>8, <4>1
    <3> QED BY <3>1
  <2> QED BY <2>1, <2>4, <2>5, <2>7, <2>9 DEF Telling, m
<1> QED BY <1>9, <1>10, <1>11

-----------------------------------------------------------------------------
\* The directory

\* Before a frame was asked for there is no directory, unless a strategy of
\* TikTok made it or an earlier extraction left it.
FolderInv ==
    /\ reel = "nothing" /\ wrapped => ~exists \/ litter
    /\ ~wrapped /\ exists /\ ~(extractions > 1) => reel \in {"frames", "frames_found"} \/ litter
    /\ extractions \in Nat \ {0} /\ wrapped \in BOOLEAN
    /\ exists \in BOOLEAN /\ litter \in BOOLEAN

\* Wherever a crash and a redelivery interrupt it, an extraction that returns
\* nothing leaves no directory that it has made.
THEOREM NothingLeftBehindHolds == KeyframesSpec => []NothingLeftBehind
<1>1. KeyframesInit => FolderInv
  <2>1. KeyframesInit => extractions \in Nat \ {0} /\ reel # "nothing"
      BY DEF KeyframesInit
  <2>2. KeyframesInit => litter \in BOOLEAN
      BY Zenon DEF KeyframesInit
  <2> QED BY <2>1, <2>2 DEF KeyframesInit, FolderInv
<1>2. FolderInv /\ [KeyframesNext]_reelVars => FolderInv'
  <2> SUFFICES ASSUME FolderInv, [KeyframesNext]_reelVars PROVE FolderInv'
      OBVIOUS
  <2> USE DEF FolderInv
  <2>1. CASE Route
      BY <2>1 DEF Route
  <2>2. CASE RefuseFile
      BY <2>2 DEF RefuseFile, GiveWay
  <2>3. CASE ChooseMarks
      BY <2>3 DEF ChooseMarks
  <2>4. CASE SaveFrameFile \/ SkipMark
      BY <2>4 DEF SaveFrameFile, SkipMark
  <2>5. CASE FinishFrames
      BY <2>5 DEF FinishFrames, GiveWay, RemoveFolder
  <2>6. CASE RaiseFrames
      BY <2>6 DEF RaiseFrames, GiveWay, RemoveFolder
  <2>7. CASE RetryFrames
      BY <2>7 DEF RetryFrames
  <2>8. CASE GiveUpFrames
      BY <2>8 DEF GiveUpFrames, RemoveFolder
  <2>9. CASE ExtractAgain
      BY <2>9 DEF ExtractAgain
  <2>10. CASE UNCHANGED reelVars
      BY <2>10 DEF reelVars
  <2> QED BY <2>1, <2>2, <2>3, <2>4, <2>5, <2>6, <2>7, <2>8, <2>9, <2>10 DEF KeyframesNext
<1>3. FolderInv => NothingLeftBehind
    BY DEF FolderInv, NothingLeftBehind
<1> QED BY <1>1, <1>2, <1>3, PTL DEF KeyframesSpec

-----------------------------------------------------------------------------
\* The frames and their names

FilesThere == \A i \in DOMAIN saved : FrameName(saved[i]) \in folder
NamesLeft == \A i \in DOMAIN marks, j \in DOMAIN saved : FrameName(marks[i]) # FrameName(saved[j])

FramesInv ==
    /\ footage \in Footage
    /\ reel = "frames" => Telling(marks, footage) /\ NamesLeft
    /\ reel \in {"frames", "frames_found"} => Telling(saved, footage) /\ FilesThere

LEMMA TellingTail ==
    ASSUME NEW v, NEW m, Telling(m, v), m # <<>>
    PROVE  /\ Telling(Tail(m), v) /\ Head(m) \in Nat /\ Within(Head(m), v)
           /\ 1 \in DOMAIN m /\ Head(m) = m[1]
           /\ \A i \in DOMAIN Tail(m) : i + 1 \in DOMAIN m /\ Tail(m)[i] = m[i + 1]
           /\ \A i \in DOMAIN Tail(m) : FrameName(Tail(m)[i]) # FrameName(Head(m))
<1>1. m \in Seq(Nat)
    BY DEF Telling
<1>2. /\ Head(m) \in Nat /\ Tail(m) \in Seq(Nat) /\ Len(Tail(m)) = Len(m) - 1
      /\ \A i \in 1..Len(Tail(m)) : Tail(m)[i] = m[i + 1]
      /\ DOMAIN m = 1..Len(m) /\ Len(m) \in Nat \ {0} /\ Head(m) = m[1]
    BY <1>1, HeadTailProperties, EmptySeq
<1>3. DOMAIN Tail(m) = 1..(Len(m) - 1)
    BY <1>2
<1>4. \A i \in DOMAIN Tail(m) : i + 1 \in DOMAIN m /\ Tail(m)[i] = m[i + 1] /\ i + 1 # 1
    BY <1>2, <1>3
<1>5. \A i, j \in DOMAIN Tail(m) : i # j => i + 1 # j + 1
    BY <1>3
<1>6. 1 \in DOMAIN m
    BY <1>2
<1>7. /\ \A i \in DOMAIN m : Within(m[i], v)
      /\ \A i, j \in DOMAIN m : i # j => FrameName(m[i]) # FrameName(m[j])
    BY DEF Telling
<1>8. Telling(Tail(m), v)
  <2>1. \A i \in DOMAIN Tail(m) : Within(Tail(m)[i], v)
      BY <1>4, <1>7
  <2>2. ASSUME NEW i \in DOMAIN Tail(m), NEW j \in DOMAIN Tail(m), i # j
        PROVE  FrameName(Tail(m)[i]) # FrameName(Tail(m)[j])
    <3>1. FrameName(m[i + 1]) # FrameName(m[j + 1])
        BY <1>4, <1>5, <1>7, <2>2
    <3> QED BY <1>4, <3>1
  <2> QED BY <1>2, <2>1, <2>2 DEF Telling
<1>9. ASSUME NEW i \in DOMAIN Tail(m) PROVE FrameName(Tail(m)[i]) # FrameName(Head(m))
  <2>1. FrameName(m[i + 1]) # FrameName(m[1])
      BY <1>4, <1>6, <1>7
  <2> QED BY <1>2, <1>4, <2>1
<1> QED BY <1>2, <1>4, <1>6, <1>7, <1>8, <1>9

LEMMA TellingAppend ==
    ASSUME NEW v, NEW m, Telling(m, v), NEW x \in Nat, Within(x, v),
           \A i \in DOMAIN m : FrameName(m[i]) # FrameName(x)
    PROVE  /\ Telling(Append(m, x), v) /\ DOMAIN m \subseteq DOMAIN Append(m, x)
           /\ \A i \in DOMAIN Append(m, x) :
                 \/ i \in DOMAIN m /\ Append(m, x)[i] = m[i]
                 \/ i \notin DOMAIN m /\ Append(m, x)[i] = x
<1>1. m \in Seq(Nat)
    BY DEF Telling
<1>2. /\ Append(m, x) \in Seq(Nat) /\ Len(Append(m, x)) = Len(m) + 1
      /\ \A i \in 1..Len(m) : Append(m, x)[i] = m[i]
      /\ Append(m, x)[Len(m) + 1] = x /\ DOMAIN m = 1..Len(m) /\ Len(m) \in Nat
    BY <1>1, AppendProperties
<1>3. DOMAIN Append(m, x) = 1..(Len(m) + 1)
    BY <1>2
<1>4. /\ DOMAIN m \subseteq DOMAIN Append(m, x)
      /\ \A i \in DOMAIN Append(m, x) :
            \/ i \in DOMAIN m /\ Append(m, x)[i] = m[i]
            \/ i \notin DOMAIN m /\ i = Len(m) + 1 /\ Append(m, x)[i] = x
    BY <1>2, <1>3
<1>5. /\ \A i \in DOMAIN m : Within(m[i], v)
      /\ \A i, j \in DOMAIN m : i # j => FrameName(m[i]) # FrameName(m[j])
    BY DEF Telling
<1>6. \A i \in DOMAIN Append(m, x) : Within(Append(m, x)[i], v)
    BY <1>4, <1>5
<1>7. ASSUME NEW i \in DOMAIN Append(m, x), NEW j \in DOMAIN Append(m, x), i # j
      PROVE  FrameName(Append(m, x)[i]) # FrameName(Append(m, x)[j])
  <2>1. CASE i \in DOMAIN m /\ j \in DOMAIN m
      BY <1>4, <1>5, <1>7, <2>1
  <2>2. CASE i \in DOMAIN m /\ j \notin DOMAIN m
      BY <1>4, <2>2
  <2>3. CASE i \notin DOMAIN m /\ j \in DOMAIN m
      BY <1>4, <2>3
  <2>4. CASE i \notin DOMAIN m /\ j \notin DOMAIN m
      BY <1>4, <1>7, <2>4
  <2> QED BY <2>1, <2>2, <2>3, <2>4
<1> QED BY <1>2, <1>4, <1>6, <1>7 DEF Telling

LEMMA FramesStep ==
    ASSUME FramesInv, [KeyframesNext]_reelVars
    PROVE  FramesInv'
<1>1. CASE Route
    BY <1>1 DEF Route, FramesInv
<1>2. CASE RefuseFile
    BY <1>2 DEF RefuseFile, GiveWay, FramesInv
<1>3. CASE ChooseMarks
  <2>1. /\ UNCHANGED footage /\ reel' = "frames" /\ marks' = Marks(Head(tools)) /\ saved' = <<>>
        /\ footage \in Footage
      BY <1>3 DEF ChooseMarks, FramesInv
  <2>2. Telling(marks', footage)
    <3>1. footage.length \in Nat
        BY <2>1, KeyframesAssumption DEF KeyframesAssumption
    <3>2. Telling(PyAVMarks(footage), footage) /\ Telling(SceneMarks(footage), footage)
        BY <2>1, <3>1, PyAVTelling, ScenesTelling
    <3> QED BY <2>1, <3>2 DEF Marks
  <2>3. <<>> \in Seq(Nat) /\ DOMAIN <<>> = {}
      OBVIOUS
  <2>4. Telling(saved', footage) /\ FilesThere' /\ NamesLeft'
      BY <2>1, <2>3 DEF Telling, FilesThere, NamesLeft
  <2> QED BY <2>1, <2>2, <2>4 DEF FramesInv
<1>4. CASE SaveFrameFile \/ SkipMark
  <2>1. /\ UNCHANGED <<footage, reel>> /\ reel = "frames" /\ marks # <<>> /\ marks' = Tail(marks)
        /\ Telling(marks, footage) /\ Telling(saved, footage) /\ NamesLeft /\ FilesThere
        /\ footage \in Footage
      BY <1>4 DEF SaveFrameFile, SkipMark, FramesInv
  <2>2. /\ Telling(marks', footage) /\ Head(marks) \in Nat /\ Within(Head(marks), footage)
        /\ 1 \in DOMAIN marks /\ Head(marks) = marks[1]
        /\ \A i \in DOMAIN marks' : i + 1 \in DOMAIN marks /\ marks'[i] = marks[i + 1]
        /\ \A i \in DOMAIN marks' : FrameName(marks'[i]) # FrameName(Head(marks))
      BY <2>1, TellingTail
  <2>3. \A j \in DOMAIN saved : FrameName(saved[j]) # FrameName(Head(marks))
      BY <2>1, <2>2 DEF NamesLeft
  <2>4. \A i \in DOMAIN marks', j \in DOMAIN saved : FrameName(marks'[i]) # FrameName(saved[j])
      BY <2>1, <2>2 DEF NamesLeft
  <2>5. CASE SaveFrameFile
    <3>1. saved' = Append(saved, Head(marks)) /\ folder' = folder \cup {FrameName(Head(marks))}
        BY <2>5 DEF SaveFrameFile
    <3>2. /\ Telling(saved', footage)
          /\ \A i \in DOMAIN saved' : \/ i \in DOMAIN saved /\ saved'[i] = saved[i]
                                      \/ i \notin DOMAIN saved /\ saved'[i] = Head(marks)
        BY <2>1, <2>2, <2>3, <3>1, TellingAppend
    <3>3. FilesThere'
        BY <2>1, <3>1, <3>2 DEF FilesThere
    <3>4. NamesLeft'
        BY <2>2, <2>4, <3>2 DEF NamesLeft
    <3> QED BY <2>1, <2>2, <3>2, <3>3, <3>4 DEF FramesInv
  <2>6. CASE SkipMark
    <3>1. UNCHANGED saved /\ folder' \in {folder, folder \ {FrameName(Head(marks))}}
        BY <2>6 DEF SkipMark
    <3>2. FilesThere'
        BY <2>1, <2>3, <3>1 DEF FilesThere
    <3>3. NamesLeft'
        BY <2>4, <3>1 DEF NamesLeft
    <3> QED BY <2>1, <2>2, <3>1, <3>2, <3>3 DEF FramesInv
  <2> QED BY <1>4, <2>5, <2>6
<1>5. CASE FinishFrames
    BY <1>5 DEF FinishFrames, GiveWay, FramesInv, FilesThere
<1>6. CASE RaiseFrames
    BY <1>6 DEF RaiseFrames, GiveWay, FramesInv
<1>7. CASE RetryFrames \/ GiveUpFrames \/ ExtractAgain
    BY <1>7 DEF RetryFrames, GiveUpFrames, ExtractAgain, FramesInv
<1>8. CASE UNCHANGED reelVars
    BY <1>8 DEF reelVars, FramesInv, FilesThere, NamesLeft
<1> QED BY <1>1, <1>2, <1>3, <1>4, <1>5, <1>6, <1>7, <1>8 DEF KeyframesNext

\* Whatever extractor gives way to another, frame fails or crash intervenes, every
\* frame that is returned has a file of its own that is there.
THEOREM FolderMatchesHolds == KeyframesSpec => []FolderMatches
<1>1. KeyframesInit => FramesInv
    BY DEF KeyframesInit, FramesInv
<1>2. FramesInv /\ [KeyframesNext]_reelVars => FramesInv'
    BY FramesStep
<1>3. FramesInv => FramesNamedApart
  <2> SUFFICES ASSUME FramesInv, reel \in {"frames", "frames_found"},
                      NEW i \in DOMAIN saved, NEW j \in DOMAIN saved
               PROVE  /\ FrameName(saved[i]) \in folder /\ (footage.length = 0 \/ saved[i] <= footage.length)
                      /\ i # j => FrameName(saved[i]) # FrameName(saved[j])
      BY DEF FramesNamedApart
  <2> QED BY DEF FramesInv, FilesThere, Telling, Within
<1> QED BY <1>1, <1>2, <1>3, NothingLeftBehindHolds, PTL DEF KeyframesSpec, FolderMatches
=============================================================================
