----------------------------- MODULE VideoSearch ----------------------------
(***************************************************************************)
(* video-crawler: BaseVideoCrawler.search_and_download_videos up to the    *)
(* download, for a TikTok or a YouTube crawler.  The queries are searched  *)
(* one after the other, each with the retries of its searcher; an error    *)
(* costs one query.  What all have found is made unique by id and then by  *)
(* title.  The answers of the platforms are external.                      *)
(***************************************************************************)
EXTENDS Naturals, Sequences, FiniteSets, SequencesExt, Places

CONSTANTS
    Asked,              \* the lists of queries a request may bring
    NoQuery, UrlLike,   \* the empty query; queries that look like a URL
    Answers,            \* what a platform has for a query: [query -> Seq(video)]
    WithDuration,       \* the videos whose entry has a duration
    IdOf, TitleOf,      \* id and stripped title of each video, or NoValue
    NoValue,
    NumVideos,
    TiktokAttempts, YoutubeAttempts     \* max_attempts, MAX_ATTEMPTS

SearchVideos == DOMAIN IdOf

ASSUME SearchAssumption ==
    /\ \A qs \in Asked : qs \in Seq(DOMAIN Answers \cup {NoQuery})
    /\ \A q \in DOMAIN Answers : Answers[q] \in Seq(SearchVideos)
    /\ DOMAIN TitleOf = SearchVideos /\ WithDuration \subseteq SearchVideos
    /\ NumVideos \in Nat \ {0}
    /\ TiktokAttempts \in Nat \ {0} /\ YoutubeAttempts \in Nat \ {0}

VARIABLES
    skind,      \* "tiktok" or "youtube"
    sstage,     \* "prepare", "search", "dedup", "download", "failed"
    asked,      \* the queries, and those still to search
    attempt, limit,     \* attempts of this query, current_search_limit
    headful,    \* _use_force_headful, learned from a retry that worked
    best,       \* final_videos of the query's last attempt
    found,      \* all_videos
    unique      \* unique_videos

searchVars == <<skind, sstage, asked, attempt, limit, headful, best, found, unique>>

SearchInit ==
    /\ skind \in {"tiktok", "youtube"} /\ sstage = "prepare" /\ asked \in Asked
    /\ attempt = 1 /\ limit = NumVideos
    /\ headful \in BOOLEAN      \* an earlier search may have learned it
    /\ best = <<>> /\ found = <<>> /\ unique = <<>>

Upto(s, n) == SubSeq(s, 1, IF Len(s) < n THEN Len(s) ELSE n)

\* _prepare_queries: empty ones go, for YouTube those that look like a URL too.
PrepareQueries ==
    LET usable(q) == q # NoQuery /\ ~(skind = "youtube" /\ q \in UrlLike)
    IN /\ sstage = "prepare"
       /\ asked' = Kept(asked, {n \in DOMAIN asked : usable(asked[n])})
       /\ sstage' = IF asked' = <<>> THEN "download" ELSE "search"
       /\ UNCHANGED <<skind, attempt, limit, headful, best, found, unique>>

\* The query is over; without a video the crawler returns before the dedup.
NextQuery(videos) ==
    /\ found' = found \o videos
    /\ asked' = Tail(asked)
    /\ sstage' = IF asked' # <<>> THEN "search"
                 ELSE IF found' = <<>> THEN "download" ELSE "dedup"
    /\ attempt' = 1 /\ limit' = NumVideos /\ best' = <<>>

\* search_tiktok: the last attempt, or every one after a retry has once
\* worked, asks for a headful browser.
TiktokAnswers ==
    /\ skind = "tiktok" /\ sstage = "search"
    /\ headful' = (headful \/ attempt = TiktokAttempts)
    /\ NextQuery(Upto(Answers[Head(asked)], NumVideos))
    /\ UNCHANGED <<skind, unique>>

\* 429, another status, a timeout or a request error.
TiktokRetries ==
    /\ skind = "tiktok" /\ sstage = "search" /\ attempt < TiktokAttempts
    /\ attempt' = attempt + 1
    /\ UNCHANGED <<skind, sstage, asked, limit, headful, best, found, unique>>

\* 400, a reply that is no JSON, or the last attempt: the query is given up.
TiktokGivesUp ==
    /\ skind = "tiktok" /\ sstage = "search"
    /\ NextQuery(<<>>)
    /\ UNCHANGED <<skind, headful, unique>>

\* The filters keep entries that are there and have a duration.
Formatted(q, n) ==
    LET entries == Upto(Answers[q], n)
    IN Upto(Kept(entries, {m \in DOMAIN entries : entries[m] \in WithDuration}), NumVideos)

\* search_youtube: too few videos, and the next attempt asks for more entries.
YoutubeAnswers ==
    LET videos == Formatted(Head(asked), limit)
    IN /\ skind = "youtube" /\ sstage = "search"
       /\ IF Len(videos) < NumVideos /\ attempt < YoutubeAttempts
          THEN /\ attempt' = attempt + 1 /\ limit' = limit + NumVideos
               /\ best' = videos /\ UNCHANGED <<sstage, asked, found>>
          ELSE NextQuery(videos)
       /\ UNCHANGED <<skind, headful, unique>>

\* An error, a rate limit after its wait too, ends the query with what the
\* attempt before has found.
YoutubeFails ==
    /\ skind = "youtube" /\ sstage = "search"
    /\ NextQuery(best)
    /\ UNCHANGED <<skind, headful, unique>>

-----------------------------------------------------------------------------
\* deduplicate_videos_by_id_and_title

\* The first of each key; a video without one stays.
FirstOf(videos, key) ==
    Kept(videos, {n \in DOMAIN videos : \/ key[videos[n]] = NoValue
                                        \/ \A m \in 1..n-1 : key[videos[m]] # key[videos[n]]})

\* Mutant: a missing title counts as a title.
FirstTitled(videos, key) ==
    Kept(videos, {n \in DOMAIN videos : \A m \in 1..n-1 : key[videos[m]] # key[videos[n]]})

UniqueByIdOnly(videos) == FirstTitled(FirstOf(videos, IdOf), TitleOf)

UniqueVideos(videos) == FirstOf(FirstOf(videos, IdOf), TitleOf)

DedupeVideos ==
    /\ sstage = "dedup" /\ sstage' = "download"
    /\ unique' = UniqueVideos(found)
    /\ UNCHANGED <<skind, asked, attempt, limit, headful, best, found>>

\* run_platform: an exception leaves the platform without a result.
FailPlatform ==
    /\ sstage \in {"prepare", "dedup"} /\ sstage' = "failed"
    /\ UNCHANGED <<skind, asked, attempt, limit, headful, best, found, unique>>

SearchNext ==
    \/ PrepareQueries \/ TiktokAnswers \/ TiktokRetries \/ TiktokGivesUp
    \/ YoutubeAnswers \/ YoutubeFails \/ DedupeVideos \/ FailPlatform

SearchSpec == SearchInit /\ [][SearchNext]_searchVars

-----------------------------------------------------------------------------
\* Properties

SearchTypeOK ==
    /\ skind \in {"tiktok", "youtube"}
    /\ sstage \in {"prepare", "search", "dedup", "download", "failed"}
    /\ attempt \in 1..(IF skind = "tiktok" THEN TiktokAttempts ELSE YoutubeAttempts)
    /\ limit = IF skind = "tiktok" THEN NumVideos ELSE attempt * NumVideos
    /\ headful \in BOOLEAN
    /\ \A s \in {best, found, unique} : s \in Seq(SearchVideos)

Alike(v, w, key) == key[v] = key[w] /\ key[v] # NoValue

\* The two passes lose nothing but repetitions: each video that was found is
\* downloaded itself or stands behind one of its id or of its title; and no
\* two downloads share an id or a title, which are the names of their files.
SearchKeepsAll ==
    sstage = "download" =>
        /\ \A v \in ToSet(found) : \E u \in ToSet(found), w \in ToSet(unique) :
               (u = v \/ Alike(u, v, IdOf)) /\ (w = u \/ Alike(w, u, TitleOf))
        /\ \A m, n \in DOMAIN unique : m # n =>
               ~Alike(unique[m], unique[n], IdOf) /\ ~Alike(unique[m], unique[n], TitleOf)
=============================================================================
