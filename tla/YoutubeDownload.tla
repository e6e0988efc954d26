--------------------------- MODULE YoutubeDownload --------------------------
(***************************************************************************)
(* video-crawler: YoutubeDownloader, and the clean-up of old files that    *)
(* runs after each of its downloads.                                       *)
(*                                                                         *)
(* All downloads share one directory and find their files there with the   *)
(* glob "<title>.*", the title as it is: it takes in files of any download *)
(* whose title goes on after a dot, unfinished ones and those of earlier   *)
(* processes too, and with a bracket in it may miss its own.  A title can  *)
(* have several downloads, of a platform named twice or of a request       *)
(* delivered again.  yt-dlp runs in threads and is external: it writes a   *)
(* part file and renames it in the end.                                    *)
(***************************************************************************)
EXTENDS Naturals, FiniteSets

CONSTANTS
    Titles,
    Downloads,      \* <<title, number>>; any of them may never begin
    GlobMatches,    \* <<t, u>>: "<t>.*" matches the files yt-dlp writes for u
    MaxRetries,     \* DownloaderConfig.MAX_RETRIES
    MaxTubeStarts   \* bound on process starts

ASSUME YoutubeAssumption ==
    /\ IsFiniteSet(Downloads) /\ Downloads \subseteq Titles \X Nat
    /\ GlobMatches \subseteq Titles \X Titles
    /\ MaxRetries \in Nat \ {0} /\ MaxTubeStarts \in Nat \ {0}

Part(t) == <<t, "part">>
Whole(t) == <<t, "mp4">>
TubeFiles == Titles \X {"part", "mp4"}
NoFile == <<>>

VARIABLES
    tube,       \* where each download stands
    tubeTry,    \* its attempt, from 0
    local,      \* local_path
    disk,       \* files in the directory
    empty,      \* those without content
    aged,       \* those dated before the cutoff of the clean-up
    frail,      \* history: downloads with a file that another event may take
    tubeStarts

tubeFiles == <<disk, empty, aged>>
tubeVars == <<tube, tubeTry, local, tubeFiles, frail, tubeStarts>>

YoutubeInit ==
    /\ tube = [d \in Downloads |-> "wait"] /\ tubeTry = [d \in Downloads |-> 0]
    /\ local = [d \in Downloads |-> NoFile] /\ frail = {} /\ tubeStarts = 1
    /\ disk \in SUBSET TubeFiles /\ empty \in SUBSET disk /\ aged \in SUBSET disk

TubeGo(d, stage) == tube' = [tube EXCEPT ![d] = stage]

\* glob(f"{title}.*")
Glob(d) == {f \in disk : <<d[1], f[1]>> \in GlobMatches}

Working == {"fetch", "write", "process"}
Holding == {"clean", "done"}

\* Another download is at work on a file of that title.
Shared(d, f) == \E e \in Downloads \ {d} : e[1] = f[1] /\ tube[e] \in Working

\* A download is given a file, as it is.
TakeFile(d, f, stage) ==
    /\ TubeGo(d, stage) /\ local' = [local EXCEPT ![d] = f]
    /\ frail' = IF f \in empty \cup aged \/ Shared(d, f) THEN frail \cup {d} ELSE frail

\* check_existing_file: any file the pattern matches will do.  Without one, or
\* when looking raises, the download begins, and whoever holds a file of its
\* title holds one that is written again.
CheckExisting(d) ==
    /\ tube[d] = "wait"
    /\ \/ \E f \in Glob(d) : TakeFile(d, f, "done")
       \/ /\ TubeGo(d, "fetch") /\ UNCHANGED local
          /\ frail' = frail \cup {e \in Downloads : tube[e] \in Holding /\ local[e][1] = d[1]}
    /\ UNCHANGED <<tubeTry, tubeFiles, tubeStarts>>

\* create_uploader_directory of the attempt raises, out of the retries.
NoDirectory(d) ==
    /\ tube[d] = "fetch" /\ TubeGo(d, "lost")
    /\ UNCHANGED <<tubeTry, local, tubeFiles, frail, tubeStarts>>

\* yt-dlp opens the part file, or goes on with one.
YtdlpWrites(d) ==
    LET f == Part(d[1]) IN
    /\ tube[d] = "fetch" /\ TubeGo(d, "write")
    /\ disk' = disk \cup {f} /\ aged' = aged \ {f} /\ empty' \in {empty \ {f}, empty \cup {f}}
    /\ UNCHANGED <<tubeTry, local, frail, tubeStarts>>

\* It renames the part, over an older file; the date is now or the server's
\* Last-Modified.
Rename(t) ==
    LET both == {Part(t), Whole(t)} IN
    /\ disk' = (disk \ both) \cup {Whole(t)}
    /\ empty' \in {empty \ both, (empty \ both) \cup {Whole(t)}}
    /\ aged' \in {aged \ both, (aged \ both) \cup {Whole(t)}}

\* yt-dlp is through; without writing, when it finds the video downloaded.
YtdlpFinishes(d) ==
    /\ TubeGo(d, "process")
    /\ \/ tube[d] = "write" /\ Rename(d[1])
       \/ tube[d] = "fetch" /\ UNCHANGED tubeFiles
    /\ UNCHANGED <<tubeTry, local, frail, tubeStarts>>

LastTry(d) == tubeTry[d] = MaxRetries - 1

\* _handle_download_exception, after a wait that depends on the message.
RetryOrFail(d) ==
    IF LastTry(d) THEN TubeGo(d, "lost") /\ UNCHANGED tubeTry
    ELSE TubeGo(d, "fetch") /\ tubeTry' = [tubeTry EXCEPT ![d] = @ + 1]

\* yt-dlp raises, before or after the renaming; what it wrote stays.
YtdlpFails(d) ==
    /\ tube[d] \in {"fetch", "write"} /\ RetryOrFail(d)
    /\ UNCHANGED tubeFiles \/ (tube[d] = "write" /\ Rename(d[1]))
    /\ UNCHANGED <<local, frail, tubeStarts>>

\* Mutant: with an empty file goes all that the pattern matches.
EmptyFileAll(d, f) ==
    /\ TubeGo(d, "lost") /\ UNCHANGED <<local, frail>>
    /\ disk' = disk \ Glob(d) /\ empty' = empty \ Glob(d) /\ aged' = aged \ Glob(d)

\* _process_downloaded_file finds an empty file and removes it: remove_file
\* swallows an error.  The None meant to trigger a retry ends the download; the
\* last attempt goes on with the file, and ends if its size cannot be read.
EmptyFile(d, f) ==
    \/ /\ TubeGo(d, "lost") /\ disk' = disk \ {f} /\ empty' = empty \ {f} /\ aged' = aged \ {f}
       /\ UNCHANGED <<local, frail>>
    \/ ~LastTry(d) /\ TubeGo(d, "lost") /\ UNCHANGED <<local, frail, tubeFiles>>
    \/ LastTry(d) /\ TakeFile(d, f, "clean") /\ UNCHANGED tubeFiles

\* _process_downloaded_file: one of the files the pattern matches.  There may be
\* none, or another thread renames it after it was found, or the look raises.
ProcessFile(d) ==
    /\ tube[d] = "process"
    /\ \/ \E f \in Glob(d) \ empty : TakeFile(d, f, "clean") /\ UNCHANGED <<tubeTry, tubeFiles>>
       \/ \E f \in Glob(d) \cap empty : EmptyFile(d, f) /\ UNCHANGED tubeTry
       \/ /\ Glob(d) = {} \/ \E f \in Glob(d) : Shared(d, f)
          /\ TubeGo(d, "lost") /\ UNCHANGED <<tubeTry, local, frail, tubeFiles>>
       \/ RetryOrFail(d) /\ UNCHANGED <<local, frail, tubeFiles>>
    /\ UNCHANGED tubeStarts

\* perform_cleanup, with the cutoff of the process's start: the old files, or
\* those of them it can remove, of all the directory; none when it is disabled.
CleanUp(d) ==
    /\ tube[d] = "clean" /\ TubeGo(d, "done")
    /\ \E gone \in SUBSET aged :
           disk' = disk \ gone /\ empty' = empty \ gone /\ aged' = aged \ gone
    /\ UNCHANGED <<tubeTry, local, frail, tubeStarts>>

\* A new process, with a later cutoff.
Restart ==
    /\ tubeStarts < MaxTubeStarts /\ tubeStarts' = tubeStarts + 1
    /\ tube' = [d \in Downloads |-> "wait"] /\ tubeTry' = [d \in Downloads |-> 0]
    /\ local' = [d \in Downloads |-> NoFile] /\ frail' = {}
    /\ aged' \in {s \in SUBSET disk : aged \subseteq s} /\ UNCHANGED <<disk, empty>>

YoutubeNext ==
    \/ \E d \in Downloads :
           \/ CheckExisting(d) \/ NoDirectory(d) \/ YtdlpWrites(d) \/ YtdlpFinishes(d)
           \/ YtdlpFails(d) \/ ProcessFile(d) \/ CleanUp(d)
    \/ Restart

YoutubeSpec == YoutubeInit /\ [][YoutubeNext]_tubeVars

-----------------------------------------------------------------------------
\* Properties

YoutubeTypeOK ==
    /\ tube \in [Downloads -> {"wait", "lost"} \cup Working \cup Holding]
    /\ tubeTry \in [Downloads -> 0..MaxRetries-1]
    /\ local \in [Downloads -> TubeFiles \cup {NoFile}]
    /\ disk \subseteq TubeFiles /\ empty \subseteq disk /\ aged \subseteq disk
    /\ frail \subseteq Downloads
    /\ tubeStarts \in 1..MaxTubeStarts

\* The keyframes of a video are taken from its local_path when all downloads
\* are over.  The file is there then, and has content, unless it was given out
\* empty or with a date before the cutoff, or another download was or came to
\* be at work on its title: not so safe are a file of another title that is
\* still being downloaded, and one that Last-Modified dates back.
LocalFileKept ==
    \A d \in Downloads : tube[d] \in Holding => local[d] \in disk \ empty \/ d \in frail
=============================================================================
