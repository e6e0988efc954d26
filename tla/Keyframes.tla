------------------------------ MODULE Keyframes -----------------------------
(***************************************************************************)
(* video-crawler: the keyframes of one downloaded video.  ExtractorRouter  *)
(* chooses PySceneDetect or PyAV by the codec, each chooses its timestamps *)
(* and writes a frame per timestamp into the directory of the video, and   *)
(* the TikTok strategies try the whole again.  A redelivered request       *)
(* extracts again into what a crash has left in the directory.             *)
(*                                                                         *)
(* Times are milliseconds.  OpenCV, PySceneDetect and PyAV are external:   *)
(* whether they open the file, which scenes they find and which frames can *)
(* be read, are sharp and are saved is open.  Extracting does not await,   *)
(* so one extraction runs at a time.                                       *)
(***************************************************************************)
EXTENDS Naturals, Sequences, FiniteSets, Places

CONSTANTS
    Footage,        \* videos: [codec, length, scenes], the scenes as pairs; the
                    \* length is 0 if it cannot be read
    MaxScenes,      \* PySceneDetectSettings.max_scenes, 0 for no limit
    MaxFrames,      \* PyAVSettings.max_frames
    FallBack,       \* PyAVSettings.fallback_to_pyscene
    PyAVRouting,    \* PyAVSettings.enable_pyav_routing
    MaxExtractions  \* bound on deliveries of the request

\* Scenes as PySceneDetect cuts them: one after the other, and none but the last
\* shorter than 20 ms, as min_scene_len is 15 frames.
InOrder(scenes) ==
    /\ \A i \in DOMAIN scenes : scenes[i][1] < scenes[i][2]
    /\ \A i, j \in DOMAIN scenes : i < j => /\ scenes[i][1] + 20 <= scenes[i][2]
                                            /\ scenes[i][2] <= scenes[j][1]

ASSUME KeyframesAssumption ==
    /\ \A v \in Footage : /\ v.codec \in {"av1", "h264", "unknown"} /\ v.length \in Nat
                          /\ v.scenes \in Seq(Nat \X Nat) /\ InOrder(v.scenes)
    /\ MaxScenes \in Nat /\ MaxFrames \in Nat /\ MaxExtractions \in Nat \ {0}
    /\ FallBack \in BOOLEAN /\ PyAVRouting \in BOOLEAN

VARIABLES
    footage,    \* the video
    wrapped,    \* extract_keyframes of a TikTok strategy makes the call
    reel,       \* where the extraction stands
    tools,      \* extractors still to be tried, the current one first
    marks,      \* timestamps left
    saved,      \* extracted_frames of the current extractor
    folder,     \* files in the directory that have content
    exists,     \* whether there is a directory
    litter,     \* history: it is what a failed removal has left
    effort,     \* attempt of the strategy, from 0
    extractions

reelVars == <<footage, wrapped, reel, tools, marks, saved, folder, exists, litter, effort, extractions>>

KeyframesInit ==
    /\ footage \in Footage /\ wrapped \in BOOLEAN /\ reel = "route"
    /\ tools = <<>> /\ marks = <<>> /\ saved = <<>>
    /\ folder = {} /\ exists = wrapped /\ litter = FALSE /\ effort = 0 /\ extractions = 1

-----------------------------------------------------------------------------
\* Timestamps

AtLeast(a, b) == IF a < b THEN b ELSE a
AtMost(a, b) == IF a < b THEN a ELSE b
\* a - b, but not below 0.
Minus(a, b) == IF a < b THEN 0 ELSE a - b

SceneGuard == 150
MinScene == 500
ShortOffset == 250
PyAVGuard == 250

\* The middle of a scene, away from its end; a short scene has an offset.
Midpoint(start, end) ==
    LET half == (end - start) \div 2 IN
    IF end - start < MinScene
    THEN start + AtMost(half, ShortOffset)
    ELSE AtMost(start + half, AtLeast(start, end - AtMost(SceneGuard, half)))

\* The middles of n equal pieces, away from the end.
Spread(start, end, n, guard) ==
    [i \in 1..n |-> AtMost(start + ((2*i - 1) * (end - start)) \div (2*n),
                           AtLeast(start, Minus(end, guard)))]

Limited(n) == IF MaxScenes > 0 THEN AtMost(n, MaxScenes) ELSE n

\* A scene ends with the video; without scenes the whole video stands for one.
Clip(t, v) == IF v.length > 0 THEN AtMost(t, v.length) ELSE t

Cuts(v) ==
    IF v.scenes = <<>> THEN << <<0, v.length>> >>
    ELSE [i \in DOMAIN v.scenes |-> <<v.scenes[i][1], Clip(v.scenes[i][2], v)>>]

\* _select_midpoint_timestamps; its branch for an empty list is never reached.
SceneMarks(v) ==
    LET found == Cuts(v)
        scenes == Kept(found, {i \in DOMAIN found : found[i][1] < found[i][2]})
        span == scenes[1][2] - scenes[1][1]
        n == Limited(IF span > 10000 THEN 5 ELSE IF span > 5000 THEN 3 ELSE 1) IN
    IF scenes = <<>> THEN <<>>
    ELSE IF Len(found) = 1 /\ n > 1
         THEN Spread(scenes[1][1], scenes[1][2], n, SceneGuard)
         ELSE [i \in 1..Limited(Len(scenes)) |-> Midpoint(scenes[i][1], scenes[i][2])]

\* _calculate_timestamps
PyAVMarks(v) ==
    LET wanted == IF v.length <= 5000 THEN 1 ELSE IF v.length <= 15000 THEN 3 ELSE 5 IN
    IF v.length = 0 THEN <<0>>
    ELSE Spread(0, v.length, AtMost(wanted, AtLeast(1, MaxFrames)), PyAVGuard)

Marks(tool) == IF tool = "pyav" THEN PyAVMarks(footage) ELSE SceneMarks(footage)

\* Mutant: the name has whole seconds.
FrameNameSeconds(mark) == mark \div 1000

\* _generate_frame_filename: the seconds to two places.
FrameName(mark) == (mark + 5) \div 10

-----------------------------------------------------------------------------
\* Operations

\* _select_extractors; a codec that cannot be found out is unknown.
Tools(codec) ==
    IF ~PyAVRouting THEN <<"pyscene">>
    ELSE IF codec = "av1" THEN IF FallBack THEN <<"pyav", "pyscene">> ELSE <<"pyav">>
    ELSE IF codec = "unknown" THEN <<"pyscene", "pyav">>
    ELSE <<"pyscene">>

\* The router: no file, no frames.
Route ==
    /\ reel = "route"
    /\ \/ \E codec \in {footage.codec, "unknown"} :
              reel' = "open" /\ tools' = Tools(codec)
       \/ reel' = "none" /\ UNCHANGED tools
    /\ UNCHANGED <<footage, wrapped, marks, saved, folder, exists, litter, effort, extractions>>

\* The next extractor, or nothing for the caller.
GiveWay ==
    /\ tools' = Tail(tools) /\ marks' = <<>> /\ saved' = <<>>
    /\ reel' = IF Len(tools) > 1 THEN "open" ELSE "none"

\* The template's validation with OpenCV refuses the file for either extractor;
\* the directory stays as it is.
RefuseFile ==
    /\ reel = "open" /\ GiveWay
    /\ UNCHANGED <<footage, wrapped, folder, exists, litter, effort, extractions>>

\* The directory is there or made, and the extractor chooses its timestamps.
ChooseMarks ==
    /\ reel = "open" /\ reel' = "frames" /\ exists' = TRUE
    /\ marks' = Marks(Head(tools)) /\ saved' = <<>>
    /\ UNCHANGED <<footage, wrapped, tools, folder, litter, effort, extractions>>

\* A frame that can be read, is sharp and is written.
SaveFrameFile ==
    /\ reel = "frames" /\ marks # <<>>
    /\ marks' = Tail(marks) /\ saved' = Append(saved, Head(marks))
    /\ folder' = folder \cup {FrameName(Head(marks))}
    /\ UNCHANGED <<footage, wrapped, reel, tools, exists, litter, effort, extractions>>

\* A frame that is not; a failed write may spoil the file of that name.
SkipMark ==
    /\ reel = "frames" /\ marks # <<>> /\ marks' = Tail(marks)
    /\ folder' \in {folder, folder \ {FrameName(Head(marks))}}
    /\ UNCHANGED <<footage, wrapped, reel, tools, saved, exists, litter, effort, extractions>>

\* rmtree; an error is only logged, when some of the files may be gone.
RemoveFolder ==
    \/ folder' = {} /\ exists' = FALSE /\ litter' = FALSE
    \/ exists /\ folder' \in SUBSET folder /\ litter' = TRUE /\ UNCHANGED exists

\* The template at the end: without frames the directory goes.
FinishFrames ==
    /\ reel = "frames" /\ marks = <<>>
    /\ IF saved # <<>>
       THEN reel' = "frames_found" /\ UNCHANGED <<tools, marks, saved, folder, exists, litter>>
       ELSE GiveWay /\ RemoveFolder
    /\ UNCHANGED <<footage, wrapped, effort, extractions>>

\* PySceneDetect raises, or the container cannot be opened.
RaiseFrames ==
    /\ reel = "frames" /\ GiveWay /\ RemoveFolder
    /\ UNCHANGED <<footage, wrapped, effort, extractions>>

\* A strategy removes the directory and makes the next of its three attempts.
\* The processor itself, which calls the router, has one.
RetryFrames ==
    /\ wrapped /\ reel = "none" /\ effort < 2
    /\ effort' = effort + 1 /\ reel' = "route" /\ exists' = TRUE
    /\ \/ folder' = {} /\ litter' = FALSE
       \/ folder' \in SUBSET folder /\ litter' = TRUE
    /\ UNCHANGED <<footage, wrapped, tools, marks, saved, extractions>>

GiveUpFrames ==
    /\ reel = "none" /\ reel' = "nothing"
    /\ IF wrapped THEN effort = 2 /\ RemoveFolder ELSE UNCHANGED <<folder, exists, litter>>
    /\ UNCHANGED <<footage, wrapped, tools, marks, saved, effort, extractions>>

\* The request is delivered again, after the end or after a crash.
ExtractAgain ==
    /\ extractions < MaxExtractions /\ extractions' = extractions + 1
    /\ reel' = "route" /\ tools' = <<>> /\ marks' = <<>> /\ saved' = <<>> /\ effort' = 0
    /\ exists' = (exists \/ wrapped)
    /\ UNCHANGED <<footage, wrapped, folder, litter>>

KeyframesNext ==
    \/ Route \/ RefuseFile \/ ChooseMarks \/ SaveFrameFile \/ SkipMark \/ FinishFrames
    \/ RaiseFrames \/ RetryFrames \/ GiveUpFrames \/ ExtractAgain

KeyframesSpec == KeyframesInit /\ [][KeyframesNext]_reelVars

-----------------------------------------------------------------------------
\* Properties

KeyframesTypeOK ==
    /\ footage \in Footage /\ wrapped \in BOOLEAN
    /\ reel \in {"route", "open", "frames", "frames_found", "none", "nothing"}
    /\ Len(tools) <= 2 /\ marks \in Seq(Nat) /\ saved \in Seq(Nat)
    /\ folder \subseteq Nat /\ exists \in BOOLEAN /\ litter \in BOOLEAN
    /\ effort \in 0..2 /\ extractions \in 1..MaxExtractions

\* What the extraction returns becomes rows of video_frames with the path of
\* their file: every path is there, and no two frames share one, although the
\* name has the time to two places only and scenes may be short or run past
\* the end of the video.
FramesNamedApart ==
    reel \in {"frames", "frames_found"} =>
        \A i, j \in DOMAIN saved :
            /\ FrameName(saved[i]) \in folder
            /\ footage.length = 0 \/ saved[i] <= footage.length
            /\ i # j => FrameName(saved[i]) # FrameName(saved[j])

\* "This prevents empty directories from accumulating" (abstract_extractor.py):
\* an extraction that found nothing leaves no directory, whichever extractor
\* found nothing, unless a crash left one and the file was refused since, or
\* it could not be removed.
NothingLeftBehind ==
    reel = "nothing" /\ exists => litter \/ (~wrapped /\ extractions > 1)

\* What is returned is in the directory of the video, frame by frame, and
\* where nothing is returned there is no directory that could be removed.
FolderMatches == FramesNamedApart /\ NothingLeftBehind
=============================================================================
