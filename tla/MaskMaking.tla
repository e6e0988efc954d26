----------------------------- MODULE MaskMaking -----------------------------
(***************************************************************************)
(* product-segmentor: how ImageMaskingProcessor makes the mask of one      *)
(* image.  The foreground is segmented, saved and read back, the people    *)
(* are segmented and saved, and the difference is saved under the path the *)
(* database row gets.  The same image may be in work twice, as redelivered *)
(* events and two tasks at a time allow, and the process may stop between  *)
(* any two awaits.                                                         *)
(*                                                                         *)
(* A mask is what it shows: "all" of the foreground, "people", or the      *)
(* "product" without the people.  The models are external.                 *)
(***************************************************************************)
EXTENDS Naturals, FiniteSets

CONSTANTS
    Deliveries,     \* events in work, of one process or the next
    ImageOf,        \* ImageOf[d]: the image of the event
    MaxStops        \* bound on restarts of the service

ASSUME MaskAssumption == MaxStops \in Nat

Folders == {"foreground", "people", "product"}
Images == {ImageOf[d] : d \in Deliveries}

VARIABLES
    yolo,       \* the model of the people: "off", "loaded" or "none"
    weights,    \* its cached file: "good", "corrupt" or "absent"
    mask,       \* where each delivery stands
    target,      \* the folder it saves to
    held,       \* the mask it saves
    people,     \* whether it has a people mask
    path,       \* whether it has returned the path
    png,        \* png[f][i]: content of the file of image i in folder f
    temps,      \* temporary files
    spared,     \* history: deliveries whose people could not be removed
    stops

maskVars == <<yolo, weights, mask, target, held, people, path, png, temps, spared, stops>>

MaskInit ==
    /\ yolo = "off" /\ weights \in {"good", "corrupt", "absent"}
    /\ mask = [d \in Deliveries |-> "wait"]
    /\ target = [d \in Deliveries |-> "foreground"]
    /\ held = [d \in Deliveries |-> "all"] /\ people = [d \in Deliveries |-> FALSE]
    /\ path = [d \in Deliveries |-> FALSE]
    /\ png = [f \in Folders |-> [i \in Images |-> "none"]]
    /\ temps = {} /\ spared = {} /\ stops = 0

MaskTo(d, stage) == mask' = [mask EXCEPT ![d] = stage]

\* YOLOSegmentor.initialize.  A file that cannot be loaded is removed; the
\* download, in the other branch, is left to the next start, and the segmentor
\* counts as initialized without a model.
LoadModel ==
    /\ yolo = "off"
    /\ yolo' = IF weights = "corrupt" THEN "none" ELSE "loaded"
    /\ weights' = IF weights = "corrupt" THEN "absent" ELSE "good"
    /\ UNCHANGED <<mask, target, held, people, path, png, temps, spared, stops>>

\* The foreground of the image; without a file, or when the model fails, its
\* memory exhausted or not, the image is given up.
SegmentForeground(d) ==
    /\ yolo # "off" /\ mask[d] = "wait"
    /\ \/ /\ MaskTo(d, "write") /\ held' = [held EXCEPT ![d] = "all"]
          /\ target' = [target EXCEPT ![d] = "foreground"]
       \/ MaskTo(d, "failed") /\ UNCHANGED <<held, target>>
    /\ UNCHANGED <<yolo, weights, people, path, png, temps, spared, stops>>

\* What follows when a mask is saved, or cannot be: without a people mask that
\* is saved the whole foreground is the product, a foreground that cannot be
\* saved or a product is the end.
SaveDone(d) ==
    IF target[d] = "product"
    THEN MaskTo(d, "returned") /\ path' = [path EXCEPT ![d] = TRUE] /\ UNCHANGED people
    ELSE /\ MaskTo(d, IF target[d] = "people" THEN "subtract" ELSE "read")
         /\ people' = [people EXCEPT ![d] = target[d] = "people"] /\ UNCHANGED path
SaveFailed(d) ==
    /\ MaskTo(d, IF target[d] = "people" THEN "subtract" ELSE "failed")
    /\ people' = [people EXCEPT ![d] = FALSE] /\ UNCHANGED path

\* Mutant: the mask is written under its own name.
WriteInPlace(d) ==
    /\ mask[d] = "write"
    /\ temps' = temps \cup {<<d, target[d]>>} /\ MaskTo(d, "move")
    /\ png' = [png EXCEPT ![target[d]][ImageOf[d]] = "partial"]
    /\ UNCHANGED <<yolo, weights, target, held, people, path, spared, stops>>

\* _save_mask_atomic writes to a temporary file beside the target, or fails.
WriteTemp(d) ==
    /\ mask[d] = "write"
    /\ \/ /\ temps' = temps \cup {<<d, target[d]>>} /\ MaskTo(d, "move")
          /\ UNCHANGED <<people, path>>
       \/ SaveFailed(d) /\ UNCHANGED temps
    /\ UNCHANGED <<yolo, weights, target, held, png, spared, stops>>

\* The temporary file is moved to its name, or removed when that fails.
MoveTemp(d) ==
    /\ mask[d] = "move" /\ temps' = temps \ {<<d, target[d]>>}
    /\ \/ png' = [png EXCEPT ![target[d]][ImageOf[d]] = held[d]] /\ SaveDone(d)
       \/ UNCHANGED png /\ SaveFailed(d)
    /\ UNCHANGED <<yolo, weights, target, held, spared, stops>>

\* The foreground mask is read back, as whichever task has last saved it.
ReadForeground(d) ==
    /\ mask[d] = "read"
    /\ \/ MaskTo(d, "people") /\ held' = [held EXCEPT ![d] = png["foreground"][ImageOf[d]]]
       \/ MaskTo(d, "failed") /\ UNCHANGED held
    /\ UNCHANGED <<yolo, weights, target, people, path, png, temps, spared, stops>>

\* The people of the image; without a model, when it fails and when it finds
\* nobody there is no mask of them.
SegmentPeople(d) ==
    /\ mask[d] = "people"
    /\ \/ /\ yolo = "loaded" /\ MaskTo(d, "write") /\ held' = [held EXCEPT ![d] = "people"]
          /\ target' = [target EXCEPT ![d] = "people"] /\ UNCHANGED people
       \/ /\ MaskTo(d, "subtract") /\ people' = [people EXCEPT ![d] = FALSE]
          /\ UNCHANGED <<held, target>>
    /\ UNCHANGED <<yolo, weights, path, png, temps, spared, stops>>

\* The people are taken out; without their mask, or when it has another shape,
\* the foreground stays as it is.
Subtract(d) ==
    /\ mask[d] = "subtract" /\ MaskTo(d, "write")
    /\ target' = [target EXCEPT ![d] = "product"]
    /\ \/ people[d] /\ held' = [held EXCEPT ![d] = "product"] /\ UNCHANGED spared
       \/ held' = [held EXCEPT ![d] = "all"] /\ spared' = spared \cup {d}
    /\ UNCHANGED <<yolo, weights, people, path, png, temps, stops>>

\* The process stops; what was not answered is delivered again, what it wrote,
\* the temporary files too, stays, and a download of the weights may be half done.
Stop ==
    /\ stops < MaxStops /\ stops' = stops + 1 /\ yolo' = "off"
    /\ mask' = [d \in Deliveries |-> IF mask[d] \in {"returned", "failed"} THEN mask[d] ELSE "wait"]
    /\ weights' \in IF weights = "absent" THEN {"absent", "corrupt"} ELSE {weights}
    /\ UNCHANGED <<target, held, people, path, png, temps, spared>>

MaskNext ==
    \/ LoadModel \/ Stop
    \/ \E d \in Deliveries :
          \/ SegmentForeground(d) \/ WriteTemp(d) \/ MoveTemp(d) \/ ReadForeground(d)
          \/ SegmentPeople(d) \/ Subtract(d)

MaskSpec == MaskInit /\ [][MaskNext]_maskVars

-----------------------------------------------------------------------------
\* Properties

MaskTypeOK ==
    /\ yolo \in {"off", "loaded", "none"} /\ weights \in {"good", "corrupt", "absent"}
    /\ mask \in [Deliveries -> {"wait", "write", "move", "read", "people", "subtract",
                                "returned", "failed"}]
    /\ target \in [Deliveries -> Folders] /\ temps \subseteq Deliveries \X Folders
    /\ path \in [Deliveries -> BOOLEAN] /\ stops \in 0..MaxStops

\* A path that was returned, and is in the database, is that of a whole mask at
\* any time, whoever makes the image's mask again and wherever that stops; and
\* the people are out of it unless some delivery of the image could not take
\* them out, as it cannot while the model is missing.
MaskWhole ==
    \A d \in Deliveries : path[d] =>
        \/ png["product"][ImageOf[d]] = "product"
        \/ /\ png["product"][ImageOf[d]] = "all"
           /\ \E e \in spared : ImageOf[e] = ImageOf[d]
=============================================================================
