------------------------------ MODULE AssetBus ------------------------------
(***************************************************************************)
(* The queues between the two collectors (dropship-product-finder,         *)
(* video-crawler) and the product-segmentor: the messages                  *)
(* products.image.ready and products.images.ready.batch, and               *)
(* videos.keyframes.ready with its batch.  The topic exchange keeps a      *)
(* message until a handler has returned, so a message leaves its set when  *)
(* a consumer takes it and comes back when that consumer dies.             *)
(***************************************************************************)
EXTENDS Naturals, FiniteSets

VARIABLES
    readyImages,    \* images announced by products.image.ready
    imageBatches,   \* products.images.ready.batch: an id and a total
    readyVideos,    \* videos.keyframes.ready: each message a set of frames
    videoBatches    \* videos.keyframes.ready.batch

bus == <<readyImages, imageBatches, readyVideos, videoBatches>>
=============================================================================
