------------------------------ MODULE MCAssets ------------------------------
(* A finite instance of the image assets: uploads and downloads over the   *)
(* bucket (AssetUploads), which leaves open what the image slot is held    *)
(* for, and the processing of one image that it is held for (ImageFit).    *)
(* One is watched in every behaviour.                                      *)
EXTENDS ImageFit, AssetUploads, TLC

CONSTANTS u1, u2, u3, d1, shot, plan, orphan

MCUploads   == {u1, u2, u3}
MCDownloads == {d1}
MCKeys      == {shot, plan, orphan}
MCOrphans   == {orphan}

VARIABLE watched   \* the part that moves: "uploads" or "image"

AssetsInit ==
  /\ Init /\ UploadsInit
  /\ watched \in {"uploads", "image"}
  /\ watched = "uploads" => format = "png" /\ upload = [width |-> 1, height |-> 1]

InUploads == watched = "uploads" /\ UploadsNext /\ UNCHANGED <<vars, watched>>
InImage == watched = "image" /\ Next /\ UNCHANGED <<uploadVars, watched>>

(* As in both modules: a request that can go on does, and so does a loop.  *)
AssetsSpec ==
  /\ AssetsInit
  /\ [][InUploads \/ InImage]_<<vars, uploadVars, watched>>
  /\ UploadsFairness
  /\ WF_<<vars, watched>>(InImage)

(* Stated in ImageFit: the loop over qualities and sizes ends.             *)
EncodingEnds == watched = "image" => ProcessingEnds
==============================================================================
