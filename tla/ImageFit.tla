------------------------------ MODULE ImageFit ------------------------------
(***************************************************************************)
(* processImage: which dimensions an uploaded image is stored with.  An    *)
(* image within the decoding limits is fitted to the longest stored edge,  *)
(* then encoded; an encoding above the stored size limit is tried again at *)
(* the next JPEG quality, and when there is none left, with both edges     *)
(* shrunk to 85%.  How many bytes an encoding takes is left open.          *)
(***************************************************************************)
EXTENDS Integers

CONSTANTS
  Sides,        \* the widths and heights a run enumerates
  MaxSide,      \* maxImageDimension
  MaxPixels,    \* maxImagePixels
  StoredEdge,   \* maxStoredEdge
  Qualities     \* how many qualities encodeJPEGWithinLimit tries

ASSUME SidesAssumption  == Sides \subseteq Nat
ASSUME LimitsAssumption ==
  /\ MaxSide \in Nat
  /\ MaxPixels \in Nat
  /\ StoredEdge \in Nat \ {0}
  /\ Qualities \in Nat \ {0}

VARIABLES
  at,        \* "received", "fitted", "stored", "rejected", "unencodable" or "failed"
  format,    \* the decoded format
  upload,    \* the decoded dimensions
  image,     \* the dimensions of the image being encoded
  tried      \* encodings tried at these dimensions

vars == <<at, format, upload, image, tried>>

Formats == {"jpeg", "png"}
Dimensions(S) == [width : S, height : S]

Larger(x, y)  == IF x >= y THEN x ELSE y

Init ==
  /\ at = "received"
  /\ format \in Formats
  /\ upload \in Dimensions(Sides)
  /\ image = upload
  /\ tried = 0

DimensionsValid(d) ==
  /\ d.width \in 1 .. MaxSide
  /\ d.height \in 1 .. MaxSide
  /\ d.width * d.height =< MaxPixels

(* Mutant: an edge can round down to nothing.                              *)
FitDimensionsToZero(d, longest) ==
  IF d.width >= d.height
  THEN [width |-> longest, height |-> (d.height * longest) \div d.width]
  ELSE [width |-> (d.width * longest) \div d.height, height |-> longest]

FitDimensions(d, longest) ==
  IF d.width >= d.height
  THEN [width |-> longest, height |-> Larger(1, (d.height * longest) \div d.width)]
  ELSE [width |-> Larger(1, (d.width * longest) \div d.height), height |-> longest]

ShrinkDimensions(d) ==
  [width  |-> Larger(1, (d.width * 85) \div 100),
   height |-> Larger(1, (d.height * 85) \div 100)]

Fit ==
  /\ at = "received"
  /\ \/ /\ DimensionsValid(upload)
        /\ at' = "fitted"
        /\ image' = IF Larger(upload.width, upload.height) > StoredEdge
                    THEN FitDimensions(upload, StoredEdge)
                    ELSE upload
     \/ /\ ~DimensionsValid(upload)
        /\ at' = "rejected"
        /\ UNCHANGED image
  /\ UNCHANGED <<format, upload, tried>>

(* The name, the format, the data or the header is not what it should be.  *)
Refuse ==
  /\ at = "received"
  /\ at' = "rejected"
  /\ UNCHANGED <<format, upload, image, tried>>

TriesLeft == tried < (IF format = "jpeg" THEN Qualities ELSE 1)

(* One encoding; it may or may not be within the stored size limit, and    *)
(* the encoder may fail, which ends the loop.                              *)
Encode ==
  /\ at = "fitted"
  /\ TriesLeft
  /\ tried' = tried + 1
  /\ at' \in {"fitted", "stored", "unencodable"}
  /\ UNCHANGED <<format, upload, image>>

(* Mutant: a shrink that changes nothing is encoded again.                 *)
ShrinkForever ==
  /\ at = "fitted"
  /\ ~TriesLeft
  /\ image' = ShrinkDimensions(image)
  /\ tried' = 0
  /\ UNCHANGED <<at, format, upload>>

Shrink ==
  /\ at = "fitted"
  /\ ~TriesLeft
  /\ \/ /\ ShrinkDimensions(image) = image
        /\ at' = "failed"
        /\ UNCHANGED <<image, tried>>
     \/ /\ ShrinkDimensions(image) # image
        /\ image' = ShrinkDimensions(image)
        /\ tried' = 0
        /\ UNCHANGED at
  /\ UNCHANGED <<format, upload>>

Next == Refuse \/ Fit \/ Encode \/ Shrink

(* Nothing in the loops waits: a goroutine that runs goes on running.      *)
Spec == Init /\ [][Next]_vars /\ WF_vars(Next)

------------------------------------------------------------------------------
(* Properties.                                                             *)

(* Types of the loop's variables; no decoded image has an edge of zero,    *)
(* for which resizeImage has no meaning.                                   *)
TypeOK ==
  /\ at \in {"received", "fitted", "stored", "rejected", "unencodable", "failed"}
  /\ format \in Formats
  /\ upload \in Dimensions(Nat)
  /\ image \in Dimensions(Nat)
  /\ at # "received" /\ at # "rejected" => image \in Dimensions(Nat \ {0})
  /\ tried \in 0 .. Qualities

(* An image being encoded, hence one that is stored, has no empty edge, is *)
(* within the stored edge and no larger than the upload: processImage      *)
(* never scales up.                                                        *)
StoredWithinBounds ==
  at \in {"fitted", "stored", "failed"} =>
    /\ image.width  \in 1 .. StoredEdge /\ image.width  =< upload.width
    /\ image.height \in 1 .. StoredEdge /\ image.height =< upload.height

(* A landscape image stays landscape and a portrait one portrait, however  *)
(* often its edges are rounded.                                            *)
OrientationKept ==
  /\ upload.width >= upload.height => image.width >= image.height
  /\ upload.width =< upload.height => image.width =< image.height

(* The loop gives up only when there is nothing left to shrink.            *)
GivesUpAtOnePixel == at = "failed" => image = [width |-> 1, height |-> 1]

(* Every accepted upload leaves the encoding loop: the image slot that is  *)
(* held meanwhile is given back.                                           *)
ProcessingEnds == <>(at \in {"stored", "rejected", "unencodable", "failed"})
=============================================================================
