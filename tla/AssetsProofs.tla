---------------------------- MODULE AssetsProofs ----------------------------
(***************************************************************************)
(* Proofs about the image assets.                                          *)
(*                                                                         *)
(* ImageFit, for all limits and all uploads: the arithmetic of the two     *)
(* scalings is in the first lemmas, which say what an edge becomes; the    *)
(* invariants follow, one action at a time.                                *)
(*                                                                         *)
(* AssetUploads, for any number of uploads, downloads and names: a write   *)
(* is appended on condition that its name is as it was observed, and an    *)
(* upload writes before it is answered, once.                              *)
(***************************************************************************)
EXTENDS ImageFit, AssetUploads, WellFoundedInduction, FiniteSetTheorems, TLAPS

(* Scaling a by n/b with a no larger than b stays within n.                *)
LEMMA ScaledWithin ==
  ASSUME NEW a \in Nat, NEW b \in Nat \ {0}, NEW n \in Nat, a =< b
  PROVE  /\ (a * n) \div b \in Nat
         /\ (a * n) \div b =< n
  <1> DEFINE q == (a * n) \div b
  <1>1. a * n \in Nat /\ b * n \in Nat /\ a * n =< b * n
    BY SMT
  <1>2. q \in Nat /\ b * q =< a * n
    BY <1>1, SMT
  <1>3. ASSUME q > n PROVE FALSE
    <2>1. q >= n + 1
      BY <1>2, <1>3, SMT
    <2>2. b * q >= b * (n + 1)
      BY <1>2, <2>1, SMT
    <2>3. b * (n + 1) = b * n + b
      BY SMT
    <2> QED BY <1>1, <1>2, <2>2, <2>3, SMT
  <1> QED BY <1>2, <1>3, SMT

(* What fitDimensions returns for an image with an edge beyond the limit.  *)
LEMMA FittedDimensions ==
  ASSUME NEW d \in Dimensions(Nat \ {0}), NEW longest \in Nat \ {0},
         Larger(d.width, d.height) > longest
  PROVE  LET f == FitDimensions(d, longest) IN
           /\ f \in Dimensions(Nat \ {0})
           /\ f.width  =< longest /\ f.width  =< d.width
           /\ f.height =< longest /\ f.height =< d.height
           /\ d.width >= d.height => f.width >= f.height
           /\ d.width =< d.height => f.width =< f.height
  <1> USE DEF Dimensions
  <1> DEFINE w == d.width
             h == d.height
  <1>0. w \in Nat \ {0} /\ h \in Nat \ {0}
    OBVIOUS
  <1>1. CASE w >= h
    <2> DEFINE q == (h * longest) \div w
    <2>1. longest < w
      BY <1>1, <1>0 DEF Larger
    <2>2. q \in Nat /\ q =< longest
      BY ScaledWithin, <1>0, <1>1
    <2>3. q =< h
      <3>1. (longest * h) \div w =< h
        BY ScaledWithin, <1>0, <2>1
      <3>2. longest * h = h * longest
        BY <1>0
      <3> QED BY <3>1, <3>2
    <2>4. FitDimensions(d, longest) = [width |-> longest, height |-> Larger(1, q)]
      BY <1>1 DEF FitDimensions
    <2>5. w = h => q = longest
      BY <1>0, SMT
    <2> HIDE DEF q
    <2> QED BY <1>0, <1>1, <2>1, <2>2, <2>3, <2>4, <2>5 DEF Larger
  <1>2. CASE ~(w >= h)
    <2> DEFINE q == (w * longest) \div h
    <2>1. longest < h /\ w < h
      BY <1>2, <1>0 DEF Larger
    <2>2. q \in Nat /\ q =< longest
      BY ScaledWithin, <1>0, <2>1
    <2>3. q =< w
      <3>1. (longest * w) \div h =< w
        BY ScaledWithin, <1>0, <2>1
      <3>2. longest * w = w * longest
        BY <1>0
      <3> QED BY <3>1, <3>2
    <2>4. FitDimensions(d, longest) = [width |-> Larger(1, q), height |-> longest]
      BY <1>2 DEF FitDimensions
    <2> HIDE DEF q
    <2> QED BY <1>0, <1>2, <2>1, <2>2, <2>3, <2>4 DEF Larger
  <1> QED BY <1>1, <1>2

(* What shrinkDimensions returns; it returns its argument only for a       *)
(* single pixel.                                                           *)
LEMMA ShrunkDimensions ==
  ASSUME NEW d \in Dimensions(Nat \ {0})
  PROVE  LET s == ShrinkDimensions(d) IN
           /\ s \in Dimensions(Nat \ {0})
           /\ s.width =< d.width /\ s.height =< d.height
           /\ d.width >= d.height => s.width >= s.height
           /\ d.width =< d.height => s.width =< s.height
           /\ s = d => d = [width |-> 1, height |-> 1]
  <1>1. d = [width |-> d.width, height |-> d.height]
        /\ d.width \in Nat \ {0} /\ d.height \in Nat \ {0}
    BY DEF Dimensions
  <1> DEFINE W == Larger(1, (d.width * 85) \div 100)
             H == Larger(1, (d.height * 85) \div 100)
  <1>2. W \in Nat \ {0} /\ W =< d.width /\ (W = d.width => d.width = 1)
    BY <1>1 DEF Larger
  <1>3. H \in Nat \ {0} /\ H =< d.height /\ (H = d.height => d.height = 1)
    BY <1>1 DEF Larger
  <1>4. (d.width >= d.height => W >= H) /\ (d.width =< d.height => W =< H)
    BY <1>1 DEF Larger
  <1>5. ShrinkDimensions(d) = [width |-> W, height |-> H]
    BY DEF ShrinkDimensions
  <1> HIDE DEF W, H
  <1> QED BY <1>1, <1>2, <1>3, <1>4, <1>5 DEF Dimensions

------------------------------------------------------------------------------
(* Before it is fitted the image is the upload.                            *)
Untouched == at \in {"received", "rejected"} => image = upload

IInv ==
  /\ TypeOK
  /\ Untouched
  /\ StoredWithinBounds
  /\ OrientationKept
  /\ GivesUpAtOnePixel

LEMMA InitHolds == Init => IInv
  <1> SUFFICES ASSUME Init PROVE IInv
    OBVIOUS
  <1>1. upload \in Dimensions(Nat) /\ image = upload /\ at = "received"
    BY SidesAssumption DEF Init, Dimensions
  <1> QED BY <1>1, LimitsAssumption
      DEF Init, IInv, TypeOK, Untouched, StoredWithinBounds, OrientationKept,
          GivesUpAtOnePixel

LEMMA RefuseHolds == IInv /\ Refuse => IInv'
  BY LimitsAssumption
  DEF IInv, Refuse, TypeOK, Untouched, StoredWithinBounds, OrientationKept,
      GivesUpAtOnePixel

LEMMA FitHolds == IInv /\ Fit => IInv'
  <1> SUFFICES ASSUME IInv, Fit PROVE IInv'
    OBVIOUS
  <1> USE LimitsAssumption
  <1>0. upload \in Dimensions(Nat) /\ image = upload /\ tried \in 0 .. Qualities
        /\ format \in Formats /\ upload' = upload /\ tried' = tried
        /\ format' = format
    BY DEF IInv, TypeOK, Untouched, Fit
  <1>1. CASE ~DimensionsValid(upload)
    BY <1>0, <1>1 DEF Fit, IInv, TypeOK, Untouched, StoredWithinBounds,
                      OrientationKept, GivesUpAtOnePixel
  <1>2. CASE DimensionsValid(upload)
    <2>1. upload \in Dimensions(Nat \ {0}) /\ at' = "fitted"
      BY <1>0, <1>2 DEF Fit, DimensionsValid, Dimensions
    <2>2. CASE Larger(upload.width, upload.height) > StoredEdge
      <3>1. image' = FitDimensions(upload, StoredEdge)
        BY <1>2, <2>2 DEF Fit
      <3> QED BY <1>0, <2>1, <2>2, <3>1, FittedDimensions
          DEF IInv, TypeOK, Untouched, StoredWithinBounds, OrientationKept,
              GivesUpAtOnePixel, Dimensions
    <2>3. CASE ~(Larger(upload.width, upload.height) > StoredEdge)
      <3>1. image' = upload
        BY <1>2, <2>3 DEF Fit
      <3>2. upload.width =< StoredEdge /\ upload.height =< StoredEdge
        BY <2>1, <2>3 DEF Larger, Dimensions
      <3> QED BY <1>0, <2>1, <3>1, <3>2
          DEF IInv, TypeOK, Untouched, StoredWithinBounds, OrientationKept,
              GivesUpAtOnePixel, Dimensions
    <2> QED BY <2>2, <2>3
  <1> QED BY <1>1, <1>2

LEMMA EncodeHolds == IInv /\ Encode => IInv'
  BY LimitsAssumption
  DEF IInv, Encode, TriesLeft, TypeOK, Untouched, StoredWithinBounds,
      OrientationKept, GivesUpAtOnePixel

LEMMA ShrinkHolds == IInv /\ Shrink => IInv'
  <1> SUFFICES ASSUME IInv, Shrink PROVE IInv'
    OBVIOUS
  <1> USE LimitsAssumption
  <1>0. /\ image \in Dimensions(Nat \ {0}) /\ upload \in Dimensions(Nat)
        /\ at = "fitted" /\ format' = format /\ upload' = upload
    BY DEF IInv, TypeOK, Shrink
  <1>1. CASE ShrinkDimensions(image) = image
    <2>1. image = [width |-> 1, height |-> 1]
      BY <1>0, <1>1, ShrunkDimensions
    <2> QED BY <1>0, <1>1, <2>1
        DEF IInv, Shrink, TypeOK, Untouched, StoredWithinBounds,
            OrientationKept, GivesUpAtOnePixel
  <1>2. CASE ShrinkDimensions(image) # image
    <2>1. image' = ShrinkDimensions(image) /\ tried' = 0 /\ at' = at
      BY <1>2 DEF Shrink
    <2> QED BY <1>0, <2>1, ShrunkDimensions
        DEF IInv, TypeOK, Untouched, StoredWithinBounds, OrientationKept,
            GivesUpAtOnePixel, Dimensions
  <1> QED BY <1>1, <1>2

LEMMA Inductive == Spec => []IInv
  <1>1. IInv /\ [Next]_vars => IInv'
    <2>1. IInv /\ UNCHANGED vars => IInv'
      BY DEF vars, IInv, TypeOK, Untouched, StoredWithinBounds,
             OrientationKept, GivesUpAtOnePixel
    <2> QED BY <2>1, RefuseHolds, FitHolds, EncodeHolds, ShrinkHolds DEF Next
  <1> QED BY InitHolds, <1>1, PTL DEF Spec

(* processImage stores no image beyond the stored edge and scales none up, *)
(* for every limit and every upload.                                       *)
THEOREM ImagesFit == Spec => []StoredWithinBounds
  BY Inductive, PTL DEF IInv

(* Fitting and shrinking keep the orientation, however often they round.   *)
THEOREM ImagesKeepOrientation == Spec => []OrientationKept
  BY Inductive, PTL DEF IInv

(* encodeJPEGWithinLimit and encodePNGWithinLimit give up only on a single *)
(* pixel, and no edge is ever zero.                                        *)
THEOREM ImagesShrinkToTheEnd == Spec => [](TypeOK /\ GivesUpAtOnePixel)
  BY Inductive, PTL DEF IInv

------------------------------------------------------------------------------
(* Uploads and downloads.                                                  *)

UploadAnswers == {"created", "conflict", "internal", "rejected", "canceled", "not_found"}

UploadStates ==
       [at : {"idle"}]
  \cup [at : {"waiting", "processing", "ready"}, key : Keys]
  \cup [at : {"observed"}, key : Keys, saw : Nat]
  \cup [at : {"done"}, key : Keys, answer : UploadAnswers]

DownloadStates ==
       [at : {"idle"}]
  \cup [at : {"looked", "missed"}, key : Keys, saw : Nat]
  \cup [at : {"served"}, key : Keys, saw : Nat, body : Nat]

Write == [key : Keys, by : Uploads, over : Nat]

UploadsTypeOK ==
  /\ ups \in [Uploads -> UploadStates]
  /\ writes \in Seq(Write)
  /\ downs \in [Downloads -> DownloadStates]

(* The writes of an upload among ws.                                       *)
Own(ws, u) == {g \in DOMAIN ws : ws[g].by = u}

(* What an upload has written, by where it is: nothing before its answer,  *)
(* one write if it was created, none if it was turned down.                *)
WrittenAs(state, ws, u) ==
  \/ /\ Own(ws, u) = {}
     /\ state.at = "done" => state.answer # "created"
  \/ /\ state.at = "done" /\ state.answer \in {"created", "internal"}
     /\ \E g \in DOMAIN ws : Own(ws, u) = {g}

WrittenOnce == \A u \in Uploads : WrittenAs(ups[u], writes, u)

(* A write replaces what its name was stored as just before it.            *)
Replaces(ws, g) ==
  ws[g].over = SelectLastInSubSeq(ws, 1, g - 1, LAMBDA w : w.key = ws[g].key)

AllReplace == \A g \in DOMAIN writes : Replaces(writes, g)

UploadsInv ==
  /\ UploadsTypeOK
  /\ AllReplace
  /\ WrittenOnce
  /\ BodyMatchesMetadata

(* A nonempty set of indices has a greatest one.                           *)
LEMMA GreatestOfBounded ==
  ASSUME NEW n \in Nat, NEW I \in SUBSET (1 .. n), I # {}
  PROVE  Max(I) \in I /\ \A i \in I : Max(I) >= i
  <1> DEFINE T == {n - i : i \in I}
             Below == {ss \in Nat \X Nat : ss[1] < ss[2]}
  <1>1. IsWellFoundedOn(Below, Nat)
    BY NatLessThanWellFounded DEF OpToRel
  <1>2. T \subseteq Nat /\ T # {}
    <2>1. \A i \in I : n - i \in Nat
      OBVIOUS
    <2>2. PICK i \in I : TRUE
      OBVIOUS
    <2>3. n - i \in T
      BY <2>2
    <2> QED BY <2>1, <2>3
  <1>3. PICK x \in T : \A y \in T : ~(<<y, x>> \in Below)
    <2> HIDE DEF T, Below
    <2> QED BY <1>1, <1>2, WFMin
  <1>4. PICK m \in I : x = n - m
    OBVIOUS
  <1>5. ASSUME NEW i \in I PROVE m >= i
    <2>1. n - i \in T /\ n - i \in Nat /\ x \in Nat
      BY <1>2, <1>3
    <2>2. ~(n - i < x)
      BY <2>1, <1>3
    <2> QED BY <2>2, <1>4
  <1> QED BY <1>5 DEF Max

(* What a name is stored as is a generation, or 0.                         *)
LEMMA CurrentIsNumber ==
  ASSUME NEW k, writes \in Seq(Write)
  PROVE  Current(k) \in Nat
  <1> DEFINE I == {i \in 1 .. Len(writes) : writes[i].key = k}
  <1>1. Len(writes) \in Nat /\ I \subseteq 1 .. Len(writes)
    OBVIOUS
  <1>2. Current(k) = IF I # {} THEN Max(I) ELSE 0
    BY DEF Current, SelectLastInSeq
  <1>3. I # {} => Max(I) \in I
    <2> HIDE DEF I
    <2> QED BY <1>1, GreatestOfBounded
  <1> QED BY <1>1, <1>2, <1>3

(* A write that is appended leaves those before it as they were; and it    *)
(* replaces what is current, if that is what its upload observed.          *)
LEMMA AppendedWrite ==
  ASSUME NEW ws \in Seq(Write), NEW w \in Write
  PROVE  /\ Append(ws, w) \in Seq(Write)
         /\ \A g \in DOMAIN ws : Replaces(ws, g) => Replaces(Append(ws, w), g)
         /\ w.over = SelectLastInSeq(ws, LAMBDA v : v.key = w.key)
              => Replaces(Append(ws, w), Len(ws) + 1)
  <1> DEFINE more == Append(ws, w)
  <1>1. /\ more \in Seq(Write) /\ Len(ws) \in Nat
        /\ \A i \in 1 .. Len(ws) : more[i] = ws[i]
        /\ more[Len(ws) + 1] = w
        /\ DOMAIN ws = 1 .. Len(ws)
    OBVIOUS
  <1> HIDE DEF more
  <1>2. ASSUME NEW g \in DOMAIN ws, Replaces(ws, g)
        PROVE  Replaces(more, g)
    <2>1. {i \in 1 .. (g - 1) : ws[i].key = ws[g].key}
            = {i \in 1 .. (g - 1) : more[i].key = more[g].key}
      BY <1>1
    <2> QED BY <1>1, <1>2, <2>1 DEF Replaces, SelectLastInSubSeq
  <1>3. ASSUME w.over = SelectLastInSeq(ws, LAMBDA v : v.key = w.key)
        PROVE  Replaces(more, Len(ws) + 1)
    <2>1. Len(ws) + 1 - 1 = Len(ws)
      BY <1>1
    <2>2. {i \in 1 .. Len(ws) : ws[i].key = w.key}
            = {i \in 1 .. Len(ws) : more[i].key = w.key}
      BY <1>1
    <2> DEFINE I == {i \in 1 .. Len(ws) : more[i].key = w.key}
    <2>3. w.over = IF I # {} THEN Max(I) ELSE 0
      BY <1>3, <2>2 DEF SelectLastInSeq
    <2>4. SelectLastInSubSeq(more, 1, Len(ws), LAMBDA v : v.key = w.key)
            = IF I # {} THEN Max(I) ELSE 0
      BY DEF SelectLastInSubSeq
    <2> QED BY <1>1, <2>1, <2>3, <2>4 DEF Replaces
  <1> QED BY <1>1, <1>2, <1>3 DEF more

------------------------------------------------------------------------------
LEMMA UploadsStart == UploadsInit => UploadsInv
  <1> SUFFICES ASSUME UploadsInit PROVE UploadsInv
    OBVIOUS
  <1>1. UploadsTypeOK
    BY DEF UploadsInit, UploadsTypeOK, UploadStates, DownloadStates, Idle
  <1>2. AllReplace /\ WrittenOnce
    BY DEF UploadsInit, AllReplace, WrittenOnce, WrittenAs,
           Own, Idle
  <1>3. BodyMatchesMetadata
    BY DEF UploadsInit, BodyMatchesMetadata, Idle
  <1> QED BY <1>1, <1>2, <1>3 DEF UploadsInv

(* An upload that moves without writing, and not to "created".             *)
LEMMA UploadMoves ==
  ASSUME UploadsInv, NEW u \in Uploads, NEW s \in UploadStates,
         ups[u].at # "done", s.at = "done" => s.answer # "created",
         ups' = [ups EXCEPT ![u] = s], UNCHANGED <<writes, downs>>
  PROVE  UploadsInv'
  <1>1. UploadsTypeOK'
    BY DEF UploadsInv, UploadsTypeOK
  <1>2. AllReplace' /\ BodyMatchesMetadata'
    BY DEF UploadsInv, AllReplace, BodyMatchesMetadata
  <1>3. WrittenOnce'
    <2>1. /\ ups'[u] = s
          /\ \A v \in Uploads : v # u => ups'[v] = ups[v]
      BY DEF UploadsInv, UploadsTypeOK
    <2>2. Own(writes, u) = {}
      BY DEF UploadsInv, WrittenOnce, WrittenAs
    <2> QED BY <2>1, <2>2 DEF UploadsInv, WrittenOnce, WrittenAs, Own
  <1> QED BY <1>1, <1>2, <1>3 DEF UploadsInv

(* The state of an upload that is answered.                                *)
LEMMA AnswerIsState ==
  ASSUME NEW k \in Keys, NEW answer \in UploadAnswers
  PROVE  [at |-> "done", key |-> k, answer |-> answer] \in UploadStates
  BY DEF UploadStates

LEMMA ArriveHolds ==
  ASSUME UploadsInv, NEW u \in Uploads, NEW k \in Keys, Arrive(u, k)
  PROVE  UploadsInv'
  <1>1. ups[u].at # "done" /\ UNCHANGED <<writes, downs>>
    BY DEF Arrive, Idle
  <1>2. CASE ups' = [ups EXCEPT ![u] = [at |-> "waiting", key |-> k]]
    <2> DEFINE s == [at |-> "waiting", key |-> k]
    <2>1. s \in UploadStates /\ s.at # "done"
      BY DEF UploadStates
    <2> QED BY <1>1, <1>2, <2>1, UploadMoves
  <1>3. ASSUME NEW answer \in {"not_found", "internal"}, AnswerUpload(u, k, answer)
        PROVE  UploadsInv'
    <2> DEFINE s == [at |-> "done", key |-> k, answer |-> answer]
    <2>1. ups' = [ups EXCEPT ![u] = s]
      BY <1>3 DEF AnswerUpload
    <2>2. s \in UploadStates /\ s.answer # "created"
      BY AnswerIsState DEF UploadAnswers
    <2> QED BY <1>1, <2>1, <2>2, UploadMoves
  <1> QED BY <1>2, <1>3 DEF Arrive

(* The steps of an upload before it writes.                                *)
LEMMA BeforeWriteHolds ==
  ASSUME UploadsInv, NEW u \in Uploads,
         TakeSlot(u) \/ GiveUp(u) \/ Process(u) \/ Observe(u)
  PROVE  UploadsInv'
  <1> DEFINE k == ups[u].key
  <1>1. /\ ups[u].at \in {"waiting", "processing", "ready"}
        /\ UNCHANGED <<writes, downs>>
    BY DEF TakeSlot, GiveUp, Process, Observe
  <1>2. ups[u] \in [at : {"waiting", "processing", "ready"}, key : Keys]
    BY <1>1 DEF UploadsInv, UploadsTypeOK, UploadStates
  <1>3. k \in Keys
    BY <1>2
  <1>4. ASSUME NEW answer \in {"canceled", "rejected", "internal"},
               AnswerUpload(u, k, answer)
        PROVE  UploadsInv'
    <2> DEFINE s == [at |-> "done", key |-> k, answer |-> answer]
    <2>1. s \in UploadStates /\ s.answer # "created"
      BY <1>3, <1>4, AnswerIsState DEF UploadAnswers
    <2>2. ups' = [ups EXCEPT ![u] = s]
      BY <1>4 DEF AnswerUpload
    <2> QED BY <1>1, <2>1, <2>2, UploadMoves
  <1>5. ASSUME NEW to \in {"processing", "ready"},
               ups' = [ups EXCEPT ![u].at = to]
        PROVE  UploadsInv'
    <2> DEFINE s == [ups[u] EXCEPT !.at = to]
    <2>1. s \in UploadStates /\ s.at # "done"
      BY <1>2 DEF UploadStates
    <2>2. ups' = [ups EXCEPT ![u] = s]
      BY <1>5
    <2> QED BY <1>1, <2>1, <2>2, UploadMoves
  <1>6. ASSUME ups' = [ups EXCEPT ![u] = [at |-> "observed", key |-> k, saw |-> Current(k)]]
        PROVE  UploadsInv'
    <2> DEFINE s == [at |-> "observed", key |-> k, saw |-> Current(k)]
    <2>1. s \in UploadStates /\ s.at # "done"
      BY <1>3, CurrentIsNumber DEF UploadsInv, UploadsTypeOK, UploadStates
    <2> QED BY <1>1, <1>6, <2>1, UploadMoves
  <1>7. CASE TakeSlot(u)
    BY <1>5, <1>7 DEF TakeSlot
  <1>8. CASE GiveUp(u)
    BY <1>4, <1>8 DEF GiveUp
  <1>9. CASE Process(u)
    BY <1>4, <1>5, <1>9 DEF Process
  <1>10. CASE Observe(u)
    BY <1>4, <1>6, <1>10 DEF Observe
  <1> QED BY <1>7, <1>8, <1>9, <1>10

(* The write is refused, or fails: the bucket is as it was.                *)
LEMMA NoWriteHolds ==
  ASSUME UploadsInv, NEW u \in Uploads, WriteRefused(u) \/ WriteFails(u)
  PROVE  UploadsInv'
  <1>1. /\ ups[u].at = "observed" /\ UNCHANGED <<writes, downs>>
        /\ \E answer \in {"conflict", "internal"} : AnswerUpload(u, ups[u].key, answer)
    BY DEF WriteRefused, WriteFails
  <1>2. ups[u].key \in Keys
    BY <1>1 DEF UploadsInv, UploadsTypeOK, UploadStates
  <1>3. PICK answer \in {"conflict", "internal"} : AnswerUpload(u, ups[u].key, answer)
    BY <1>1
  <1> DEFINE s == [at |-> "done", key |-> ups[u].key, answer |-> answer]
  <1>4. s \in UploadStates /\ s.answer # "created"
    BY <1>2, AnswerIsState DEF UploadAnswers
  <1>5. ups' = [ups EXCEPT ![u] = s]
    BY <1>3 DEF AnswerUpload
  <1> QED BY <1>1, <1>4, <1>5, UploadMoves

(* The write is applied: it replaces what the upload observed, and is the  *)
(* only one of the upload.                                                 *)
LEMMA WriteAppliedHolds ==
  ASSUME UploadsInv, NEW u \in Uploads, WriteApplied(u)
  PROVE  UploadsInv'
  <1> DEFINE k == ups[u].key
             w == [key |-> k, by |-> u, over |-> ups[u].saw]
             last == Len(writes) + 1
  <1>1. /\ ups[u].at = "observed" /\ Current(k) = ups[u].saw
        /\ writes' = Append(writes, w) /\ downs' = downs
    BY DEF WriteApplied, ConditionHolds, Store
  <1>2. PICK reply \in {"created", "internal"} :
          ups' = [ups EXCEPT ![u] = [at |-> "done", key |-> k, answer |-> reply]]
    BY DEF WriteApplied, AnswerUpload
  <1> DEFINE s == [at |-> "done", key |-> k, answer |-> reply]
  <1>3. /\ k \in Keys /\ w \in Write /\ writes \in Seq(Write) /\ Len(writes) \in Nat
    <2>1. ups[u] \in [at : {"observed"}, key : Keys, saw : Nat]
      BY <1>1 DEF UploadsInv, UploadsTypeOK, UploadStates
    <2>2. w \in Write
      BY <2>1 DEF Write
    <2>3. writes \in Seq(Write)
      BY DEF UploadsInv, UploadsTypeOK
    <2> QED BY <2>1, <2>2, <2>3
  <1>4. s \in UploadStates
    BY <1>3, AnswerIsState DEF UploadAnswers
  <1>5. UploadsTypeOK'
    BY <1>1, <1>2, <1>3, <1>4 DEF UploadsInv, UploadsTypeOK
  <1>6. AllReplace'
    <2>1. w.over = SelectLastInSeq(writes, LAMBDA v : v.key = w.key)
      BY <1>1 DEF Current
    <2>2. \A g \in DOMAIN writes : Replaces(writes, g)
      BY DEF UploadsInv, AllReplace
    <2>3. Replaces(writes', last) /\ \A g \in DOMAIN writes : Replaces(writes', g)
      BY <1>1, <1>3, <2>1, <2>2, AppendedWrite
    <2>4. DOMAIN writes' = (DOMAIN writes) \cup {last}
      BY <1>1, <1>3
    <2>5. \A g \in DOMAIN writes' : Replaces(writes', g)
      BY <2>3, <2>4
    <2> QED BY <2>5 DEF AllReplace
  <1>7. WrittenOnce'
    <2>1. Own(writes, u) = {}
      BY <1>1 DEF UploadsInv, WrittenOnce, WrittenAs
    <2>2. /\ DOMAIN writes' = (DOMAIN writes) \cup {last} /\ last \notin DOMAIN writes
          /\ \A g \in DOMAIN writes : writes'[g] = writes[g]
          /\ writes'[last].by = u
      BY <1>1, <1>3
    <2>3. Own(writes', u) = {last} /\ last \in DOMAIN writes'
      BY <2>1, <2>2 DEF Own
    <2>4. \A v \in Uploads : v # u => Own(writes', v) = Own(writes, v)
      BY <2>2 DEF Own
    <2>5. ups'[u] = s /\ \A v \in Uploads : v # u => ups'[v] = ups[v]
      BY <1>2 DEF UploadsInv, UploadsTypeOK
    <2>6. WrittenAs(ups'[u], writes', u)
      BY <1>2, <2>3, <2>5 DEF WrittenAs
    <2>7. ASSUME NEW v \in Uploads, v # u PROVE WrittenAs(ups'[v], writes', v)
      <3>1. WrittenAs(ups[v], writes, v)
        BY DEF UploadsInv, WrittenOnce
      <3> QED BY <2>2, <2>4, <2>5, <2>7, <3>1 DEF WrittenAs
    <2> QED BY <2>6, <2>7 DEF WrittenOnce
  <1>8. BodyMatchesMetadata'
    BY <1>1 DEF UploadsInv, BodyMatchesMetadata
  <1> QED BY <1>5, <1>6, <1>7, <1>8 DEF UploadsInv

(* Downloads change nothing of uploads.                                    *)
LEMMA DownloadMoves ==
  ASSUME UploadsInv, NEW d \in Downloads, NEW s \in DownloadStates,
         s.at = "served" => s.body = s.saw,
         downs' = [downs EXCEPT ![d] = s], UNCHANGED <<ups, writes>>
  PROVE  UploadsInv'
  <1>1. UploadsTypeOK'
    BY DEF UploadsInv, UploadsTypeOK
  <1>2. AllReplace' /\ WrittenOnce'
    BY DEF UploadsInv, AllReplace, WrittenOnce, WrittenAs, Own
  <1>3. BodyMatchesMetadata'
    BY DEF UploadsInv, UploadsTypeOK, BodyMatchesMetadata
  <1> QED BY <1>1, <1>2, <1>3 DEF UploadsInv

LEMMA LookHolds ==
  ASSUME UploadsInv, NEW d \in Downloads, NEW k \in Keys, Look(d, k)
  PROVE  UploadsInv'
  <1> DEFINE s == IF k \in Orphans \/ Current(k) = 0
                  THEN [at |-> "missed", key |-> k, saw |-> 0]
                  ELSE [at |-> "looked", key |-> k, saw |-> Current(k)]
  <1>1. Current(k) \in Nat
    BY CurrentIsNumber DEF UploadsInv, UploadsTypeOK
  <1>2. s \in DownloadStates /\ s.at # "served"
    BY <1>1 DEF DownloadStates
  <1>3. downs' = [downs EXCEPT ![d] = s] /\ UNCHANGED <<ups, writes>>
    BY DEF Look, AnswerDownload
  <1> HIDE DEF s
  <1> QED BY <1>2, <1>3, DownloadMoves

LEMMA FetchHolds ==
  ASSUME UploadsInv, NEW d \in Downloads, Fetch(d)
  PROVE  UploadsInv'
  <1> DEFINE k == downs[d].key
             g == downs[d].saw
             s == IF Current(k) = g
                  THEN [at |-> "served", key |-> k, saw |-> g, body |-> g]
                  ELSE [at |-> "missed", key |-> k, saw |-> g]
  <1>1. k \in Keys /\ g \in Nat
    BY DEF Fetch, UploadsInv, UploadsTypeOK, DownloadStates
  <1>2. downs' = [downs EXCEPT ![d] = s] /\ UNCHANGED <<ups, writes>>
    BY DEF Fetch, AnswerDownload
  <1> HIDE DEF k, g
  <1>3. s \in DownloadStates /\ (s.at = "served" => s.body = s.saw)
    BY <1>1 DEF DownloadStates
  <1> HIDE DEF s
  <1> QED BY <1>2, <1>3, DownloadMoves

LEMMA UploadsInductive == UploadsSpec => []UploadsInv
  <1>1. UploadsInv /\ [UploadsNext]_uploadVars => UploadsInv'
    <2> SUFFICES ASSUME UploadsInv, [UploadsNext]_uploadVars PROVE UploadsInv'
      OBVIOUS
    <2>1. CASE UNCHANGED <<ups, writes, downs>>
      BY <2>1 DEF UploadsInv, UploadsTypeOK, AllReplace, WrittenOnce,
                  WrittenAs, Own, BodyMatchesMetadata
    <2>2. ASSUME NEW u \in Uploads, UploadStep(u) PROVE UploadsInv'
      BY <2>2, BeforeWriteHolds, NoWriteHolds, WriteAppliedHolds DEF UploadStep
    <2>3. ASSUME NEW u \in Uploads, HangUp(u) PROVE UploadsInv'
      BY <2>1, <2>3 DEF HangUp
    <2> QED BY <2>1, <2>2, <2>3, ArriveHolds, LookHolds, FetchHolds
        DEF UploadsNext, Finished, uploadVars
  <1> QED BY UploadsStart, <1>1, PTL DEF UploadsSpec

(* TenantStore.Put: a write replaces the generation that its upload has    *)
(* seen and never one stored since, however many uploads of a name race.   *)
THEOREM WritesReplaceWhatWasSeen == UploadsSpec => []NoBlindReplacement
  <1>1. UploadsInv => NoBlindReplacement
    BY DEF UploadsInv, AllReplace, Replaces, NoBlindReplacement, Generations
  <1> QED BY <1>1, UploadsInductive, PTL

(* putProcessedAsset: an upload that is told it was created has been       *)
(* stored once, one that is turned down has not been stored.               *)
THEOREM UploadAnswersAreTrue == UploadsSpec => []AnswersAreTrue
  <1>1. UploadsInv => AnswersAreTrue
    <2> SUFFICES ASSUME UploadsInv, NEW u \in Uploads, ups[u].at = "done"
                 PROVE  /\ ups[u].answer = "created" => Cardinality(Own(writes, u)) = 1
                        /\ ups[u].answer \notin {"created", "internal"} =>
                             Own(writes, u) = {}
      BY DEF AnswersAreTrue, Own, Generations
    <2>1. WrittenAs(ups[u], writes, u)
      BY DEF UploadsInv, WrittenOnce
    <2>2. \A g : Cardinality({g}) = 1
      BY FS_Singleton
    <2> QED BY <2>1, <2>2 DEF WrittenAs
  <1> QED BY <1>1, UploadsInductive, PTL

(* TenantStore.Open: the bytes served are of the generation whose size,    *)
(* type and ETag are sent with them.                                       *)
THEOREM DownloadsAreWhole == UploadsSpec => []BodyMatchesMetadata
  BY UploadsInductive, PTL DEF UploadsInv
==============================================================================
