----------------------------- MODULE ReadsProofs -----------------------------
(***************************************************************************)
(* Reads without a transaction, for any number of readers, Projects,       *)
(* Issues and Comments and whatever is written between two lookups.        *)
(*                                                                         *)
(* The argument: other callers move the documents by effects that delete   *)
(* nothing (DocumentsProofs), so what a read has seen is still there when  *)
(* the next piece of it is looked up, and what it sees at one moment has   *)
(* the invariants of that moment.  A walk over pages has listed, of what   *)
(* stays as it is, exactly what lies before its cursor (WalkSplits), and a *)
(* page is the next part of a strict order (PageQueried), so its last row  *)
(* is a cursor of which the same holds.                                    *)
(***************************************************************************)
EXTENDS TrackerReads, OverviewPages, DocumentsProofs,
        FiniteSetTheorems, FunctionTheorems, SequenceTheorems, TLAPS

------------------------------------------------------------------------------
(* Pages of a sorted listing.                                              *)

Ordering(S, before) ==
  /\ \A x \in S : <<x, x>> \notin before
  /\ \A x, y, z \in S :
       <<x, y>> \in before /\ <<y, z>> \in before => <<x, z>> \in before
  /\ \A x, y \in S : x # y => <<x, y>> \in before \/ <<y, x>> \in before

(* The members that come before x.                                         *)
Earlier(S, before, x) == {y \in S : <<y, x>> \in before}

(* The more members come before one, the later it comes, so each has a     *)
(* rank of its own and every rank below the cardinality is taken.          *)
LEMMA Ranks ==
  ASSUME NEW S, IsFiniteSet(S), NEW before, Ordering(S, before)
  PROVE  /\ Cardinality(S) \in Nat
         /\ \A x \in S : Cardinality(Earlier(S, before, x)) \in 0 .. Cardinality(S) - 1
         /\ \A x, y \in S : <<x, y>> \in before =>
              Cardinality(Earlier(S, before, x)) < Cardinality(Earlier(S, before, y))
         /\ \A n \in 0 .. Cardinality(S) - 1 :
              \E x \in S : Cardinality(Earlier(S, before, x)) = n
<1> DEFINE rank(x) == Cardinality(Earlier(S, before, x))
<1>1. Cardinality(S) \in Nat
  BY FS_CardinalityType
<1>2. ASSUME NEW x \in S
      PROVE  /\ IsFiniteSet(Earlier(S, before, x))
             /\ rank(x) \in Nat /\ rank(x) < Cardinality(S)
  <2>1. Earlier(S, before, x) \in SUBSET S /\ x \notin Earlier(S, before, x)
    BY DEF Earlier, Ordering
  <2>2. /\ IsFiniteSet(Earlier(S, before, x)) /\ rank(x) <= Cardinality(S)
        /\ Cardinality(S) = rank(x) => S = Earlier(S, before, x)
    BY <2>1, FS_Subset
  <2>3. rank(x) \in Nat
    BY <2>2, FS_CardinalityType
  <2> QED BY <1>1, <2>1, <2>2, <2>3
<1>3. ASSUME NEW x \in S, NEW y \in S, <<x, y>> \in before
      PROVE  rank(x) < rank(y)
  <2>1. Earlier(S, before, x) \in SUBSET Earlier(S, before, y)
    BY <1>3 DEF Earlier, Ordering
  <2>2. x \in Earlier(S, before, y) /\ x \notin Earlier(S, before, x)
    BY <1>3 DEF Earlier, Ordering
  <2>3. /\ rank(x) <= rank(y)
        /\ rank(y) = rank(x) => Earlier(S, before, y) = Earlier(S, before, x)
    BY <1>2, <2>1, FS_Subset
  <2> QED BY <1>2, <2>2, <2>3
<1>4. /\ IsFiniteSet(0 .. Cardinality(S) - 1)
      /\ Cardinality(0 .. Cardinality(S) - 1) = Cardinality(S)
  <2>1. /\ IsFiniteSet(0 .. Cardinality(S) - 1)
        /\ Cardinality(0 .. Cardinality(S) - 1) =
             IF 0 > Cardinality(S) - 1 THEN 0 ELSE (Cardinality(S) - 1) - 0 + 1
    <3> DEFINE top == Cardinality(S) - 1
    <3>1. top \in Int
      BY <1>1
    <3> HIDE DEF top
    <3>2. /\ IsFiniteSet(0 .. top)
          /\ Cardinality(0 .. top) = IF 0 > top THEN 0 ELSE top - 0 + 1
      BY <3>1, FS_Interval
    <3> QED BY <3>2 DEF top
  <2> QED BY <1>1, <2>1
<1> DEFINE f == [x \in S |-> rank(x)]
<1>5. f \in Injection(S, 0 .. Cardinality(S) - 1)
  <2>1. f \in [S -> 0 .. Cardinality(S) - 1]
    BY <1>1, <1>2
  <2>2. ASSUME NEW x \in S, NEW y \in S, f[x] = f[y], x # y
        PROVE  FALSE
    <3>1. <<x, y>> \in before \/ <<y, x>> \in before
      BY <2>2 DEF Ordering
    <3>2. rank(x) < rank(y) \/ rank(y) < rank(x)
      BY <1>3, <3>1
    <3>3. rank(x) = rank(y) /\ rank(x) \in Nat
      BY <1>2, <2>2
    <3> HIDE DEF rank
    <3> QED BY <3>2, <3>3
  <2> HIDE DEF f
  <2> QED BY <2>1, <2>2 DEF Injection, IsInjective
<1>6. f \in Surjection(S, 0 .. Cardinality(S) - 1)
  <2> HIDE DEF f
  <2> QED BY <1>4, <1>5, FS_Injection
<1>7. ASSUME NEW n \in 0 .. Cardinality(S) - 1
      PROVE  \E x \in S : rank(x) = n
  <2>1. \E x \in S : f[x] = n
    <3> HIDE DEF f
    <3> QED BY <1>6 DEF Surjection
  <2> QED BY <2>1
<1> QED BY <1>1, <1>2, <1>3, <1>7

LEMMA SortedBy ==
  ASSUME NEW S, IsFiniteSet(S), NEW before, Ordering(S, before)
  PROVE  /\ Cardinality(S) \in Nat
         /\ Sorted(S, before) \in [1 .. Cardinality(S) -> S]
         /\ \A i, j \in 1 .. Cardinality(S) :
              i < j => <<Sorted(S, before)[i], Sorted(S, before)[j]>> \in before
         /\ \A x \in S : \E i \in 1 .. Cardinality(S) : Sorted(S, before)[i] = x
<1> DEFINE s == Sorted(S, before)
           n == Cardinality(S)
           rank(x) == Cardinality(Earlier(S, before, x))
<1>1. /\ n \in Nat /\ \A x \in S : rank(x) \in 0 .. n - 1
      /\ \A x, y \in S : <<x, y>> \in before => rank(x) < rank(y)
      /\ \A i \in 0 .. n - 1 : \E x \in S : rank(x) = i
  BY Ranks
<1>2. s = [i \in 1 .. n |-> CHOOSE x \in S : rank(x) = i - 1]
  BY DEF Sorted, Earlier
<1> HIDE DEF n, rank, s
<1>3. ASSUME NEW i \in 1 .. n
      PROVE  s[i] \in S /\ rank(s[i]) = i - 1
  <2>1. i - 1 \in 0 .. n - 1
    BY <1>1
  <2>2. \E x \in S : rank(x) = i - 1
    BY <1>1, <2>1
  <2> QED BY <1>2, <2>2
<1>4. s \in [1 .. n -> S]
  BY <1>2, <1>3
<1>5. ASSUME NEW i \in 1 .. n, NEW j \in 1 .. n, i < j
      PROVE  <<s[i], s[j]>> \in before
  <2>1. rank(s[i]) < rank(s[j])
    BY <1>1, <1>3, <1>5
  <2>2. s[i] # s[j] /\ <<s[j], s[i]>> \notin before
    BY <1>1, <1>3, <2>1
  <2> QED BY <1>3, <2>2 DEF Ordering
<1>6. ASSUME NEW x \in S
      PROVE  \E i \in 1 .. n : s[i] = x
  <2>1. rank(x) + 1 \in 1 .. n
    BY <1>1
  <2>2. s[rank(x) + 1] \in S /\ rank(s[rank(x) + 1]) = rank(x)
    <3>1. rank(x) \in Nat
      BY <1>1
    <3> QED BY <1>3, <2>1, <3>1
  <2>3. ASSUME NEW y \in S, rank(y) = rank(x), y # x
        PROVE  FALSE
    <3>1. <<x, y>> \in before \/ <<y, x>> \in before
      BY <2>3 DEF Ordering
    <3>2. rank(x) < rank(y) \/ rank(y) < rank(x)
      BY <1>1, <3>1
    <3> QED BY <1>1, <2>3, <3>2
  <2> QED BY <2>1, <2>2, <2>3
<1> QED BY <1>1, <1>4, <1>5, <1>6 DEF n, s

(* A page has the first rows of its listing in their order, and what is    *)
(* not on it comes after its last row.                                     *)
LEMMA PageHolds ==
  ASSUME NEW S, IsFiniteSet(S), NEW before, Ordering(S, before),
         NEW fetched, fetched = Fetched(Sorted(S, before)),
         NEW page, page = PageOf(fetched)
  PROVE  /\ page \in Seq(S)
         /\ \A i, j \in DOMAIN page : i < j => <<page[i], page[j]>> \in before
         /\ More(fetched) => page # <<>>
         /\ \A x \in S : \/ \E i \in DOMAIN page : page[i] = x
                         \/ More(fetched) /\ <<page[Len(page)], x>> \in before
<1> DEFINE s == Sorted(S, before)
           n == Cardinality(S)
<1>1. /\ n \in Nat /\ s \in [1 .. n -> S]
      /\ \A i, j \in 1 .. n : i < j => <<s[i], s[j]>> \in before
      /\ \A x \in S : \E i \in 1 .. n : s[i] = x
  BY SortedBy
<1>2. fetched = Fetched(s)
  OBVIOUS
<1> HIDE DEF s, n
<1>3. s \in Seq(S) /\ Len(s) = n
  BY <1>1
<1> DEFINE m == IF n > PageSize THEN PageSize + 1 ELSE n
           k == IF n > PageSize THEN PageSize ELSE n
<1>4. m \in Nat /\ k \in Nat /\ k <= m /\ m <= n
  BY <1>1, PageSizeAssumption
<1>5. fetched = SubSeq(s, 1, m)
  BY <1>2, <1>3 DEF Fetched
<1>6. /\ fetched \in Seq(S) /\ Len(fetched) = m
      /\ \A i \in 1 .. m : fetched[i] = s[i]
  <2>1. \A i \in 1 .. m : s[i] \in S
    BY <1>1, <1>4
  <2> HIDE DEF m
  <2> QED BY <1>4, <1>5, <2>1, SubSeqProperties
<1>7. More(fetched) <=> n > PageSize
  BY <1>1, <1>6, PageSizeAssumption DEF More
<1>8. page = SubSeq(fetched, 1, k)
  BY <1>1, <1>6, PageSizeAssumption DEF PageOf
<1>9. /\ page \in Seq(S) /\ Len(page) = k
      /\ \A i \in 1 .. k : page[i] = s[i]
  <2>1. \A i \in 1 .. k : fetched[i] \in S /\ fetched[i] = s[i]
    BY <1>1, <1>4, <1>6
  <2> HIDE DEF k
  <2> QED BY <1>4, <1>8, <2>1, SubSeqProperties
<1>10. DOMAIN page = 1 .. k
  BY <1>9
<1>11. More(fetched) => page # <<>> /\ k \in 1 .. n
  BY <1>1, <1>7, <1>9, PageSizeAssumption
<1>12. ASSUME NEW x \in S
       PROVE  \/ \E i \in DOMAIN page : page[i] = x
              \/ More(fetched) /\ <<page[Len(page)], x>> \in before
  <2>1. PICK i \in 1 .. n : s[i] = x
    BY <1>1
  <2>2. CASE i <= k
    BY <1>4, <1>9, <1>10, <2>1, <2>2
  <2>3. CASE i > k
    <3>1. More(fetched) /\ k \in 1 .. n
      BY <1>1, <1>7, <1>11, <2>3
    <3>2. <<s[k], s[i]>> \in before
      BY <1>1, <2>3, <3>1
    <3>3. page[Len(page)] = s[k]
      BY <1>9, <3>1
    <3> QED BY <2>1, <3>1, <3>2, <3>3
  <2> QED BY <1>4, <2>2, <2>3
<1>13. \A i, j \in DOMAIN page : i < j => <<page[i], page[j]>> \in before
  BY <1>1, <1>4, <1>9, <1>10
<1> QED BY <1>9, <1>11, <1>12, <1>13

------------------------------------------------------------------------------
(* ListIssues and GetIssue.                                                *)

(* What was stored when the read began is still stored.                    *)
KnownStays(read) ==
  /\ read.known.issues \subseteq IssuesOf(KeyWanted(read.want))
  /\ read.known.comments \subseteq CommentsUnder(KeyWanted(read.want))

(* What the Issue query found holds together and is still stored.          *)
FoundHolds(read) ==
  /\ read.known.issues \subseteq DOMAIN read.found
  /\ DOMAIN read.found \subseteq IssuesOf(KeyWanted(read.want))
  /\ read.want.kind = "get" => read.want.ref \in DOMAIN read.found
  /\ \A ref \in DOMAIN read.found : ValidIssue(read.found[ref])
  /\ ~MissingParent(read.found) /\ ~Looping(read.found)

(* What the answer says.                                                   *)
AnswerHolds(read) ==
  /\ read.answer \notin {"undecodable", "missingParent", "cycle", "notInProject"}
  /\ read.answer = "ok" =>
       /\ read.known.issues \subseteq DOMAIN read.found
       /\ read.known.comments \subseteq read.attached
       /\ DOMAIN read.found \subseteq IssuesOf(KeyWanted(read.want))
       /\ read.attached \subseteq CommentsUnder(KeyWanted(read.want))

UnderWay(read) ==
  /\ read = [step |-> read.step, want |-> read.want, found |-> read.found,
             known |-> read.known]
  /\ read.want \in ReadRequests /\ KnownStays(read)
  /\ read.step = "point" => read.want.kind = "get"
  /\ read.step \in {"project", "issues"} /\ read.want.kind = "get" =>
       Exists(issues, read.want.ref)
  /\ read.step = "comments" => FoundHolds(read)

ReadHolds(read) ==
  /\ read.step \in {"idle", "point", "project", "issues", "comments", "done"}
  /\ read.step \in {"point", "project", "issues", "comments"} => UnderWay(read)
  /\ read.step = "done" => AnswerHolds(read)

ReadsInv ==
  /\ DocsInv
  /\ reads = [r \in Readers |-> reads[r]]
  /\ \A r \in Readers : ReadHolds(reads[r])

(* What is stored of a Project only grows.                                 *)
LEMMA StoredGrows ==
  ASSUME DocsInv, Effect
  PROVE  /\ \A key : IssuesOf(key) \subseteq IssuesOf(key)'
         /\ \A key : CommentsUnder(key) \subseteq CommentsUnder(key)'
         /\ \A ref \in Refs : Exists(issues, ref) => Exists(issues', ref)
<1>1. /\ \A ref \in Refs : Exists(issues, ref) => Exists(issues', ref)
      /\ \A k \in CommentKeys : Exists(comments, k) => Exists(comments', k)
  BY HistoryAfterEffect DEF DocsInv
<1> QED BY <1>1 DEF IssuesOf, CommentsUnder

(* A read that is left alone holds after what others write.                *)
LEMMA ReadHoldsOn ==
  ASSUME DocsInv, Effect, NEW read, ReadHolds(read)
  PROVE  ReadHolds(read)'
<1>1. /\ \A key : IssuesOf(key) \subseteq IssuesOf(key)'
      /\ \A key : CommentsUnder(key) \subseteq CommentsUnder(key)'
      /\ \A ref \in Refs : Exists(issues, ref) => Exists(issues', ref)
  BY StoredGrows
<1>2. CASE read.step \in {"point", "project", "issues", "comments"}
  <2>1. UnderWay(read)
    BY <1>2 DEF ReadHolds
  <2>2. read.want.kind = "get" => read.want.ref \in Refs
    BY <2>1 DEF UnderWay, ReadRequests
  <2>3. KnownStays(read)'
    BY <1>1, <2>1 DEF UnderWay, KnownStays
  <2>4. FoundHolds(read) => FoundHolds(read)'
    BY <1>1 DEF FoundHolds
  <2>5. UnderWay(read)'
    BY <1>1, <2>1, <2>2, <2>3, <2>4 DEF UnderWay
  <2> QED BY <1>2, <2>5 DEF ReadHolds
<1>3. CASE read.step = "done"
  BY <1>1, <1>3 DEF ReadHolds, AnswerHolds
<1>4. CASE read.step = "idle"
  BY <1>4 DEF ReadHolds
<1> QED BY <1>2, <1>3, <1>4 DEF ReadHolds

(* A reader's step leaves the documents and the other reads alone.         *)
LEMMA OneReadMoves ==
  ASSUME ReadsInv, NEW r \in Readers, NEW read, ReadHolds(read),
         SetRead(r, read), UNCHANGED documents
  PROVE  ReadsInv'
<1>1. Effect
  BY DEF Effect, NothingChanged, documents
<1>2. DocsInv'
  BY <1>1, DocsInvKept DEF ReadsInv
<1>3. reads' = [e \in Readers |-> IF e = r THEN read ELSE reads[e]]
  BY DEF SetRead, ReadsInv
<1>4. \A e \in Readers : ReadHolds(reads[e])' <=> ReadHolds(reads'[e])
  BY DEF documents, ReadHolds, UnderWay, AnswerHolds, KnownStays, FoundHolds,
         IssuesOf, CommentsUnder
<1>5. \A e \in Readers : ReadHolds(reads'[e])
  BY <1>3 DEF ReadsInv
<1> QED BY <1>2, <1>3, <1>4, <1>5 DEF ReadsInv

LEMMA BeginHolds ==
  ASSUME ReadsInv, NEW r \in Readers, Begin(r)
  PROVE  ReadsInv'
<1>1. PICK want \in Wanted : SetRead(r, Reading(want, FirstLookup(want)))
  BY DEF Begin
<1>2. want \in ReadRequests
  BY WantedAssumption
<1> DEFINE new == Reading(want, FirstLookup(want))
<1>3. PICK read : read = new
  OBVIOUS
<1>4. /\ read.step = FirstLookup(want) /\ read.want = want
      /\ read.known.issues = IssuesOf(KeyWanted(want))
      /\ read.known.comments = CommentsUnder(KeyWanted(want))
  BY <1>3 DEF Reading
<1>5. read.step \in {"point", "project"} /\ (read.step = "point" <=> want.kind = "get")
  BY <1>4 DEF FirstLookup
<1>6. UnderWay(read)
  BY <1>2, <1>3, <1>4, <1>5 DEF UnderWay, KnownStays, Reading
<1>7. ReadHolds(read)
  BY <1>5, <1>6 DEF ReadHolds
<1>8. SetRead(r, read)
  BY <1>1, <1>3
<1> QED BY <1>7, <1>8, OneReadMoves DEF Begin

(* A read that only goes on to its next lookup, or ends refused.           *)
LEMMA LookupHolds ==
  ASSUME ReadsInv, NEW r \in Readers, UNCHANGED documents,
         UnderWay(reads[r]),
         NEW step, step \in {"project", "issues"},
         reads[r].want.kind = "get" => Exists(issues, reads[r].want.ref),
         ReadOn(r, step)
  PROVE  ReadsInv'
<1>1. PICK read : read = [reads[r] EXCEPT !.step = step]
  OBVIOUS
<1>2. /\ read.step = step /\ read.want = reads[r].want
      /\ read.known = reads[r].known /\ read.found = reads[r].found
      /\ read = [step |-> read.step, want |-> read.want, found |-> read.found,
                 known |-> read.known]
  BY <1>1 DEF UnderWay
<1>3. UnderWay(read)
  BY <1>2, Zenon DEF UnderWay, KnownStays
<1>4. ReadHolds(read)
  BY <1>2, <1>3 DEF ReadHolds
<1>5. SetRead(r, read)
  BY <1>1 DEF ReadOn
<1> QED BY <1>4, <1>5, OneReadMoves

LEMMA FinishHolds ==
  ASSUME ReadsInv, NEW r \in Readers, UNCHANGED documents,
         NEW answer, NEW attached, answer \in {"ok", "missingIssue", "notFound"},
         Finish(r, answer, attached),
         answer = "ok" =>
           /\ UnderWay(reads[r]) /\ FoundHolds(reads[r])
           /\ attached = CommentsUnder(KeyWanted(reads[r].want))
  PROVE  ReadsInv'
<1> DEFINE new == [step |-> "done", want |-> reads[r].want, known |-> reads[r].known,
                   answer |-> answer, found |-> reads[r].found, attached |-> attached]
<1>1. PICK read : read = new
  OBVIOUS
<1>2. /\ read.step = "done" /\ read.want = reads[r].want /\ read.known = reads[r].known
      /\ read.answer = answer /\ read.found = reads[r].found /\ read.attached = attached
  BY <1>1
<1>3. AnswerHolds(read)
  BY <1>2 DEF AnswerHolds, UnderWay, KnownStays, FoundHolds
<1>4. ReadHolds(read)
  BY <1>2, <1>3 DEF ReadHolds
<1>5. SetRead(r, read)
  BY <1>1 DEF Finish
<1> QED BY <1>4, <1>5, OneReadMoves

(* The Issue query sees one moment, at which parents exist and do not      *)
(* loop.                                                                   *)
LEMMA OneMoment ==
  ASSUME DocsInv, NEW key
  PROVE  /\ \A ref \in IssuesOf(key) : ValidIssue(IssuesFound(key)[ref])
         /\ ~MissingParent(IssuesFound(key)) /\ ~Looping(IssuesFound(key))
<1> DEFINE found == IssuesFound(key)
<1>1. DOMAIN found = IssuesOf(key) /\ \A ref \in IssuesOf(key) : found[ref] = issues[ref]
  BY DEF IssuesFound
<1>2. \A ref \in IssuesOf(key) :
        /\ ref \in Refs /\ KeyOf(ref) = key /\ Exists(issues, ref)
        /\ issues[ref] \in IssueDocs /\ ParentOf(issues, ref) = issues[ref].parent
  BY DEF IssuesOf, DocsInv, DocsTyped, Exists, ParentOf
<1>3. \A ref \in IssuesOf(key) : ValidIssue(issues[ref])
  BY <1>2 DEF DocsInv, StoredValid
<1>4. ASSUME NEW ref \in IssuesOf(key), issues[ref].parent # NoRef
      PROVE  issues[ref].parent \in IssuesOf(key)
  <2>1. Exists(issues, issues[ref].parent) /\ KeyOf(issues[ref].parent) = key
    BY <1>2, <1>4 DEF DocsInv, ParentsExist
  <2>2. issues[ref].parent \in Refs
    BY <1>2, <1>4 DEF IssueDocs
  <2> QED BY <2>1, <2>2 DEF IssuesOf
<1>5. ~MissingParent(found)
  BY <1>1, <1>4 DEF MissingParent
<1>6. ASSUME NEW S \in SUBSET IssuesOf(key), S # {}
      PROVE  \E ref \in S : issues[ref].parent \notin S
  <2>1. S \in SUBSET Refs
    BY <1>6, <1>2
  <2>2. PICK ref \in S : ParentOf(issues, ref) \notin S
    BY <1>6, <2>1 DEF DocsInv, Acyclic
  <2> QED BY <1>2, <2>2
<1>7. ~Looping(found)
  BY <1>1, <1>6 DEF Looping
<1> HIDE DEF found
<1> QED BY <1>1, <1>3, <1>5, <1>7 DEF found

LEMMA QueryTreeHolds ==
  ASSUME ReadsInv, NEW r \in Readers, QueryTree(r)
  PROVE  ReadsInv'
<1>1. PICK found : found = IssuesFound(KeyWanted(reads[r].want))
  OBVIOUS
<1>2. PICK read : read = [reads[r] EXCEPT !.step = "comments", !.found = found]
  OBVIOUS
<1>3. reads[r].step = "issues" /\ UnderWay(reads[r])
  BY DEF QueryTree, ReadsInv, ReadHolds
<1>4. /\ read.step = "comments" /\ read.want = reads[r].want
      /\ read.known = reads[r].known /\ read.found = found
      /\ read = [step |-> read.step, want |-> read.want, found |-> read.found,
                 known |-> read.known]
  BY <1>2, <1>3 DEF UnderWay
<1>5. DOMAIN found = IssuesOf(KeyWanted(read.want))
  BY <1>1, <1>4 DEF IssuesFound
<1>6. /\ \A ref \in DOMAIN found : ValidIssue(found[ref])
      /\ ~MissingParent(found) /\ ~Looping(found)
  BY <1>1, <1>4, <1>5, OneMoment DEF ReadsInv
<1>7. read.want.kind = "get" => read.want.ref \in DOMAIN found
  <2>1. SUFFICES ASSUME read.want.kind = "get"
                 PROVE  read.want.ref \in IssuesOf(KeyWanted(read.want))
    BY <1>5
  <2>2. read.want.ref \in Refs /\ Exists(issues, read.want.ref)
    BY <1>3, <1>4, <2>1 DEF UnderWay, ReadRequests
  <2> QED BY <2>1, <2>2 DEF IssuesOf, KeyWanted
<1>8. FoundHolds(read)
  BY <1>3, <1>4, <1>5, <1>6, <1>7 DEF FoundHolds, UnderWay, KnownStays
<1>9. UnderWay(read)
  BY <1>3, <1>4, <1>8 DEF UnderWay, KnownStays
<1>10. ReadHolds(read)
  BY <1>4, <1>9 DEF ReadHolds
<1>11. SetRead(r, read)
  BY <1>1, <1>2 DEF QueryTree
<1> QED BY <1>10, <1>11, OneReadMoves DEF QueryTree

LEMMA QueryCommentsHolds ==
  ASSUME ReadsInv, NEW r \in Readers, QueryComments(r)
  PROVE  ReadsInv'
<1> DEFINE attached == CommentsUnder(KeyWanted(reads[r].want))
           answer   == Reconstruct(reads[r].want, reads[r].found, attached)
<1>1. reads[r].step = "comments" /\ UnderWay(reads[r]) /\ FoundHolds(reads[r])
  BY DEF QueryComments, ReadsInv, ReadHolds, UnderWay
<1>2. \A k \in attached : ValidComment(comments[k])
  BY DEF CommentsUnder, ReadsInv, DocsInv, StoredValid
<1>3. ~Undecodable(reads[r].found, attached)
  BY <1>1, <1>2 DEF Undecodable, FoundHolds
<1>4. answer \in {"ok", "missingIssue"}
  BY <1>1, <1>3 DEF Reconstruct, FoundHolds
<1>5. Finish(r, answer, attached)
  BY DEF QueryComments
<1>6. PICK a, k : a = answer /\ k = attached
  OBVIOUS
<1> HIDE DEF answer, attached
<1>7. answer \in {"ok", "missingIssue", "notFound"} /\ Finish(r, a, k)
  BY <1>4, <1>5, <1>6
<1>8. a = "ok" => /\ UnderWay(reads[r]) /\ FoundHolds(reads[r])
                  /\ k = CommentsUnder(KeyWanted(reads[r].want))
  BY <1>1, <1>6 DEF attached
<1> QED BY <1>6, <1>7, <1>8, FinishHolds DEF QueryComments

LEMMA ReadsInvKept ==
  ASSUME ReadsInv, [ReadsNext]_readVars
  PROVE  ReadsInv'
<1>1. CASE UNCHANGED readVars
  <2>1. Effect
    BY <1>1 DEF readVars, documents, Effect, NothingChanged
  <2>2. DocsInv'
    BY <2>1, DocsInvKept DEF ReadsInv
  <2>3. \A r \in Readers : ReadHolds(reads[r])'
    BY <1>1 DEF ReadsInv, readVars, documents, ReadHolds, UnderWay, AnswerHolds,
                KnownStays, FoundHolds, IssuesOf, CommentsUnder
  <2> QED BY <1>1, <2>2, <2>3 DEF ReadsInv, readVars
<1>2. CASE WriteMeanwhile
  <2>1. PICK q \in Writes : Apply(Callback(Db, q))
    BY <1>2 DEF WriteMeanwhile
  <2>2. Effect
    BY <2>1, WritesAssumption, EffectOfCallback DEF ReadsInv, DocsInv
  <2>3. DocsInv'
    BY <2>2, DocsInvKept DEF ReadsInv
  <2>4. ASSUME NEW r \in Readers
        PROVE  ReadHolds(reads[r])'
    <3>1. PICK read : read = reads[r]
      OBVIOUS
    <3>2. reads'[r] = read
      BY <1>2, <3>1 DEF WriteMeanwhile
    <3>3. ReadHolds(read)'
      BY <2>2, <3>1, ReadHoldsOn DEF ReadsInv
    <3> QED BY <3>2, <3>3
  <2> QED BY <1>2, <2>3, <2>4 DEF ReadsInv, WriteMeanwhile
<1>3. ASSUME NEW r \in Readers, Begin(r) PROVE ReadsInv'
  BY <1>3, BeginHolds
<1>4. ASSUME NEW r \in Readers, PointReadIssue(r) PROVE ReadsInv'
  <2>1. UnderWay(reads[r]) /\ reads[r].want.kind = "get" /\ reads[r].want.ref \in Refs
    BY <1>4 DEF PointReadIssue, ReadsInv, ReadHolds, UnderWay, ReadRequests
  <2>2. Exists(issues, reads[r].want.ref) => ValidIssue(issues[reads[r].want.ref])
    BY <2>1 DEF ReadsInv, DocsInv, StoredValid
  <2>3. \/ Finish(r, "notFound", {})
        \/ Exists(issues, reads[r].want.ref) /\ ReadOn(r, "project")
    BY <1>4, <2>2 DEF PointReadIssue
  <2> QED BY <1>4, <2>1, <2>3, FinishHolds, LookupHolds DEF PointReadIssue
<1>5. ASSUME NEW r \in Readers, ReadProject(r) PROVE ReadsInv'
  <2>1. reads[r].step = "project" /\ UnderWay(reads[r])
    BY <1>5 DEF ReadProject, ReadsInv, ReadHolds
  <2>2. reads[r].want.kind = "get" => Exists(issues, reads[r].want.ref)
    BY <2>1 DEF UnderWay
  <2>3. Finish(r, "notFound", {}) \/ ReadOn(r, "issues")
    BY <1>5 DEF ReadProject
  <2> QED BY <1>5, <2>1, <2>2, <2>3, FinishHolds, LookupHolds DEF ReadProject
<1>6. ASSUME NEW r \in Readers, QueryTree(r) PROVE ReadsInv'
  BY <1>6, QueryTreeHolds
<1>7. ASSUME NEW r \in Readers, QueryComments(r) PROVE ReadsInv'
  BY <1>7, QueryCommentsHolds
<1> QED BY <1>1, <1>2, <1>3, <1>4, <1>5, <1>6, <1>7 DEF ReadsNext, ReadStep

LEMMA ReadsInductive == ReadsSpec => []ReadsInv
<1>1. ReadsInit => ReadsInv
  <2> SUFFICES ASSUME ReadsInit PROVE ReadsInv
    OBVIOUS
  <2>1. \A r \in Readers : reads[r].step = "idle"
    BY DEF ReadsInit, NotReading
  <2> QED BY <2>1, NothingStoredInv DEF ReadsInit, ReadsInv, ReadHolds
<1>2. ReadsInv /\ [ReadsNext]_readVars => ReadsInv'
  BY ReadsInvKept
<1> QED BY <1>1, <1>2, PTL DEF ReadsSpec

(* An answer of ListIssues or GetIssue holds everything that was stored    *)
(* when the call began and nothing that is not stored, although its pieces *)
(* are read at different moments.                                          *)
THEOREM ReadsAreComplete == ReadsSpec => []ReadsComplete
<1>1. ReadsInv => ReadsComplete
  BY DEF ReadsInv, ReadHolds, AnswerHolds, ReadsComplete, IsDone
<1> QED BY <1>1, ReadsInductive, PTL

(* No read of a Project calls its hierarchy or its documents corrupt.      *)
THEOREM ReadsBlameNothing == ReadsSpec => []HierarchyNeverBlamed
<1>1. ReadsInv => HierarchyNeverBlamed
  BY DEF ReadsInv, ReadHolds, AnswerHolds, HierarchyNeverBlamed, IsDone
<1> QED BY <1>1, ReadsInductive, PTL

------------------------------------------------------------------------------
(* Pages of Issues and of Projects.                                        *)

Listed(seq, ref) == \E i \in DOMAIN seq : seq[i].ref = ref
Once(seq, ref)   == \A i, j \in DOMAIN seq : seq[i].ref = ref /\ seq[j].ref = ref => i = j

(* The rest of the listing begins after this row.                          *)
AfterLast(pager, row) == pager.more /\ Precedes(pager.page[Len(pager.page)], row)

IssueWalkTyped(pager) ==
  /\ pager = [kind |-> "issues", step |-> pager.step, filter |-> pager.filter,
              cursor |-> pager.cursor, page |-> pager.page, more |-> pager.more,
              seen |-> pager.seen, steady |-> pager.steady]
  /\ pager.step \in {"project", "query", "projects", "parents", "paged", "end", "refused"}
  /\ pager.filter \in Filters /\ pager.cursor \in Cursors \cup {NoCursor}
  /\ pager.page \in Seq(Rows) /\ pager.seen \in Seq(Rows) /\ pager.more \in BOOLEAN
  /\ \A ref \in pager.steady : ref \in Refs /\ Exists(issues, ref)

(* Before the cursor: what is steady has been listed, and nothing beyond.  *)
WalkSplits(pager) ==
  /\ pager.cursor = NoCursor => pager.seen = <<>> /\ pager.step # "paged"
  /\ \A ref \in pager.steady :
       /\ Matches(ref, IF pager.cursor = NoCursor THEN pager.filter ELSE pager.cursor.filter)
       /\ Listed(pager.seen, ref) <=> ~Beyond(pager.cursor, Row(ref))

(* A page that is being checked: its relations are still stored, and it    *)
(* holds the next of what is steady.                                       *)
PageStands(pager) ==
  /\ CursorFits(pager.cursor, pager.filter)
  /\ pager.more => pager.page # <<>>
  /\ \A i \in DOMAIN pager.page :
       LET row == pager.page[i]
       IN  /\ Exists(issues, row.ref)
           /\ row.parent # NoRef =>
                Exists(issues, row.parent) /\ KeyOf(row.parent) = KeyOf(row.ref)
  /\ \A ref \in pager.steady :
       /\ Once(pager.page, ref)
       /\ Beyond(pager.cursor, Row(ref)) <=>
            Listed(pager.page, ref) \/ AfterLast(pager, Row(ref))
       /\ ~(Listed(pager.page, ref) /\ AfterLast(pager, Row(ref)))

IssueWalkHolds(pager) ==
  /\ IssueWalkTyped(pager)
  /\ \A ref \in pager.steady : Once(pager.seen, ref)
  /\ pager.step \notin {"end", "refused"} => WalkSplits(pager)
  /\ pager.step \in {"projects", "parents"} => PageStands(pager)
  /\ pager.step = "end" => \A ref \in pager.steady : Listed(pager.seen, ref)

ProjectWalkHolds(pager) ==
  /\ pager = [kind |-> "projects", step |-> pager.step, cursor |-> pager.cursor,
              seen |-> pager.seen, steady |-> pager.steady]
  /\ pager.step \in {"query", "end"}
  /\ pager.cursor \in Keys \cup {NoCursor} /\ pager.seen \in Seq(Keys)
  /\ \A key \in pager.steady : key \in Keys /\ projects[key] # 0
  /\ \A i, j \in DOMAIN pager.seen : i < j => pager.seen[i] < pager.seen[j]
  /\ pager.step = "query" =>
       /\ pager.cursor = NoCursor => pager.seen = <<>>
       /\ pager.cursor # NoCursor =>
            /\ \A i \in DOMAIN pager.seen : pager.seen[i] <= pager.cursor
            /\ \A key \in pager.steady :
                 key <= pager.cursor => \E i \in DOMAIN pager.seen : pager.seen[i] = key
  /\ pager.step = "end" =>
       \A key \in pager.steady : \E i \in DOMAIN pager.seen : pager.seen[i] = key

PagerHolds(pager) ==
  \/ pager = NotPaging
  \/ pager # NotPaging /\ pager.kind = "issues" /\ IssueWalkHolds(pager)
  \/ pager # NotPaging /\ pager.kind = "projects" /\ ProjectWalkHolds(pager)

PagesInv ==
  /\ DocsInv
  /\ pagers = [p \in Pagers |-> pagers[p]]
  /\ \A p \in Pagers : PagerHolds(pagers[p])

(* The order of the rows.                                                  *)
LEMMA PrecedesOrders ==
  ASSUME NEW a \in Rows, NEW b \in Rows, NEW c \in Rows
  PROVE  /\ ~Precedes(a, a)
         /\ Precedes(a, b) /\ Precedes(b, c) => Precedes(a, c)
         /\ a.ref # b.ref => Precedes(a, b) \/ Precedes(b, a)
<1>1. ASSUME NEW row \in Rows
      PROVE  /\ row.updated \in Nat /\ KeyOf(row.ref) \in Nat /\ row.ref[2] \in Nat
             /\ row.ref = <<KeyOf(row.ref), row.ref[2]>>
  <2>1. row.updated \in Nat /\ row.ref \in Keys \X Numbers
    BY DEF Rows, Refs
  <2>2. PICK key \in Keys, number \in Numbers : row.ref = <<key, number>>
    BY <2>1
  <2>3. key \in Nat /\ number \in Nat
    BY KeysAssumption, MaxNumberAssumption DEF Numbers
  <2> QED BY <2>1, <2>2, <2>3 DEF KeyOf
<1>2. /\ ~Precedes(a, a)
      /\ Precedes(a, b) /\ Precedes(b, c) => Precedes(a, c)
  BY <1>1 DEF Precedes
<1>3. ASSUME a.ref # b.ref
      PROVE  Precedes(a, b) \/ Precedes(b, a)
  <2>1. KeyOf(a.ref) # KeyOf(b.ref) \/ a.ref[2] # b.ref[2]
    BY <1>1, <1>3
  <2>2. /\ a.updated \in Nat /\ KeyOf(a.ref) \in Nat /\ a.ref[2] \in Nat
        /\ b.updated \in Nat /\ KeyOf(b.ref) \in Nat /\ b.ref[2] \in Nat
    BY <1>1
  <2> QED BY <2>1, <2>2 DEF Precedes
<1> QED BY <1>2, <1>3

LEMMA RowsSorted ==
  ASSUME NEW S \in SUBSET Rows, \A a, b \in S : a.ref = b.ref => a = b
  PROVE  Ordering(S, ByUpdate(S))
<1>1. \A a, b \in S : <<a, b>> \in ByUpdate(S) <=> Precedes(a, b)
  BY DEF ByUpdate
<1>2. \A a \in S : a \in Rows
  OBVIOUS
<1> QED BY <1>1, <1>2, PrecedesOrders DEF Ordering

LEMMA KeysSorted ==
  ASSUME NEW S \in SUBSET Keys
  PROVE  Ordering(S, ByKey(S))
<1>1. \A a, b \in S : <<a, b>> \in ByKey(S) <=> a < b
  BY DEF ByKey
<1>2. \A a \in S : a \in Nat
  BY KeysAssumption
<1> QED BY <1>1, <1>2 DEF Ordering

(* A listing is finite and shows each Issue once, as it is.                *)
LEMMA RowsListed ==
  ASSUME DocsTyped, NEW filter, NEW cursor
  PROVE  /\ IsFiniteSet(IssueRows(filter, cursor))
         /\ IssueRows(filter, cursor) \in SUBSET Rows
         /\ \A ref \in Refs : Exists(issues, ref) => Row(ref) \in Rows /\ Row(ref).ref = ref
         /\ \A row \in IssueRows(filter, cursor) :
              /\ row.ref \in Refs /\ Matches(row.ref, filter)
              /\ row = Row(row.ref) /\ Beyond(cursor, row)
         /\ \A ref \in Refs :
              Matches(ref, filter) /\ Beyond(cursor, Row(ref)) =>
                Row(ref) \in IssueRows(filter, cursor)
<1>1. ASSUME NEW ref \in Refs, Exists(issues, ref)
      PROVE  Row(ref) \in Rows /\ Row(ref).ref = ref
  <2>1. issues[ref] \in IssueDocs
    BY <1>1 DEF DocsTyped, Exists
  <2>2. issues[ref].updated \in Nat /\ issues[ref].parent \in Refs \cup {NoRef}
    BY <2>1 DEF IssueDocs
  <2> QED BY <2>2 DEF Row, Rows
<1> DEFINE T == {ref \in Refs : Matches(ref, filter)}
           U == {Row(ref) : ref \in T}
           f == [ref \in T |-> Row(ref)]
<1>2. IsFiniteSet(T)
  <2>1. IsFiniteSet(Numbers)
    BY MaxNumberAssumption, FS_Interval DEF Numbers
  <2>2. IsFiniteSet(Refs)
    BY <2>1, KeysAssumption, FS_Product DEF Refs
  <2>3. T \in SUBSET Refs
    OBVIOUS
  <2> HIDE DEF T
  <2> QED BY <2>2, <2>3, FS_Subset
<1>3. IsFiniteSet(U)
  <2>1. f \in Surjection(T, U)
    BY DEF Surjection
  <2> HIDE DEF T, U, f
  <2> QED BY <1>2, <2>1, FS_Surjection
<1>4. IssueRows(filter, cursor) \in SUBSET U
  BY DEF IssueRows
<1>5. IsFiniteSet(IssueRows(filter, cursor))
  <2> HIDE DEF U
  <2> QED BY <1>3, <1>4, FS_Subset
<1>6. ASSUME NEW row \in IssueRows(filter, cursor)
      PROVE  /\ row \in Rows /\ row.ref \in Refs /\ Matches(row.ref, filter)
             /\ row = Row(row.ref) /\ Beyond(cursor, row)
  <2>1. PICK ref \in Refs : Matches(ref, filter) /\ row = Row(ref)
    BY DEF IssueRows
  <2>2. Row(ref) \in Rows /\ Row(ref).ref = ref
    BY <1>1, <2>1 DEF Matches
  <2>3. Beyond(cursor, row)
    BY DEF IssueRows
  <2> QED BY <2>1, <2>2, <2>3
<1>7. ASSUME NEW ref \in Refs, Matches(ref, filter), Beyond(cursor, Row(ref))
      PROVE  Row(ref) \in IssueRows(filter, cursor)
  BY <1>7 DEF IssueRows
<1> QED BY <1>1, <1>5, <1>6, <1>7

(* A page of Issues, right after its query.                                *)
LEMMA PageQueried ==
  ASSUME DocsInv, NEW filter, NEW cursor \in Cursors \cup {NoCursor},
         NEW fetched,
         fetched = Fetched(Sorted(IssueRows(filter, cursor), ByUpdate(IssueRows(filter, cursor)))),
         NEW page, page = PageOf(fetched), NEW more, more = More(fetched)
  PROVE  /\ page \in Seq(Rows)
         /\ more => page # <<>>
         /\ \A i \in DOMAIN page :
              /\ page[i].ref \in Refs /\ Exists(issues, page[i].ref)
              /\ page[i] = Row(page[i].ref)
         /\ \A ref \in Refs : Matches(ref, filter) =>
              /\ Once(page, ref)
              /\ Beyond(cursor, Row(ref)) <=>
                   Listed(page, ref) \/ (more /\ Precedes(page[Len(page)], Row(ref)))
              /\ ~(Listed(page, ref) /\ more /\ Precedes(page[Len(page)], Row(ref)))
<1> DEFINE rows == IssueRows(filter, cursor)
<1>1. /\ IsFiniteSet(rows) /\ rows \in SUBSET Rows
      /\ \A ref \in Refs : Exists(issues, ref) => Row(ref) \in Rows /\ Row(ref).ref = ref
      /\ \A row \in rows :
           /\ row.ref \in Refs /\ Matches(row.ref, filter)
           /\ row = Row(row.ref) /\ Beyond(cursor, row)
      /\ \A ref \in Refs :
           Matches(ref, filter) /\ Beyond(cursor, Row(ref)) => Row(ref) \in rows
  BY RowsListed DEF DocsInv
<1>2. fetched = Fetched(Sorted(rows, ByUpdate(rows)))
  OBVIOUS
<1> HIDE DEF rows
<1>3. Ordering(rows, ByUpdate(rows))
  BY <1>1, RowsSorted
<1>4. /\ page \in Seq(rows)
      /\ \A i, j \in DOMAIN page : i < j => <<page[i], page[j]>> \in ByUpdate(rows)
      /\ more => page # <<>>
      /\ \A x \in rows : \/ \E i \in DOMAIN page : page[i] = x
                         \/ more /\ <<page[Len(page)], x>> \in ByUpdate(rows)
  BY <1>1, <1>2, <1>3, PageHolds
<1>5. /\ Len(page) \in Nat /\ DOMAIN page = 1 .. Len(page)
      /\ \A i \in DOMAIN page : page[i] \in rows
  BY <1>4
<1>6. page \in Seq(Rows)
  BY <1>1, <1>4, SeqMonotonic
<1>7. /\ \A i, j \in DOMAIN page : i < j => Precedes(page[i], page[j])
      /\ \A x \in rows : \/ \E i \in DOMAIN page : page[i] = x
                         \/ more /\ Precedes(page[Len(page)], x)
  <2>1. \A a, b : <<a, b>> \in ByUpdate(rows) => Precedes(a, b)
    BY DEF ByUpdate
  <2> QED BY <1>4, <2>1
<1>8. ASSUME NEW ref \in Refs, Matches(ref, filter)
      PROVE  /\ Once(page, ref)
             /\ Beyond(cursor, Row(ref)) <=>
                  Listed(page, ref) \/ (more /\ Precedes(page[Len(page)], Row(ref)))
             /\ ~(Listed(page, ref) /\ more /\ Precedes(page[Len(page)], Row(ref)))
  <2>1. Row(ref) \in Rows /\ Row(ref).ref = ref
    BY <1>1, <1>8 DEF Matches
  <2>2. \A i \in DOMAIN page : page[i].ref = ref => page[i] = Row(ref)
    BY <1>1, <1>5
  <2>3. \A row \in rows : row \in Rows
    BY <1>1
  <2>4. Once(page, ref)
    <3> SUFFICES ASSUME NEW i \in DOMAIN page, NEW j \in DOMAIN page,
                        page[i].ref = ref, page[j].ref = ref, i # j
                 PROVE  FALSE
      BY DEF Once
    <3>1. i < j \/ j < i
      BY <1>5
    <3>2. Precedes(Row(ref), Row(ref))
      BY <1>7, <2>2, <3>1
    <3> QED BY <2>1, <3>2, PrecedesOrders
  <2>5. ASSUME Beyond(cursor, Row(ref))
        PROVE  Listed(page, ref) \/ (more /\ Precedes(page[Len(page)], Row(ref)))
    <3>1. Row(ref) \in rows
      BY <1>1, <1>8, <2>5
    <3> QED BY <1>7, <2>1, <3>1 DEF Listed
  <2>6. ASSUME Listed(page, ref)
        PROVE  Beyond(cursor, Row(ref))
    <3>1. PICK i \in DOMAIN page : page[i].ref = ref
      BY <2>6 DEF Listed
    <3>2. page[i] = Row(ref) /\ page[i] \in rows
      BY <1>5, <2>2, <3>1
    <3> QED BY <1>1, <3>2
  <2>7. ASSUME more, Precedes(page[Len(page)], Row(ref))
        PROVE  Beyond(cursor, Row(ref)) /\ ~Listed(page, ref)
    <3> DEFINE last == page[Len(page)]
    <3>1. Len(page) \in DOMAIN page
      BY <1>4, <1>5, <1>6, <2>7
    <3>2. last \in rows /\ last \in Rows /\ Beyond(cursor, last)
      BY <1>1, <1>5, <3>1
    <3>3. Precedes(last, Row(ref))
      BY <2>7
    <3>4. \A i \in DOMAIN page : i < Len(page) => Precedes(page[i], last)
      BY <1>7, <3>1
    <3> HIDE DEF last
    <3>5. Beyond(cursor, Row(ref))
      <4>1. CASE cursor = NoCursor
        BY <4>1 DEF Beyond
      <4>2. CASE cursor # NoCursor
        <5>1. cursor.row \in Rows /\ Precedes(cursor.row, last)
          BY <3>2, <4>2 DEF Beyond, Cursors
        <5> QED BY <2>1, <3>2, <3>3, <5>1, PrecedesOrders DEF Beyond
      <4> QED BY <4>1, <4>2
    <3>6. ASSUME Listed(page, ref) PROVE FALSE
      <4>1. PICK i \in DOMAIN page : page[i].ref = ref
        BY <3>6 DEF Listed
      <4>2. page[i] = Row(ref)
        BY <2>2, <4>1
      <4>3. i < Len(page) \/ i = Len(page)
        BY <1>5
      <4>4. Precedes(Row(ref), last) \/ Row(ref) = last
        BY <3>4, <4>2, <4>3 DEF last
      <4>5. Precedes(last, last)
        BY <2>1, <3>2, <3>3, <4>4, PrecedesOrders
      <4> QED BY <3>2, <4>5, PrecedesOrders
    <3> QED BY <3>5, <3>6
  <2> QED BY <2>4, <2>5, <2>6, <2>7
<1>9. \A i \in DOMAIN page :
        /\ page[i].ref \in Refs /\ Exists(issues, page[i].ref)
        /\ page[i] = Row(page[i].ref)
  BY <1>1, <1>5 DEF Matches
<1> QED BY <1>4, <1>6, <1>8, <1>9

------------------------------------------------------------------------------
(* A reader's step leaves the documents and the other walks alone.         *)
LEMMA OneWalkMoves ==
  ASSUME PagesInv, NEW p \in Pagers, NEW pager, PagerHolds(pager),
         SetPager(p, pager), UNCHANGED documents
  PROVE  PagesInv'
<1>1. Effect
  BY DEF Effect, NothingChanged, documents
<1>2. DocsInv'
  BY <1>1, DocsInvKept DEF PagesInv
<1>3. pagers' = [e \in Pagers |-> IF e = p THEN pager ELSE pagers[e]]
  BY DEF SetPager, PagesInv
<1>4. ASSUME NEW e \in Pagers
      PROVE  PagerHolds(pagers[e])'
  <2>1. PICK walk : walk = pagers'[e]
    OBVIOUS
  <2>2. PagerHolds(walk)
    BY <1>3, <2>1 DEF PagesInv
  <2>3. PagerHolds(walk)' <=> PagerHolds(walk)
    BY DEF documents, PagerHolds, IssueWalkHolds, IssueWalkTyped, WalkSplits, PageStands,
           ProjectWalkHolds, Matches, Row
  <2> QED BY <2>1, <2>2, <2>3
<1> QED BY <1>2, <1>3, <1>4 DEF PagesInv

(* A walk holds after what others write between two of its requests.       *)
LEMMA IssueWalkHoldsOn ==
  ASSUME DocsInv, Effect, NEW pager, IssueWalkHolds(pager), NEW rewritten,
         \A ref \in Refs : ref \notin rewritten => issues'[ref] = issues[ref],
         NEW after, after = [pager EXCEPT !.steady = @ \ rewritten]
  PROVE  IssueWalkHolds(after)'
<1>1. /\ after.step = pager.step /\ after.filter = pager.filter
      /\ after.cursor = pager.cursor /\ after.page = pager.page
      /\ after.more = pager.more /\ after.seen = pager.seen
      /\ after.kind = "issues" /\ after.steady = pager.steady \ rewritten
      /\ after = [kind |-> "issues", step |-> after.step, filter |-> after.filter,
                  cursor |-> after.cursor, page |-> after.page, more |-> after.more,
                  seen |-> after.seen, steady |-> after.steady]
  <2>1. pager = [kind |-> "issues", step |-> pager.step, filter |-> pager.filter,
                 cursor |-> pager.cursor, page |-> pager.page, more |-> pager.more,
                 seen |-> pager.seen, steady |-> pager.steady]
    BY DEF IssueWalkHolds, IssueWalkTyped
  <2>2. after = [kind |-> "issues", step |-> pager.step, filter |-> pager.filter,
                 cursor |-> pager.cursor, page |-> pager.page, more |-> pager.more,
                 seen |-> pager.seen, steady |-> pager.steady \ rewritten]
    BY <2>1
  <2>3. PICK steady : steady = pager.steady \ rewritten
    OBVIOUS
  <2>4. /\ after.step = pager.step /\ after.filter = pager.filter
        /\ after.cursor = pager.cursor /\ after.page = pager.page
        /\ after.more = pager.more /\ after.seen = pager.seen
        /\ after.kind = "issues" /\ after.steady = steady
    BY <2>2, <2>3
  <2> QED BY <2>2, <2>3, <2>4
<1>2. ASSUME NEW ref \in after.steady
      PROVE  /\ ref \in pager.steady /\ ref \in Refs
             /\ Exists(issues, ref) /\ Exists(issues', ref)
             /\ Row(ref)' = Row(ref)
             /\ \A filter : Matches(ref, filter)' <=> Matches(ref, filter)
  <2>1. ref \in pager.steady /\ ref \notin rewritten
    BY <1>1
  <2>2. ref \in Refs /\ Exists(issues, ref)
    BY <2>1 DEF IssueWalkHolds, IssueWalkTyped
  <2>3. issues'[ref] = issues[ref]
    BY <2>1, <2>2
  <2> QED BY <2>1, <2>2, <2>3 DEF Exists, Row, Matches
<1>3. \A ref \in Refs : Exists(issues, ref) => Exists(issues', ref)
  BY HistoryAfterEffect DEF DocsInv
<1>4. IssueWalkTyped(after)'
  BY <1>1, <1>2 DEF IssueWalkHolds, IssueWalkTyped
<1>5. WalkSplits(pager) => WalkSplits(after)'
  BY <1>1, <1>2 DEF WalkSplits
<1>6. PageStands(pager) => PageStands(after)'
  <2>1. \A i \in DOMAIN pager.page :
          pager.page[i].ref \in Refs /\ pager.page[i].parent \in Refs \cup {NoRef}
    <3>1. pager.page \in Seq(Rows)
      BY DEF IssueWalkHolds, IssueWalkTyped
    <3>2. \A i \in DOMAIN pager.page : pager.page[i] \in Rows
      BY <3>1
    <3> QED BY <3>2 DEF Rows
  <2> SUFFICES ASSUME PageStands(pager) PROVE PageStands(after)'
    OBVIOUS
  <2>3. \A i \in DOMAIN after.page :
          LET row == after.page[i]
          IN  /\ Exists(issues', row.ref)
              /\ row.parent # NoRef =>
                   Exists(issues', row.parent) /\ KeyOf(row.parent) = KeyOf(row.ref)
    BY <1>1, <1>3, <2>1 DEF PageStands
  <2>4. ASSUME NEW ref \in after.steady
        PROVE  /\ Once(after.page, ref)
               /\ Beyond(after.cursor, Row(ref)') <=>
                    Listed(after.page, ref) \/ AfterLast(after, Row(ref)')
               /\ ~(Listed(after.page, ref) /\ AfterLast(after, Row(ref)'))
    <3>1. ref \in pager.steady /\ Row(ref)' = Row(ref)
      BY <1>2
    <3>2. /\ Once(pager.page, ref)
          /\ Beyond(pager.cursor, Row(ref)) <=>
               Listed(pager.page, ref) \/ AfterLast(pager, Row(ref))
          /\ ~(Listed(pager.page, ref) /\ AfterLast(pager, Row(ref)))
      BY <3>1 DEF PageStands
    <3>3. AfterLast(after, Row(ref)) <=> AfterLast(pager, Row(ref))
      BY <1>1 DEF AfterLast
    <3> QED BY <1>1, <3>1, <3>2, <3>3
  <2>5. CursorFits(after.cursor, after.filter) /\ (after.more => after.page # <<>>)
    BY <1>1 DEF PageStands
  <2> QED BY <2>3, <2>4, <2>5 DEF PageStands, AfterLast
<1> QED BY <1>1, <1>2, <1>4, <1>5, <1>6 DEF IssueWalkHolds

LEMMA ProjectWalkHoldsOn ==
  ASSUME DocsInv, Effect, NEW pager, ProjectWalkHolds(pager)
  PROVE  ProjectWalkHolds(pager)'
<1>1. \A key \in Keys : projects[key] # 0 => projects'[key] # 0
  <2>1. \A key \in Keys : projects[key] <= projects'[key]
    BY HistoryAfterEffect DEF DocsInv
  <2>2. DocsTyped /\ DocsTyped'
    BY DocsInvKept DEF DocsInv
  <2>3. \A key \in Keys : projects[key] \in Nat /\ projects'[key] \in Nat
    BY <2>2, MaxNumberAssumption DEF DocsTyped
  <2> QED BY <2>1, <2>3
<1> QED BY <1>1 DEF ProjectWalkHolds

LEMMA WriteBetweenPagesHolds ==
  ASSUME PagesInv, WriteBetweenPages
  PROVE  PagesInv'
<1>1. PICK q \in Offered :
        /\ Apply(Callback(Db, q))
        /\ pagers' = [p \in Pagers |->
             IF pagers[p] = NotPaging \/ pagers[p].kind = "projects" THEN pagers[p]
             ELSE [pagers[p] EXCEPT !.steady = @ \ DOMAIN Callback(Db, q).issues]]
  BY DEF WriteBetweenPages
<1>2. PICK out : out = Callback(Db, q)
  OBVIOUS
<1>3. Effect
  BY <1>1, OfferedAssumption, EffectOfCallback DEF PagesInv, DocsInv
<1>4. DocsInv'
  BY <1>3, DocsInvKept DEF PagesInv
<1>5. PICK rewritten : rewritten = DOMAIN out.issues
  OBVIOUS
<1>6. \A ref \in Refs : ref \notin rewritten => issues'[ref] = issues[ref]
  <2>1. issues' = After(issues, out.issues) /\ DOMAIN issues = Refs
    BY <1>1, <1>2 DEF Apply, PagesInv, DocsInv, DocsTyped
  <2> QED BY <1>5, <2>1 DEF After
<1>7. ASSUME NEW p \in Pagers
      PROVE  PagerHolds(pagers[p])'
  <2>1. PICK pager : pager = pagers[p]
    OBVIOUS
  <2>2. PagerHolds(pager)
    BY <2>1 DEF PagesInv
  <2>3. PICK after : after = pagers'[p]
    OBVIOUS
  <2>4. after = IF pager = NotPaging \/ pager.kind = "projects" THEN pager
                ELSE [pager EXCEPT !.steady = @ \ rewritten]
    BY <1>1, <1>2, <1>5, <2>1, <2>3
  <2>5. CASE pager = NotPaging
    <3>1. PagerHolds(after)'
      BY <2>4, <2>5 DEF PagerHolds
    <3> QED BY <2>3, <3>1
  <2>6. CASE pager # NotPaging /\ pager.kind = "projects"
    <3>1. ProjectWalkHolds(pager)
      BY <2>2, <2>6 DEF PagerHolds
    <3>2. ProjectWalkHolds(pager)'
      BY <1>3, <3>1, ProjectWalkHoldsOn DEF PagesInv
    <3>3. PagerHolds(after)'
      BY <2>4, <2>6, <3>2 DEF PagerHolds
    <3> QED BY <2>3, <3>3
  <2>7. CASE pager # NotPaging /\ pager.kind = "issues"
    <3>1. IssueWalkHolds(pager)
      BY <2>2, <2>7 DEF PagerHolds
    <3>2. after = [pager EXCEPT !.steady = @ \ rewritten]
      BY <2>4, <2>7
    <3>3. IssueWalkHolds(after)'
      BY <1>3, <1>6, <3>1, <3>2, IssueWalkHoldsOn DEF PagesInv
    <3>4. after.kind = "issues" /\ after.step # "idle"
      BY <3>1, <3>2 DEF IssueWalkHolds, IssueWalkTyped
    <3>5. after # NotPaging
      BY <3>4 DEF NotPaging
    <3>6. PagerHolds(after)'
      BY <3>3, <3>4, <3>5 DEF PagerHolds
    <3> QED BY <2>3, <3>6
  <2> QED BY <2>2, <2>5, <2>6, <2>7 DEF PagerHolds
<1> QED BY <1>1, <1>4, <1>7 DEF PagesInv

(* A walk that is under way at one of its steps.                           *)
LEMMA IssueWalkAt ==
  ASSUME PagesInv, NEW p \in Pagers, NEW step,
         step \in {"project", "query", "projects", "parents", "paged"},
         IsPaging(p, "issues", step)
  PROVE  IssueWalkHolds(pagers[p]) /\ WalkSplits(pagers[p])
<1>1. PagerHolds(pagers[p])
  BY DEF PagesInv
<1>2. pagers[p] # NotPaging /\ pagers[p].kind # "projects"
  BY DEF NotPaging, IsPaging
<1> QED BY <1>1, <1>2 DEF PagerHolds, IssueWalkHolds, IsPaging

(* A walk that only goes on to its next lookup, or ends refused.           *)
LEMMA PageOnHolds ==
  ASSUME PagesInv, NEW p \in Pagers, IssueWalkHolds(pagers[p]), WalkSplits(pagers[p]),
         NEW step, step \in {"query", "parents", "refused"},
         step = "parents" => PageStands(pagers[p]),
         PageOn(p, step), UNCHANGED documents
  PROVE  PagesInv'
<1>1. PICK old : old = pagers[p]
  OBVIOUS
<1>2. PICK pager : pager = [old EXCEPT !.step = step]
  OBVIOUS
<1>3. IssueWalkHolds(old) /\ WalkSplits(old) /\ (step = "parents" => PageStands(old))
  BY <1>1
<1>4. /\ pager.step = step /\ pager.filter = old.filter
      /\ pager.cursor = old.cursor /\ pager.page = old.page
      /\ pager.more = old.more /\ pager.seen = old.seen
      /\ pager.kind = "issues" /\ pager.steady = old.steady
      /\ pager = [kind |-> "issues", step |-> pager.step, filter |-> pager.filter,
                  cursor |-> pager.cursor, page |-> pager.page, more |-> pager.more,
                  seen |-> pager.seen, steady |-> pager.steady]
  BY <1>2, <1>3 DEF IssueWalkHolds, IssueWalkTyped
<1>5. IssueWalkTyped(pager)
  BY <1>3, <1>4 DEF IssueWalkHolds, IssueWalkTyped
<1>6. WalkSplits(pager)
  BY <1>3, <1>4 DEF WalkSplits
<1>7. PageStands(old) => PageStands(pager)
  BY <1>4 DEF PageStands, AfterLast
<1>8. IssueWalkHolds(pager)
  BY <1>3, <1>4, <1>5, <1>6, <1>7 DEF IssueWalkHolds
<1>9. PagerHolds(pager)
  <2>1. pager # NotPaging
    BY <1>4 DEF NotPaging
  <2> QED BY <1>4, <1>8, <2>1 DEF PagerHolds
<1>10. SetPager(p, pager)
  BY <1>1, <1>2 DEF PageOn
<1> QED BY <1>9, <1>10, OneWalkMoves

(* A new walk over the Issues of one Project or of all.                    *)
LEMMA BeginIssuesHolds ==
  ASSUME PagesInv, NEW p \in Pagers, BeginIssues(p)
  PROVE  PagesInv'
<1>1. PICK filter \in Filters : SetPager(p, PagingIssues(filter, FirstPageStep(filter)))
  BY DEF BeginIssues
<1>2. PICK pager : pager = PagingIssues(filter, FirstPageStep(filter))
  OBVIOUS
<1>3. PICK steady : steady = {ref \in Refs : Matches(ref, filter)}
  OBVIOUS
<1>4. /\ pager.step = FirstPageStep(filter) /\ pager.filter = filter
      /\ pager.cursor = NoCursor /\ pager.page = <<>>
      /\ pager.more = FALSE /\ pager.seen = <<>>
      /\ pager.kind = "issues" /\ pager.steady = steady
      /\ pager = [kind |-> "issues", step |-> pager.step, filter |-> pager.filter,
                  cursor |-> pager.cursor, page |-> pager.page, more |-> pager.more,
                  seen |-> pager.seen, steady |-> pager.steady]
  BY <1>2, <1>3 DEF PagingIssues
<1>5. pager.step \in {"query", "project"}
  BY <1>4 DEF FirstPageStep
<1>6. \A ref \in steady : ref \in Refs /\ Matches(ref, filter) /\ Exists(issues, ref)
  BY <1>3 DEF Matches
<1>7. \A ref : ~Listed(<<>>, ref) /\ Once(<<>>, ref)
  BY DEF Listed, Once
<1>8. IssueWalkTyped(pager)
  <2>1. <<>> \in Seq(Rows) /\ pager.page = <<>> /\ pager.seen = <<>>
    BY <1>4
  <2>2. pager.page \in Seq(Rows) /\ pager.seen \in Seq(Rows)
    BY <2>1
  <2>3. /\ pager.filter \in Filters /\ pager.cursor \in Cursors \cup {NoCursor}
        /\ pager.more \in BOOLEAN
    BY <1>4
  <2>4. \A ref \in pager.steady : ref \in Refs /\ Exists(issues, ref)
    BY <1>4, <1>6
  <2>5. pager = [kind |-> "issues", step |-> pager.step, filter |-> pager.filter,
                 cursor |-> pager.cursor, page |-> pager.page, more |-> pager.more,
                 seen |-> pager.seen, steady |-> pager.steady]
    BY <1>4
  <2> QED BY <1>5, <2>2, <2>3, <2>4, <2>5 DEF IssueWalkTyped
<1>9. WalkSplits(pager)
  BY <1>4, <1>5, <1>6, <1>7 DEF WalkSplits, Beyond
<1>10. IssueWalkHolds(pager)
  BY <1>4, <1>5, <1>7, <1>8, <1>9 DEF IssueWalkHolds
<1>11. PagerHolds(pager)
  <2>1. pager # NotPaging
    BY <1>5 DEF NotPaging
  <2> QED BY <1>4, <1>10, <2>1 DEF PagerHolds
<1>12. SetPager(p, pager) /\ UNCHANGED documents
  BY <1>1, <1>2 DEF BeginIssues
<1> QED BY <1>11, <1>12, OneWalkMoves

(* What is steady is in the listing that the page is queried from.         *)
LEMMA SteadyMatches ==
  ASSUME NEW pager, WalkSplits(pager), CursorFits(pager.cursor, pager.filter)
  PROVE  \A ref \in pager.steady : Matches(ref, pager.filter)
BY DEF WalkSplits, CursorFits

LEMMA QueryPageHolds ==
  ASSUME PagesInv, NEW p \in Pagers, QueryPage(p)
  PROVE  PagesInv'
<1>1. PICK old : old = pagers[p]
  OBVIOUS
<1>2. IssueWalkHolds(old) /\ WalkSplits(old)
  BY <1>1, IssueWalkAt DEF QueryPage
<1>3. UNCHANGED documents
  BY DEF QueryPage
<1>4. PICK rows : rows = IssueRows(old.filter, old.cursor)
  OBVIOUS
<1>5. PICK fetched : fetched = Fetched(Sorted(rows, ByUpdate(rows)))
  OBVIOUS
<1>6. PICK page : page = PageOf(fetched)
  OBVIOUS
<1>7. PICK more : more = More(fetched)
  OBVIOUS
<1>8. IF ~CursorFits(old.cursor, old.filter) THEN PageOn(p, "refused")
      ELSE IF \E i \in DOMAIN page : ~ValidIssue(issues[page[i].ref])
      THEN PageOn(p, "internal")
      ELSE SetPager(p, [old EXCEPT !.step = "projects", !.page = page, !.more = more])
  BY <1>1, <1>4, <1>5, <1>6, <1>7 DEF QueryPage
<1>9. CASE ~CursorFits(old.cursor, old.filter)
  <2>1. PageOn(p, "refused")
    BY <1>8, <1>9
  <2> QED BY <1>1, <1>2, <1>3, <2>1, PageOnHolds
<1>10. CASE CursorFits(old.cursor, old.filter)
  <2>1. old.cursor \in Cursors \cup {NoCursor}
    BY <1>2 DEF IssueWalkHolds, IssueWalkTyped
  <2>2. fetched = Fetched(Sorted(IssueRows(old.filter, old.cursor),
                                 ByUpdate(IssueRows(old.filter, old.cursor))))
    BY <1>4, <1>5
  <2>3. /\ page \in Seq(Rows)
        /\ more => page # <<>>
        /\ \A i \in DOMAIN page :
             /\ page[i].ref \in Refs /\ Exists(issues, page[i].ref)
             /\ page[i] = Row(page[i].ref)
        /\ \A ref \in Refs : Matches(ref, old.filter) =>
             /\ Once(page, ref)
             /\ Beyond(old.cursor, Row(ref)) <=>
                  Listed(page, ref) \/ (more /\ Precedes(page[Len(page)], Row(ref)))
             /\ ~(Listed(page, ref) /\ more /\ Precedes(page[Len(page)], Row(ref)))
    BY <1>6, <1>7, <2>1, <2>2, PageQueried DEF PagesInv
  <2>4. \A i \in DOMAIN page : ValidIssue(issues[page[i].ref])
    BY <2>3 DEF PagesInv, DocsInv, StoredValid
  <2>5. PICK pager : pager = [old EXCEPT !.step = "projects", !.page = page, !.more = more]
    OBVIOUS
  <2>6. SetPager(p, pager)
    BY <1>8, <1>10, <2>4, <2>5
  <2>7. /\ pager.step = "projects" /\ pager.filter = old.filter
        /\ pager.cursor = old.cursor /\ pager.page = page
        /\ pager.more = more /\ pager.seen = old.seen
        /\ pager.kind = "issues" /\ pager.steady = old.steady
        /\ pager = [kind |-> "issues", step |-> pager.step, filter |-> pager.filter,
                    cursor |-> pager.cursor, page |-> pager.page, more |-> pager.more,
                    seen |-> pager.seen, steady |-> pager.steady]
    <3>2. pager = [kind |-> "issues", step |-> "projects", filter |-> old.filter,
                   cursor |-> old.cursor, page |-> page, more |-> more,
                   seen |-> old.seen, steady |-> old.steady]
      <4>1. old = [kind |-> "issues", step |-> old.step, filter |-> old.filter,
                  cursor |-> old.cursor, page |-> old.page, more |-> old.more,
                  seen |-> old.seen, steady |-> old.steady]
        BY <1>2 DEF IssueWalkHolds, IssueWalkTyped
      <4>2. PICK one : one = [old EXCEPT !.step = "projects"]
        OBVIOUS
      <4>3. PICK two : two = [one EXCEPT !.page = page]
        OBVIOUS
      <4>4. PICK three : three = [two EXCEPT !.more = more]
        OBVIOUS
      <4>5. one = [kind |-> "issues", step |-> "projects", filter |-> old.filter,
                  cursor |-> old.cursor, page |-> old.page, more |-> old.more,
                  seen |-> old.seen, steady |-> old.steady]
        BY <4>1, <4>2
      <4>6. two = [kind |-> "issues", step |-> "projects", filter |-> old.filter,
                  cursor |-> old.cursor, page |-> page, more |-> old.more,
                  seen |-> old.seen, steady |-> old.steady]
        BY <4>5, <4>3
      <4>7. three = [kind |-> "issues", step |-> "projects", filter |-> old.filter,
                    cursor |-> old.cursor, page |-> page, more |-> more,
                    seen |-> old.seen, steady |-> old.steady]
        BY <4>6, <4>4
      <4>8. pager = three
        BY <2>5, <4>2, <4>3, <4>4
      <4> QED BY <4>7, <4>8
    <3>3. /\ pager.step = "projects" /\ pager.filter = old.filter
          /\ pager.cursor = old.cursor /\ pager.page = page
          /\ pager.more = more /\ pager.seen = old.seen
          /\ pager.kind = "issues" /\ pager.steady = old.steady
      BY <3>2
    <3> QED BY <3>2, <3>3
  <2>8. more \in BOOLEAN
    BY <1>7 DEF More
  <2>9. IssueWalkTyped(pager)
    BY <1>2, <2>3, <2>7, <2>8 DEF IssueWalkHolds, IssueWalkTyped
  <2>10. WalkSplits(pager)
    BY <1>2, <2>7 DEF WalkSplits
  <2>11. ASSUME NEW i \in DOMAIN page, page[i].parent # NoRef
         PROVE  Exists(issues, page[i].parent) /\ KeyOf(page[i].parent) = KeyOf(page[i].ref)
    <3>1. page[i].ref \in Refs /\ Exists(issues, page[i].ref) /\ page[i] = Row(page[i].ref)
      BY <2>3
    <3>2. page[i].parent = issues[page[i].ref].parent
      BY <3>1 DEF Row
    <3>3. page[i].parent = ParentOf(issues, page[i].ref)
      BY <3>1, <3>2 DEF ParentOf
    <3> QED BY <2>11, <3>1, <3>3 DEF PagesInv, DocsInv, ParentsExist
  <2>12. ASSUME NEW ref \in pager.steady
         PROVE  /\ Once(page, ref)
                /\ Beyond(old.cursor, Row(ref)) <=>
                     Listed(page, ref) \/ AfterLast(pager, Row(ref))
                /\ ~(Listed(page, ref) /\ AfterLast(pager, Row(ref)))
    <3>1. Matches(ref, old.filter)
      BY <1>2, <1>10, <2>7, SteadyMatches
    <3>2. ref \in Refs
      BY <2>9 DEF IssueWalkTyped
    <3>3. AfterLast(pager, Row(ref)) <=> more /\ Precedes(page[Len(page)], Row(ref))
      BY <2>7 DEF AfterLast
    <3>4. /\ Once(page, ref)
          /\ Beyond(old.cursor, Row(ref)) <=>
               Listed(page, ref) \/ (more /\ Precedes(page[Len(page)], Row(ref)))
          /\ ~(Listed(page, ref) /\ more /\ Precedes(page[Len(page)], Row(ref)))
      BY <2>3, <3>1, <3>2
    <3> QED BY <3>3, <3>4
  <2>13. PageStands(pager)
    BY <1>10, <2>3, <2>7, <2>11, <2>12 DEF PageStands
  <2>14. \A ref \in pager.steady : Once(pager.seen, ref)
    BY <1>2, <2>7 DEF IssueWalkHolds
  <2>15. IssueWalkHolds(pager)
    BY <2>7, <2>9, <2>10, <2>13, <2>14 DEF IssueWalkHolds
  <2>16. PagerHolds(pager)
    <3>1. pager # NotPaging
      BY <2>7 DEF NotPaging
    <3> QED BY <2>7, <2>15, <3>1 DEF PagerHolds
  <2> QED BY <1>3, <2>6, <2>16, OneWalkMoves
<1> QED BY <1>9, <1>10

(* An Issue on the page has its Project, because its number was allocated. *)
LEMMA FetchProjectsHolds ==
  ASSUME PagesInv, NEW p \in Pagers, FetchProjects(p)
  PROVE  PagesInv'
<1>1. PICK old : old = pagers[p]
  OBVIOUS
<1>2. IssueWalkHolds(old) /\ WalkSplits(old)
  BY <1>1, IssueWalkAt DEF FetchProjects
<1>3. PageStands(old)
  BY <1>1, <1>2 DEF FetchProjects, IsPaging, IssueWalkHolds
<1>4. ASSUME NEW row \in RowsOn(p)
      PROVE  projects[KeyOf(row.ref)] > 0
  <2>1. PICK i \in DOMAIN old.page : row = old.page[i]
    BY <1>1 DEF RowsOn
  <2>2. old.page \in Seq(Rows)
    BY <1>2 DEF IssueWalkHolds, IssueWalkTyped
  <2>3. row.ref \in Refs
    <3>1. row \in Rows
      BY <2>1, <2>2
    <3> QED BY <3>1 DEF Rows
  <2>4. Exists(issues, row.ref)
    BY <1>3, <2>1 DEF PageStands
  <2>5. row.ref[2] < projects[KeyOf(row.ref)]
    BY <2>3, <2>4 DEF PagesInv, DocsInv, AllocatorDense
  <2>6. row.ref[2] \in 1 .. MaxNumber /\ KeyOf(row.ref) \in Keys
    BY <2>3 DEF Refs, Numbers, KeyOf
  <2>7. projects[KeyOf(row.ref)] \in 0 .. MaxNumber
    BY <2>6 DEF PagesInv, DocsInv, DocsTyped
  <2> QED BY <2>5, <2>6, <2>7, MaxNumberAssumption
<1>5. PageOn(p, "parents") /\ UNCHANGED documents
  BY <1>4 DEF FetchProjects
<1> QED BY <1>1, <1>2, <1>3, <1>5, PageOnHolds

(* A page joins the rows the client has.                                   *)
LEMMA PageJoins ==
  ASSUME NEW seen \in Seq(Rows), NEW page \in Seq(Rows), NEW ref
  PROVE  /\ seen \o page \in Seq(Rows)
         /\ Listed(seen \o page, ref) <=> Listed(seen, ref) \/ Listed(page, ref)
         /\ Once(seen, ref) /\ Once(page, ref) /\ ~(Listed(seen, ref) /\ Listed(page, ref))
              => Once(seen \o page, ref)
<1> DEFINE both == seen \o page
           m == Len(seen)
           n == Len(page)
<1>1. /\ m \in Nat /\ n \in Nat /\ DOMAIN seen = 1 .. m /\ DOMAIN page = 1 .. n
  OBVIOUS
<1>2. /\ both \in Seq(Rows) /\ Len(both) = m + n
      /\ \A i \in 1 .. m + n : both[i] = IF i <= m THEN seen[i] ELSE page[i - m]
  BY ConcatProperties
<1>3. DOMAIN both = 1 .. m + n
  BY <1>2
<1> HIDE DEF both, m, n
<1>4. ASSUME NEW i \in DOMAIN both
      PROVE  \/ i \in DOMAIN seen /\ both[i] = seen[i]
             \/ i - m \in DOMAIN page /\ both[i] = page[i - m] /\ i \in Int
  BY <1>1, <1>2, <1>3
<1>5. \A i \in DOMAIN seen : i \in DOMAIN both /\ both[i] = seen[i]
  BY <1>1, <1>2, <1>3
<1>6. ASSUME NEW i \in DOMAIN page
      PROVE  m + i \in DOMAIN both /\ both[m + i] = page[i]
  <2>1. m + i \in 1 .. m + n /\ ~(m + i <= m) /\ (m + i) - m = i
    BY <1>1
  <2> QED BY <1>2, <1>3, <2>1
<1>7. Listed(both, ref) <=> Listed(seen, ref) \/ Listed(page, ref)
  BY <1>4, <1>5, <1>6 DEF Listed
<1>8. ASSUME Once(seen, ref), Once(page, ref), ~(Listed(seen, ref) /\ Listed(page, ref))
      PROVE  Once(both, ref)
  <2> SUFFICES ASSUME NEW i \in DOMAIN both, NEW j \in DOMAIN both,
                      both[i].ref = ref, both[j].ref = ref
               PROVE  i = j
    BY DEF Once
  <2>1. CASE i \in DOMAIN seen /\ both[i] = seen[i]
    <3>1. Listed(seen, ref) /\ ~Listed(page, ref)
      BY <1>8, <2>1 DEF Listed
    <3>2. j \in DOMAIN seen /\ both[j] = seen[j]
      BY <1>4, <3>1 DEF Listed
    <3> QED BY <1>8, <2>1, <3>2 DEF Once
  <2>2. CASE i - m \in DOMAIN page /\ both[i] = page[i - m] /\ i \in Int
    <3>1. Listed(page, ref) /\ ~Listed(seen, ref)
      BY <1>8, <2>2 DEF Listed
    <3>2. j - m \in DOMAIN page /\ both[j] = page[j - m] /\ j \in Int
      BY <1>4, <3>1 DEF Listed
    <3>3. i - m = j - m
      BY <1>8, <2>2, <3>2 DEF Once
    <3> QED BY <1>1, <2>2, <3>2, <3>3
  <2> QED BY <1>4, <2>1, <2>2
<1> QED BY <1>2, <1>7, <1>8 DEF both

LEMMA FetchParentsHolds ==
  ASSUME PagesInv, NEW p \in Pagers, FetchParents(p)
  PROVE  PagesInv'
<1>1. PICK old : old = pagers[p]
  OBVIOUS
<1>2. IssueWalkHolds(old) /\ WalkSplits(old)
  BY <1>1, IssueWalkAt DEF FetchParents
<1>3. PageStands(old)
  BY <1>1, <1>2 DEF FetchParents, IsPaging, IssueWalkHolds
<1>4. /\ old.page \in Seq(Rows) /\ old.seen \in Seq(Rows) /\ old.more \in BOOLEAN
      /\ old.filter \in Filters
      /\ \A ref \in old.steady : ref \in Refs /\ Exists(issues, ref) /\ Once(old.seen, ref)
      /\ old = [kind |-> "issues", step |-> old.step, filter |-> old.filter,
                cursor |-> old.cursor, page |-> old.page, more |-> old.more,
                seen |-> old.seen, steady |-> old.steady]
  BY <1>2 DEF IssueWalkHolds, IssueWalkTyped
<1>5. ASSUME NEW row \in RowsOn(p)
      PROVE  ParentFits(row)
  <2>1. PICK i \in DOMAIN old.page : row = old.page[i]
    BY <1>1 DEF RowsOn
  <2>2. row.parent \in Refs \cup {NoRef}
    <3>1. row \in Rows
      BY <1>4, <2>1
    <3> QED BY <3>1 DEF Rows
  <2>3. row.parent # NoRef =>
          Exists(issues, row.parent) /\ KeyOf(row.parent) = KeyOf(row.ref)
    BY <1>3, <2>1 DEF PageStands
  <2>4. row.parent # NoRef => ValidIssue(issues[row.parent])
    BY <2>2, <2>3 DEF PagesInv, DocsInv, StoredValid
  <2> QED BY <2>3, <2>4 DEF ParentFits
<1>6. PICK last : last = old.page[Len(old.page)]
  OBVIOUS
<1>7. PICK next : next = [filter |-> old.filter, row |-> last]
  OBVIOUS
<1>8. PICK seen : seen = old.seen \o old.page
  OBVIOUS
<1>9. PICK step : step = IF old.more THEN "paged" ELSE "end"
  OBVIOUS
<1>10. PICK cursor : cursor = IF old.more THEN next ELSE NoCursor
  OBVIOUS
<1>11. PICK pager : pager = [old EXCEPT !.step = step, !.cursor = cursor,
                                        !.seen = seen, !.page = <<>>]
  OBVIOUS
<1>12. SetPager(p, pager) /\ UNCHANGED documents
  <2>1. SetPager(p, [old EXCEPT !.step   = IF old.more THEN "paged" ELSE "end",
                                !.cursor = IF old.more
                                           THEN [filter |-> old.filter,
                                                 row |-> old.page[Len(old.page)]]
                                           ELSE NoCursor,
                                !.seen   = @ \o old.page,
                                !.page   = <<>>])
    BY <1>1, <1>5 DEF FetchParents
  <2>2. [old EXCEPT !.step   = IF old.more THEN "paged" ELSE "end",
                    !.cursor = IF old.more
                               THEN [filter |-> old.filter, row |-> old.page[Len(old.page)]]
                               ELSE NoCursor,
                    !.seen   = @ \o old.page,
                    !.page   = <<>>] = pager
    BY <1>6, <1>7, <1>8, <1>9, <1>10, <1>11
  <2>3. SetPager(p, pager)
    BY <2>1, <2>2
  <2> QED BY <2>3 DEF FetchParents
<1>13. /\ pager.step = step /\ pager.filter = old.filter
       /\ pager.cursor = cursor /\ pager.page = <<>>
       /\ pager.more = old.more /\ pager.seen = seen
       /\ pager.kind = "issues" /\ pager.steady = old.steady
       /\ pager = [kind |-> "issues", step |-> pager.step, filter |-> pager.filter,
                   cursor |-> pager.cursor, page |-> pager.page, more |-> pager.more,
                   seen |-> pager.seen, steady |-> pager.steady]
  <2>1. pager = [kind |-> "issues", step |-> step, filter |-> old.filter,
                 cursor |-> cursor, page |-> <<>>, more |-> old.more,
                 seen |-> seen, steady |-> old.steady]
    <3>1. old = [kind |-> "issues", step |-> old.step, filter |-> old.filter,
                cursor |-> old.cursor, page |-> old.page, more |-> old.more,
                seen |-> old.seen, steady |-> old.steady]
      BY <1>2 DEF IssueWalkHolds, IssueWalkTyped
    <3>2. PICK one : one = [old EXCEPT !.step = step]
      OBVIOUS
    <3>3. PICK two : two = [one EXCEPT !.cursor = cursor]
      OBVIOUS
    <3>4. PICK three : three = [two EXCEPT !.seen = seen]
      OBVIOUS
    <3>5. PICK four : four = [three EXCEPT !.page = <<>>]
      OBVIOUS
    <3>6. one = [kind |-> "issues", step |-> step, filter |-> old.filter,
                cursor |-> old.cursor, page |-> old.page, more |-> old.more,
                seen |-> old.seen, steady |-> old.steady]
      BY <3>1, <3>2
    <3>7. two = [kind |-> "issues", step |-> step, filter |-> old.filter,
                cursor |-> cursor, page |-> old.page, more |-> old.more,
                seen |-> old.seen, steady |-> old.steady]
      BY <3>6, <3>3
    <3>8. three = [kind |-> "issues", step |-> step, filter |-> old.filter,
                  cursor |-> cursor, page |-> old.page, more |-> old.more,
                  seen |-> seen, steady |-> old.steady]
      BY <3>7, <3>4
    <3>9. four = [kind |-> "issues", step |-> step, filter |-> old.filter,
                 cursor |-> cursor, page |-> <<>>, more |-> old.more,
                 seen |-> seen, steady |-> old.steady]
      BY <3>8, <3>5
    <3>10. pager = four
      BY <1>11, <3>2, <3>3, <3>4, <3>5
    <3> QED BY <3>9, <3>10
  <2>2. /\ pager.step = step /\ pager.filter = old.filter
        /\ pager.cursor = cursor /\ pager.page = <<>>
        /\ pager.more = old.more /\ pager.seen = seen
        /\ pager.kind = "issues" /\ pager.steady = old.steady
    BY <2>1
  <2> QED BY <2>1, <2>2
<1>14. old.more => next \in Cursors /\ next # NoCursor /\ next.row = last
                   /\ next.filter = old.filter
  <2> SUFFICES ASSUME old.more PROVE next \in Cursors
    BY <1>7, CursorAssumption
  <2>1. old.page # <<>>
    BY <1>3 DEF PageStands
  <2>2. last \in Rows
    <3>1. Len(old.page) \in DOMAIN old.page
      BY <1>4, <2>1
    <3> QED BY <1>4, <1>6, <3>1
  <2> QED BY <1>4, <1>7, <2>2 DEF Cursors
<1>15. ASSUME NEW ref \in old.steady
       PROVE  /\ Once(seen, ref)
              /\ Matches(ref, old.filter)
              /\ old.more => (Listed(seen, ref) <=> ~Precedes(last, Row(ref)))
              /\ ~old.more => Listed(seen, ref)
  <2>1. Matches(ref, old.filter)
    BY <1>2, <1>3, SteadyMatches DEF PageStands
  <2>2. /\ Once(old.page, ref) /\ Once(old.seen, ref)
        /\ Beyond(old.cursor, Row(ref)) <=>
             Listed(old.page, ref) \/ AfterLast(old, Row(ref))
        /\ ~(Listed(old.page, ref) /\ AfterLast(old, Row(ref)))
    BY <1>3, <1>4 DEF PageStands
  <2>3. Listed(old.seen, ref) <=> ~Beyond(old.cursor, Row(ref))
    BY <1>2 DEF WalkSplits
  <2>4. AfterLast(old, Row(ref)) <=> old.more /\ Precedes(last, Row(ref))
    BY <1>6 DEF AfterLast
  <2>5. /\ Listed(seen, ref) <=> Listed(old.seen, ref) \/ Listed(old.page, ref)
        /\ Once(old.seen, ref) /\ Once(old.page, ref)
           /\ ~(Listed(old.seen, ref) /\ Listed(old.page, ref))
             => Once(seen, ref)
    BY <1>4, <1>8, PageJoins
  <2>6. Once(seen, ref)
    BY <2>2, <2>3, <2>5, Zenon
  <2>7. old.more => (Listed(seen, ref) <=> ~Precedes(last, Row(ref)))
    BY <2>2, <2>3, <2>4, <2>5, Zenon
  <2>8. ~old.more => Listed(seen, ref)
    BY <2>2, <2>3, <2>4, <2>5, Zenon
  <2> QED BY <2>1, <2>6, <2>7, <2>8
<1>16. IssueWalkTyped(pager)
  <2>1. pager.step \in {"paged", "end"}
    BY <1>9, <1>13
  <2>2. pager.cursor \in Cursors \cup {NoCursor}
    BY <1>10, <1>13, <1>14
  <2>3. pager.seen \in Seq(Rows)
    BY <1>4, <1>8, <1>13, PageJoins
  <2>4. <<>> \in Seq(Rows)
    OBVIOUS
  <2>5. pager.page \in Seq(Rows)
    BY <1>13, <2>4
  <2>6. \A ref \in pager.steady : ref \in Refs /\ Exists(issues, ref)
    BY <1>4, <1>13
  <2>7. pager.filter \in Filters /\ pager.more \in BOOLEAN
    BY <1>4, <1>13
  <2>8. pager = [kind |-> "issues", step |-> pager.step, filter |-> pager.filter,
                 cursor |-> pager.cursor, page |-> pager.page, more |-> pager.more,
                 seen |-> pager.seen, steady |-> pager.steady]
    BY <1>13
  <2> QED BY <2>1, <2>2, <2>3, <2>5, <2>6, <2>7, <2>8 DEF IssueWalkTyped
<1>17. old.more => WalkSplits(pager)
  <2> SUFFICES ASSUME old.more PROVE WalkSplits(pager)
    OBVIOUS
  <2>1. pager.cursor = next /\ next # NoCursor /\ next.row = last /\ next.filter = old.filter
    BY <1>10, <1>13, <1>14
  <2>2. \A ref \in pager.steady :
          /\ Matches(ref, next.filter)
          /\ Listed(pager.seen, ref) <=> ~Beyond(next, Row(ref))
    BY <1>13, <1>15, <2>1 DEF Beyond
  <2> QED BY <2>1, <2>2 DEF WalkSplits
<1>18. IssueWalkHolds(pager)
  <2>1. \A ref \in pager.steady : Once(pager.seen, ref)
    BY <1>13, <1>15
  <2>2. CASE old.more
    <3>1. pager.step = "paged"
      BY <1>9, <1>13, <2>2
    <3> QED BY <1>16, <1>17, <2>1, <2>2, <3>1 DEF IssueWalkHolds
  <2>3. CASE ~old.more
    <3>1. pager.step = "end"
      BY <1>9, <1>13, <2>3
    <3>2. \A ref \in pager.steady : Listed(pager.seen, ref)
      BY <1>13, <1>15, <2>3
    <3> QED BY <1>16, <2>1, <3>1, <3>2 DEF IssueWalkHolds
  <2> QED BY <2>2, <2>3
<1>19. PagerHolds(pager)
  <2>1. pager.step \in {"paged", "end"}
    BY <1>9, <1>13
  <2>2. pager # NotPaging
    BY <2>1 DEF NotPaging
  <2> QED BY <1>13, <1>18, <2>2 DEF PagerHolds
<1> QED BY <1>12, <1>19, OneWalkMoves

(* A cursor carries its filter, so the next request may name any other and *)
(* is refused when it does.                                                *)
LEMMA NextIssuesHolds ==
  ASSUME PagesInv, NEW p \in Pagers, NextIssues(p)
  PROVE  PagesInv'
<1>1. PICK filter \in Filters :
        SetPager(p, [pagers[p] EXCEPT !.step = FirstPageStep(filter), !.filter = filter])
  BY DEF NextIssues
<1>2. PICK old : old = pagers[p]
  OBVIOUS
<1>3. IssueWalkHolds(old) /\ WalkSplits(old) /\ old.step = "paged"
  BY <1>2, IssueWalkAt DEF NextIssues, IsPaging
<1>4. PICK step : step = FirstPageStep(filter)
  OBVIOUS
<1>5. step \in {"query", "project"}
  BY <1>4 DEF FirstPageStep
<1>6. PICK pager : pager = [old EXCEPT !.step = step, !.filter = filter]
  OBVIOUS
<1>7. /\ pager.step = step /\ pager.filter = filter
      /\ pager.cursor = old.cursor /\ pager.page = old.page
      /\ pager.more = old.more /\ pager.seen = old.seen
      /\ pager.kind = "issues" /\ pager.steady = old.steady
      /\ pager = [kind |-> "issues", step |-> pager.step, filter |-> pager.filter,
                  cursor |-> pager.cursor, page |-> pager.page, more |-> pager.more,
                  seen |-> pager.seen, steady |-> pager.steady]
  <2>2. pager = [kind |-> "issues", step |-> step, filter |-> filter,
                 cursor |-> old.cursor, page |-> old.page, more |-> old.more,
                 seen |-> old.seen, steady |-> old.steady]
    <3>1. old = [kind |-> "issues", step |-> old.step, filter |-> old.filter,
                cursor |-> old.cursor, page |-> old.page, more |-> old.more,
                seen |-> old.seen, steady |-> old.steady]
      BY <1>3 DEF IssueWalkHolds, IssueWalkTyped
    <3>2. PICK one : one = [old EXCEPT !.step = step]
      OBVIOUS
    <3>3. PICK two : two = [one EXCEPT !.filter = filter]
      OBVIOUS
    <3>4. one = [kind |-> "issues", step |-> step, filter |-> old.filter,
                cursor |-> old.cursor, page |-> old.page, more |-> old.more,
                seen |-> old.seen, steady |-> old.steady]
      BY <3>1, <3>2
    <3>5. two = [kind |-> "issues", step |-> step, filter |-> filter,
                cursor |-> old.cursor, page |-> old.page, more |-> old.more,
                seen |-> old.seen, steady |-> old.steady]
      BY <3>4, <3>3
    <3>6. pager = two
      BY <1>6, <3>2, <3>3
    <3> QED BY <3>5, <3>6
  <2>3. /\ pager.step = step /\ pager.filter = filter
        /\ pager.cursor = old.cursor /\ pager.page = old.page
        /\ pager.more = old.more /\ pager.seen = old.seen
        /\ pager.kind = "issues" /\ pager.steady = old.steady
    BY <2>2
  <2> QED BY <2>2, <2>3
<1>8. IssueWalkTyped(pager)
  BY <1>3, <1>5, <1>7 DEF IssueWalkHolds, IssueWalkTyped
<1>9. WalkSplits(pager)
  BY <1>3, <1>5, <1>7 DEF WalkSplits
<1>10. IssueWalkHolds(pager)
  BY <1>3, <1>5, <1>7, <1>8, <1>9 DEF IssueWalkHolds
<1>11. PagerHolds(pager)
  <2>1. pager # NotPaging
    BY <1>5, <1>7 DEF NotPaging
  <2> QED BY <1>7, <1>10, <2>1 DEF PagerHolds
<1>12. SetPager(p, pager) /\ UNCHANGED documents
  BY <1>1, <1>2, <1>4, <1>6 DEF NextIssues
<1> QED BY <1>11, <1>12, OneWalkMoves

------------------------------------------------------------------------------
(* The loop of Service.ListProjects.                                       *)

LEMMA BeginProjectsHolds ==
  ASSUME PagesInv, NEW p \in Pagers, BeginProjects(p)
  PROVE  PagesInv'
<1>1. PICK pager : pager = PagingProjects
  OBVIOUS
<1>2. PICK steady : steady = {key \in Keys : projects[key] # 0}
  OBVIOUS
<1>3. /\ pager.step = "query" /\ pager.cursor = NoCursor /\ pager.seen = <<>>
      /\ pager.kind = "projects" /\ pager.steady = steady
      /\ pager = [kind |-> "projects", step |-> pager.step, cursor |-> pager.cursor,
                  seen |-> pager.seen, steady |-> pager.steady]
  BY <1>1, <1>2 DEF PagingProjects
<1>4. <<>> \in Seq(Keys) /\ DOMAIN <<>> = {}
  OBVIOUS
<1>5. \A key \in steady : key \in Keys /\ projects[key] # 0
  BY <1>2
<1>6. pager.seen \in Seq(Keys) /\ DOMAIN pager.seen = {}
  BY <1>3, <1>4
<1>7. ProjectWalkHolds(pager)
  BY <1>3, <1>5, <1>6 DEF ProjectWalkHolds
<1>8. PagerHolds(pager)
  <2>1. pager # NotPaging
    BY <1>3 DEF NotPaging
  <2> QED BY <1>3, <1>7, <2>1 DEF PagerHolds
<1>9. SetPager(p, pager) /\ UNCHANGED documents
  BY <1>1 DEF BeginProjects
<1> QED BY <1>8, <1>9, OneWalkMoves

Rising(seq)       == \A i, j \in DOMAIN seq : i < j => seq[i] < seq[j]
Above(page, seen) == \A i \in DOMAIN seen : \A j \in DOMAIN page : seen[i] < page[j]

(* The members of one sequence are those of two others.                    *)
Gathers(both, seen, page) ==
  /\ \A i \in DOMAIN both :
       \/ i \in DOMAIN seen /\ both[i] = seen[i]
       \/ \E j \in DOMAIN page : both[i] = page[j]
  /\ \A i \in DOMAIN seen : i \in DOMAIN both /\ both[i] = seen[i]
  /\ \A j \in DOMAIN page : \E i \in DOMAIN both : both[i] = page[j]

(* A page of Project keys joins the keys before it, all of which it        *)
(* exceeds.                                                                *)
LEMMA KeysJoin ==
  ASSUME NEW seen \in Seq(Nat), NEW page \in Seq(Nat),
         Rising(seen), Rising(page), Above(page, seen),
         NEW both, both = seen \o page
  PROVE  Rising(both) /\ Gathers(both, seen, page)
<1> DEFINE m == Len(seen)
           n == Len(page)
<1>1. /\ m \in Nat /\ n \in Nat /\ DOMAIN seen = 1 .. m /\ DOMAIN page = 1 .. n
  OBVIOUS
<1>2. /\ Len(both) = m + n /\ both \in Seq(Nat)
      /\ \A i \in 1 .. m + n : both[i] = IF i <= m THEN seen[i] ELSE page[i - m]
  BY ConcatProperties
<1>3. DOMAIN both = 1 .. m + n
  BY <1>2
<1> HIDE DEF m, n
<1>4. ASSUME NEW i \in DOMAIN both
      PROVE  /\ i \in Nat
             /\ \/ i \in DOMAIN seen /\ i <= m /\ both[i] = seen[i]
                \/ i - m \in DOMAIN page /\ i > m /\ both[i] = page[i - m]
  BY <1>1, <1>2, <1>3
<1>5. \A i \in DOMAIN seen : i \in DOMAIN both /\ both[i] = seen[i]
  BY <1>1, <1>2, <1>3
<1>6. ASSUME NEW j \in DOMAIN page
      PROVE  \E i \in DOMAIN both : both[i] = page[j]
  <2>1. m + j \in 1 .. m + n /\ ~(m + j <= m) /\ (m + j) - m = j
    BY <1>1
  <2> QED BY <1>2, <1>3, <2>1
<1>7. ASSUME NEW i \in DOMAIN both, NEW j \in DOMAIN both, i < j
      PROVE  both[i] < both[j]
  <2>1. CASE i \in DOMAIN seen /\ i <= m /\ both[i] = seen[i]
    <3>1. CASE j \in DOMAIN seen /\ j <= m /\ both[j] = seen[j]
      BY <1>7, <2>1, <3>1 DEF Rising
    <3>2. CASE j - m \in DOMAIN page /\ j > m /\ both[j] = page[j - m]
      BY <2>1, <3>2 DEF Above
    <3> QED BY <1>4, <3>1, <3>2
  <2>2. CASE i - m \in DOMAIN page /\ i > m /\ both[i] = page[i - m]
    <3>1. i \in Nat /\ j \in Nat /\ j > m
      BY <1>1, <1>4, <1>7, <2>2
    <3>2. j - m \in DOMAIN page /\ both[j] = page[j - m]
      BY <1>1, <1>4, <3>1
    <3>3. i - m < j - m
      BY <1>1, <1>7, <3>1
    <3> QED BY <2>2, <3>2, <3>3 DEF Rising
  <2> QED BY <1>4, <2>1, <2>2
<1>8. \A i \in DOMAIN both :
        \/ i \in DOMAIN seen /\ both[i] = seen[i]
        \/ \E j \in DOMAIN page : both[i] = page[j]
  BY <1>4
<1> QED BY <1>5, <1>6, <1>7, <1>8 DEF Rising, Gathers

LEMMA QueryProjectsHolds ==
  ASSUME PagesInv, NEW p \in Pagers, QueryProjects(p)
  PROVE  PagesInv'
<1>1. PICK old : old = pagers[p]
  OBVIOUS
<1>2. ProjectWalkHolds(old) /\ old.step = "query"
  <2>1. PagerHolds(old) /\ old.kind = "projects" /\ old.step = "query"
    BY <1>1 DEF PagesInv, QueryProjects, IsPaging
  <2> QED BY <2>1 DEF PagerHolds, NotPaging
<1>3. /\ old.cursor \in Keys \cup {NoCursor} /\ old.seen \in Seq(Keys)
      /\ \A key \in old.steady : key \in Keys /\ projects[key] # 0
      /\ \A i, j \in DOMAIN old.seen : i < j => old.seen[i] < old.seen[j]
      /\ old.cursor = NoCursor => old.seen = <<>>
      /\ old.cursor # NoCursor =>
           /\ \A i \in DOMAIN old.seen : old.seen[i] <= old.cursor
           /\ \A key \in old.steady :
                key <= old.cursor => \E i \in DOMAIN old.seen : old.seen[i] = key
  BY <1>2 DEF ProjectWalkHolds
<1>4. PICK keys : keys = ProjectRows(old.cursor)
  OBVIOUS
<1>5. PICK fetched : fetched = Fetched(Sorted(keys, ByKey(keys)))
  OBVIOUS
<1>6. PICK page : page = PageOf(fetched)
  OBVIOUS
<1>7. PICK more : more = More(fetched)
  OBVIOUS
<1>8. PICK seen : seen = old.seen \o page
  OBVIOUS
<1>9. PICK step : step = IF more THEN "query" ELSE "end"
  OBVIOUS
<1>10. PICK cursor : cursor = IF more THEN page[Len(page)] ELSE NoCursor
  OBVIOUS
<1>11. PICK pager : pager = [old EXCEPT !.step = step, !.cursor = cursor, !.seen = seen]
  OBVIOUS
<1>12. SetPager(p, pager) /\ UNCHANGED documents
  <2>1. SetPager(p, [old EXCEPT !.step   = IF more THEN "query" ELSE "end",
                                !.cursor = IF more THEN page[Len(page)] ELSE NoCursor,
                                !.seen   = @ \o page])
    BY <1>1, <1>4, <1>5, <1>6, <1>7 DEF QueryProjects
  <2>2. [old EXCEPT !.step   = IF more THEN "query" ELSE "end",
                    !.cursor = IF more THEN page[Len(page)] ELSE NoCursor,
                    !.seen   = @ \o page] = pager
    BY <1>8, <1>9, <1>10, <1>11
  <2> QED BY <2>1, <2>2 DEF QueryProjects
<1>13. /\ pager.step = step /\ pager.cursor = cursor /\ pager.seen = seen
       /\ pager.kind = "projects" /\ pager.steady = old.steady
       /\ pager = [kind |-> "projects", step |-> pager.step, cursor |-> pager.cursor,
                   seen |-> pager.seen, steady |-> pager.steady]
  <2>1. old = [kind |-> "projects", step |-> old.step, cursor |-> old.cursor,
               seen |-> old.seen, steady |-> old.steady]
    BY <1>2 DEF ProjectWalkHolds
  <2>2. PICK one : one = [old EXCEPT !.step = step]
    OBVIOUS
  <2>3. PICK two : two = [one EXCEPT !.cursor = cursor]
    OBVIOUS
  <2>4. PICK three : three = [two EXCEPT !.seen = seen]
    OBVIOUS
  <2>5. one = [kind |-> "projects", step |-> step, cursor |-> old.cursor,
               seen |-> old.seen, steady |-> old.steady]
    BY <2>1, <2>2
  <2>6. two = [kind |-> "projects", step |-> step, cursor |-> cursor,
               seen |-> old.seen, steady |-> old.steady]
    BY <2>3, <2>5
  <2>7. three = [kind |-> "projects", step |-> step, cursor |-> cursor,
                 seen |-> seen, steady |-> old.steady]
    BY <2>4, <2>6
  <2>8. pager = three
    BY <1>11, <2>2, <2>3, <2>4
  <2>9. /\ pager.step = step /\ pager.cursor = cursor /\ pager.seen = seen
        /\ pager.kind = "projects" /\ pager.steady = old.steady
    BY <2>7, <2>8
  <2> QED BY <2>7, <2>8, <2>9
<1>14. /\ keys \in SUBSET Keys /\ IsFiniteSet(keys)
       /\ \A key \in Keys :
            key \in keys <=>
              projects[key] # 0 /\ (old.cursor = NoCursor \/ old.cursor < key)
  <2>1. keys \in SUBSET Keys
    BY <1>4 DEF ProjectRows
  <2>2. IsFiniteSet(keys)
    BY <2>1, KeysAssumption, FS_Subset
  <2>3. \A key \in Keys :
          key \in keys <=>
            projects[key] # 0 /\ (old.cursor = NoCursor \/ old.cursor < key)
    BY <1>4 DEF ProjectRows
  <2> QED BY <2>1, <2>2, <2>3
<1>15. /\ page \in Seq(keys)
       /\ \A i, j \in DOMAIN page : i < j => page[i] < page[j]
       /\ more => page # <<>>
       /\ \A key \in keys : \/ \E i \in DOMAIN page : page[i] = key
                            \/ more /\ page[Len(page)] < key
  <2>1. Ordering(keys, ByKey(keys))
    BY <1>14, KeysSorted
  <2>2. /\ page \in Seq(keys)
        /\ \A i, j \in DOMAIN page : i < j => <<page[i], page[j]>> \in ByKey(keys)
        /\ more => page # <<>>
        /\ \A key \in keys : \/ \E i \in DOMAIN page : page[i] = key
                             \/ more /\ <<page[Len(page)], key>> \in ByKey(keys)
    BY <1>5, <1>6, <1>7, <1>14, <2>1, PageHolds
  <2>3. \A a, b : <<a, b>> \in ByKey(keys) => a < b
    BY DEF ByKey
  <2> QED BY <2>2, <2>3
<1>16. /\ \A i \in DOMAIN page : page[i] \in keys /\ page[i] \in Keys /\ page[i] \in Nat
       /\ \A i \in DOMAIN old.seen : old.seen[i] \in Keys /\ old.seen[i] \in Nat
       /\ page \in Seq(Nat) /\ old.seen \in Seq(Nat) /\ page \in Seq(Keys)
  <2>1. page \in Seq(Keys)
    BY <1>14, <1>15, SeqMonotonic
  <2>2. page \in Seq(Nat) /\ old.seen \in Seq(Nat)
    BY <1>3, <2>1, KeysAssumption, SeqMonotonic
  <2>3. \A i \in DOMAIN page : page[i] \in keys
    BY <1>15
  <2> QED BY <1>3, <1>14, <2>1, <2>2, <2>3, KeysAssumption
<1>17. \A i \in DOMAIN old.seen : \A j \in DOMAIN page : old.seen[i] < page[j]
  <2> SUFFICES ASSUME NEW i \in DOMAIN old.seen, NEW j \in DOMAIN page
               PROVE  old.seen[i] < page[j]
    OBVIOUS
  <2>1. old.cursor # NoCursor
    BY <1>3
  <2>2. old.seen[i] <= old.cursor /\ old.cursor < page[j]
    BY <1>3, <1>14, <1>16, <2>1
  <2>3. old.cursor \in Nat
    BY <1>3, <2>1, KeysAssumption
  <2> QED BY <1>16, <2>2, <2>3
<1>18. /\ \A i, j \in DOMAIN seen : i < j => seen[i] < seen[j]
       /\ \A i \in DOMAIN seen :
            \/ i \in DOMAIN old.seen /\ seen[i] = old.seen[i]
            \/ \E j \in DOMAIN page : seen[i] = page[j]
       /\ \A i \in DOMAIN old.seen : i \in DOMAIN seen /\ seen[i] = old.seen[i]
       /\ \A j \in DOMAIN page : \E i \in DOMAIN seen : seen[i] = page[j]
  <2>1. Rising(old.seen) /\ Rising(page) /\ Above(page, old.seen)
    BY <1>3, <1>15, <1>17 DEF Rising, Above
  <2>2. old.seen \in Seq(Nat) /\ page \in Seq(Nat)
    BY <1>16
  <2>3. Rising(seen) /\ Gathers(seen, old.seen, page)
    BY <1>8, <2>1, <2>2, KeysJoin
  <2> QED BY <2>3 DEF Rising, Gathers
<1>19. seen \in Seq(Keys)
  BY <1>3, <1>8, <1>16, ConcatProperties
<1>20. ASSUME NEW key \in old.steady
       PROVE  \/ \E i \in DOMAIN seen : seen[i] = key
              \/ more /\ page[Len(page)] < key
  <2>1. key \in Keys /\ key \in Nat /\ projects[key] # 0
    BY <1>3, KeysAssumption
  <2>2. CASE key \in keys
    BY <1>15, <1>18, <2>2
  <2>3. CASE key \notin keys
    <3>1. old.cursor # NoCursor /\ ~(old.cursor < key)
      BY <1>14, <2>1, <2>3
    <3>2. old.cursor \in Nat
      BY <1>3, <3>1, KeysAssumption
    <3>3. key <= old.cursor
      BY <2>1, <3>1, <3>2
    <3> QED BY <1>3, <1>18, <3>1, <3>3
  <2> QED BY <2>2, <2>3
<1>21. CASE ~more
  <2>1. step = "end" /\ cursor = NoCursor
    BY <1>9, <1>10, <1>21
  <2>2. \A key \in pager.steady : key \in Keys /\ projects[key] # 0
    BY <1>3, <1>13
  <2>3. \A key \in pager.steady : \E i \in DOMAIN pager.seen : pager.seen[i] = key
    BY <1>13, <1>20, <1>21
  <2>4. /\ pager.step = "end" /\ pager.cursor \in Keys \cup {NoCursor}
        /\ pager.seen \in Seq(Keys)
        /\ \A i, j \in DOMAIN pager.seen : i < j => pager.seen[i] < pager.seen[j]
    BY <1>13, <1>18, <1>19, <2>1
  <2>5. ProjectWalkHolds(pager)
    BY <1>13, <2>2, <2>3, <2>4 DEF ProjectWalkHolds
  <2>6. PagerHolds(pager)
    <3>1. pager # NotPaging
      BY <2>4 DEF NotPaging
    <3> QED BY <1>13, <2>5, <3>1 DEF PagerHolds
  <2> QED BY <1>12, <2>6, OneWalkMoves
<1>22. CASE more
  <2>1. step = "query" /\ cursor = page[Len(page)]
    BY <1>9, <1>10, <1>22
  <2>2. Len(page) \in DOMAIN page /\ Len(page) \in Nat /\ DOMAIN page = 1 .. Len(page)
    BY <1>15, <1>22
  <2>3. cursor \in Keys /\ cursor \in Nat /\ cursor # NoCursor
    BY <1>16, <2>1, <2>2, CursorAssumption
  <2>4. \A j \in DOMAIN page : page[j] <= cursor
    <3> SUFFICES ASSUME NEW j \in DOMAIN page PROVE page[j] <= cursor
      OBVIOUS
    <3>1. j = Len(page) \/ j < Len(page)
      BY <2>2
    <3> QED BY <1>15, <1>16, <2>1, <2>2, <3>1
  <2>5. \A i \in DOMAIN seen : seen[i] <= cursor
    <3> SUFFICES ASSUME NEW i \in DOMAIN seen PROVE seen[i] <= cursor
      OBVIOUS
    <3>1. CASE i \in DOMAIN old.seen /\ seen[i] = old.seen[i]
      <4>1. old.seen[i] < cursor /\ old.seen[i] \in Nat
        BY <1>16, <1>17, <2>1, <2>2, <3>1
      <4> QED BY <2>3, <3>1, <4>1
    <3>2. CASE \E j \in DOMAIN page : seen[i] = page[j]
      BY <2>4, <3>2
    <3> QED BY <1>18, <3>1, <3>2
  <2>6. \A key \in old.steady : key <= cursor => \E i \in DOMAIN seen : seen[i] = key
    <3> SUFFICES ASSUME NEW key \in old.steady, key <= cursor
                 PROVE  \E i \in DOMAIN seen : seen[i] = key
      OBVIOUS
    <3>1. key \in Nat
      BY <1>3, KeysAssumption
    <3>2. ~(cursor < key)
      BY <2>3, <3>1
    <3> QED BY <1>20, <2>1, <3>2
  <2>7. \A key \in pager.steady : key \in Keys /\ projects[key] # 0
    BY <1>3, <1>13
  <2>8. /\ pager.step = "query" /\ pager.cursor \in Keys /\ pager.cursor # NoCursor
        /\ pager.seen \in Seq(Keys)
        /\ \A i, j \in DOMAIN pager.seen : i < j => pager.seen[i] < pager.seen[j]
    BY <1>13, <1>18, <1>19, <2>1, <2>3
  <2>9. /\ \A i \in DOMAIN pager.seen : pager.seen[i] <= pager.cursor
        /\ \A key \in pager.steady :
             key <= pager.cursor => \E i \in DOMAIN pager.seen : pager.seen[i] = key
    BY <1>13, <2>5, <2>6
  <2>10. ProjectWalkHolds(pager)
    BY <1>13, <2>7, <2>8, <2>9 DEF ProjectWalkHolds
  <2>11. PagerHolds(pager)
    <3>1. pager # NotPaging
      BY <2>8 DEF NotPaging
    <3> QED BY <1>13, <2>10, <3>1 DEF PagerHolds
  <2> QED BY <1>12, <2>11, OneWalkMoves
<1> QED BY <1>21, <1>22

------------------------------------------------------------------------------
LEMMA PagesInvKept ==
  ASSUME PagesInv, [PagesNext]_pageVars
  PROVE  PagesInv'
<1>1. CASE UNCHANGED pageVars
  <2>1. UNCHANGED documents /\ pagers' = pagers
    BY <1>1 DEF pageVars
  <2>2. DocsInv'
    <3>1. Effect
      BY <2>1 DEF Effect, NothingChanged, documents
    <3> QED BY <3>1, DocsInvKept DEF PagesInv
  <2>3. ASSUME NEW p \in Pagers
        PROVE  PagerHolds(pagers[p])'
    <3>1. PICK walk : walk = pagers[p]
      OBVIOUS
    <3>2. PagerHolds(walk)' <=> PagerHolds(walk)
      BY <2>1 DEF documents, PagerHolds, IssueWalkHolds, IssueWalkTyped, WalkSplits,
             PageStands, ProjectWalkHolds, Matches, Row
    <3>3. walk = pagers'[p]
      BY <2>1, <3>1
    <3>4. PagerHolds(walk)
      BY <3>1 DEF PagesInv
    <3> QED BY <3>2, <3>3, <3>4
  <2> QED BY <2>1, <2>2, <2>3 DEF PagesInv
<1>2. CASE WriteBetweenPages
  BY <1>2, WriteBetweenPagesHolds
<1>3. ASSUME NEW p \in Pagers, BeginIssues(p) PROVE PagesInv'
  BY <1>3, BeginIssuesHolds
<1>4. ASSUME NEW p \in Pagers, FilterProject(p) PROVE PagesInv'
  <2>1. IssueWalkHolds(pagers[p]) /\ WalkSplits(pagers[p])
    BY <1>4, IssueWalkAt DEF FilterProject
  <2>2. /\ UNCHANGED documents
        /\ PageOn(p, "refused") \/ PageOn(p, "query")
    BY <1>4 DEF FilterProject
  <2> QED BY <2>1, <2>2, PageOnHolds
<1>5. ASSUME NEW p \in Pagers, QueryPage(p) PROVE PagesInv'
  BY <1>5, QueryPageHolds
<1>6. ASSUME NEW p \in Pagers, FetchProjects(p) PROVE PagesInv'
  BY <1>6, FetchProjectsHolds
<1>7. ASSUME NEW p \in Pagers, FetchParents(p) PROVE PagesInv'
  BY <1>7, FetchParentsHolds
<1>8. ASSUME NEW p \in Pagers, NextIssues(p) PROVE PagesInv'
  BY <1>8, NextIssuesHolds
<1>9. ASSUME NEW p \in Pagers, BeginProjects(p) PROVE PagesInv'
  BY <1>9, BeginProjectsHolds
<1>10. ASSUME NEW p \in Pagers, QueryProjects(p) PROVE PagesInv'
  BY <1>10, QueryProjectsHolds
<1> QED BY <1>1, <1>2, <1>3, <1>4, <1>5, <1>6, <1>7, <1>8, <1>9, <1>10
        DEF PagesNext, PagerStep

LEMMA PagesInductive == PagesSpec => []PagesInv
<1>1. PagesInit => PagesInv
  <2> SUFFICES ASSUME PagesInit PROVE PagesInv
    OBVIOUS
  <2>1. pagers = [p \in Pagers |-> NotPaging]
    BY DEF PagesInit
  <2>2. \A p \in Pagers : PagerHolds(pagers[p])
    BY <2>1 DEF PagerHolds
  <2> QED BY <2>1, <2>2, NothingStoredInv DEF PagesInit, PagesInv
<1>2. PagesInv /\ [PagesNext]_pageVars => PagesInv'
  BY PagesInvKept
<1> QED BY <1>1, <1>2, PTL DEF PagesSpec

(* A walk over the pages of Issues or of Projects lists all that stays     *)
(* where it is, and nothing twice, whatever the page size, however many    *)
(* Issues jump to other places of the order between two of its requests.   *)
THEOREM WalksListSteadyOnce == PagesSpec => []SteadyListedOnce
<1>1. PagesInv => SteadyListedOnce
  <2> SUFFICES ASSUME PagesInv PROVE SteadyListedOnce
    OBVIOUS
  <2>1. ASSUME NEW p \in Pagers, Pages(p, "issues"), NEW ref \in pagers[p].steady
        PROVE  /\ pagers[p].step = "end" => Places(p, ref) # {}
               /\ \A i, j \in Places(p, ref) : i = j
    <3>1. IssueWalkHolds(pagers[p])
      BY <2>1 DEF PagesInv, PagerHolds, Pages, NotPaging
    <3>2. Once(pagers[p].seen, ref)
      BY <3>1 DEF IssueWalkHolds
    <3>3. pagers[p].step = "end" => Listed(pagers[p].seen, ref)
      BY <3>1 DEF IssueWalkHolds
    <3> QED BY <3>2, <3>3 DEF Places, Once, Listed
  <2>2. ASSUME NEW p \in Pagers, Pages(p, "projects")
        PROVE  LET seen == pagers[p].seen
               IN  /\ \A i, j \in DOMAIN seen : i < j => seen[i] < seen[j]
                   /\ pagers[p].step = "end" =>
                        pagers[p].steady \subseteq {seen[i] : i \in DOMAIN seen}
    <3>1. ProjectWalkHolds(pagers[p])
      BY <2>2 DEF PagesInv, PagerHolds, Pages, NotPaging
    <3> QED BY <3>1 DEF ProjectWalkHolds
  <2>3. IssuesListedOnce
    BY <2>1 DEF IssuesListedOnce
  <2>4. ProjectsListedOnce
    BY <2>2 DEF ProjectsListedOnce
  <2> QED BY <2>3, <2>4 DEF SteadyListedOnce
<1> QED BY <1>1, PagesInductive, PTL

(* No page of Issues is refused as corrupt: the Projects and parents that  *)
(* it names are there and match whenever they are looked up.               *)
THEOREM PagesKeepRelations == PagesSpec => []RelationsHold
<1>1. PagesInv => RelationsHold
  <2> SUFFICES ASSUME PagesInv, NEW p \in Pagers PROVE pagers[p].step # "internal"
    BY DEF RelationsHold
  <2>1. PagerHolds(pagers[p])
    BY DEF PagesInv
  <2> QED BY <2>1 DEF PagerHolds, NotPaging, IssueWalkHolds, IssueWalkTyped, ProjectWalkHolds
<1> QED BY <1>1, PagesInductive, PTL
==============================================================================
