---------------------------- MODULE AssetUploads ----------------------------
(***************************************************************************)
(* Issue assets: uploads that queue for the Service's one image slot, the  *)
(* conditional write of the Cloud Storage adapter, and downloads that read *)
(* the generation whose metadata they hold.                                *)
(*                                                                         *)
(* The bucket keeps no old versions: a replaced generation is gone.  The   *)
(* history of writes is kept here, so that a generation is an index in it. *)
(* Uploads do not retry their write (ChunkSize 0 disables the library's    *)
(* retries), so a write whose reply is lost is reported as a failure.      *)
(***************************************************************************)
EXTENDS Integers, Sequences, FiniteSets, SequencesExt

CONSTANTS
  Uploads,    \* upload requests, each made once
  Downloads,  \* download requests, each made once
  Keys,       \* asset keys: an Issue and a canonical file name
  Orphans     \* keys whose Issue does not exist

ASSUME OrphansAssumption == Orphans \subseteq Keys

VARIABLES
  ups,      \* upload -> where it is, its key, what it observed, its answer
  queue,    \* the senders on imageSlots: the head holds the slot
  gone,     \* waiting uploads whose client has hung up
  writes,   \* every write the bucket accepted, in order of generation
  downs     \* download -> where it is, its key, what it observed, its answer

uploadVars == <<ups, queue, gone, writes, downs>>

Generations == DOMAIN writes

(* The generation the bucket serves for a key; 0 when there is none.       *)
Current(k) == SelectLastInSeq(writes, LAMBDA w : w.key = k)

Idle == [at |-> "idle"]

UploadsInit ==
  /\ ups = [u \in Uploads |-> Idle]
  /\ queue = <<>>
  /\ gone = {}
  /\ writes = <<>>
  /\ downs = [d \in Downloads |-> Idle]

AnswerUpload(u, k, answer) ==
  ups' = [ups EXCEPT ![u] = [at |-> "done", key |-> k, answer |-> answer]]

------------------------------------------------------------------------------
(* Admission to the image slot.                                            *)

(* The Issue is looked up before anything of the body is read, and the     *)
(* lookup may fail.  A send on a full channel queues behind the sends      *)
(* before it.                                                              *)
Arrive(u, k) ==
  /\ ups[u] = Idle
  /\ \/ /\ k \notin Orphans
        /\ ups' = [ups EXCEPT ![u] = [at |-> "waiting", key |-> k]]
        /\ queue' = Append(queue, u)
     \/ /\ k \in Orphans
        /\ AnswerUpload(u, k, "not_found")
        /\ UNCHANGED queue
     \/ /\ AnswerUpload(u, k, "internal")
        /\ UNCHANGED queue
  /\ UNCHANGED <<gone, writes, downs>>

TakeSlot(u) ==
  /\ ups[u].at = "waiting"
  /\ Head(queue) = u
  /\ ups' = [ups EXCEPT ![u].at = "processing"]
  /\ gone' = gone \ {u}
  /\ UNCHANGED <<queue, writes, downs>>

(* What a client's hanging up does to an upload that holds the slot or has *)
(* given it back is a failing read, Observe or write, possible anyway.     *)
HangUp(u) ==
  /\ ups[u].at = "waiting"
  /\ gone' = gone \cup {u}
  /\ UNCHANGED <<ups, queue, writes, downs>>

(* The select takes ctx.Done: the send is withdrawn.  When the slot is     *)
(* free as well, the select picks one of the two.                          *)
GiveUp(u) ==
  /\ ups[u].at = "waiting"
  /\ u \in gone
  /\ AnswerUpload(u, ups[u].key, "canceled")
  /\ gone' = gone \ {u}
  /\ queue' = Remove(queue, u)
  /\ UNCHANGED <<writes, downs>>

(* Mutant: the slot is given back only by the path that succeeds.          *)
ProcessLeaking(u) ==
  /\ ups[u].at = "processing"
  /\ \/ /\ ups' = [ups EXCEPT ![u].at = "ready"]
        /\ queue' = Remove(queue, u)
     \/ /\ AnswerUpload(u, ups[u].key, "rejected")
        /\ UNCHANGED queue
  /\ UNCHANGED <<gone, writes, downs>>

(* The body is read and the image decoded, fitted and encoded while the    *)
(* slot is held; the deferred release gives it back on every path.         *)
Process(u) ==
  /\ ups[u].at = "processing"
  /\ \/ ups' = [ups EXCEPT ![u].at = "ready"]
     \/ AnswerUpload(u, ups[u].key, "rejected")
  /\ queue' = Remove(queue, u)
  /\ UNCHANGED <<gone, writes, downs>>

------------------------------------------------------------------------------
(* Put: the object's attributes, then a write on condition of them.        *)

Observe(u) ==
  /\ ups[u].at = "ready"
  /\ \/ ups' = [ups EXCEPT ![u] = [at |-> "observed", key |-> ups[u].key,
                                   saw |-> Current(ups[u].key)]]
     \/ AnswerUpload(u, ups[u].key, "internal")
  /\ UNCHANGED <<queue, gone, writes, downs>>

Store(u) ==
  writes' = Append(writes, [key |-> ups[u].key, by |-> u, over |-> ups[u].saw])

(* Mutant: the adapter forgets DoesNotExist for an object it did not see.  *)
ConditionOnlyOnMatch(u) ==
  ups[u].saw # 0 => Current(ups[u].key) = ups[u].saw

(* The write's condition: DoesNotExist, or a match of the generation seen. *)
ConditionHolds(u) == Current(ups[u].key) = ups[u].saw

WriteApplied(u) ==
  /\ ups[u].at = "observed"
  /\ ConditionHolds(u)
  /\ Store(u)
  /\ \E reply \in {"created", "internal"} : AnswerUpload(u, ups[u].key, reply)
  /\ UNCHANGED <<queue, gone, downs>>

(* Mutant: a precondition failure is taken for a write that is there.      *)
WriteRefusedAsDone(u) ==
  /\ ups[u].at = "observed"
  /\ ~ConditionHolds(u)
  /\ AnswerUpload(u, ups[u].key, "created")
  /\ UNCHANGED <<queue, gone, writes, downs>>

(* 412 is a Conflict; the caller is told, and nothing is retried.          *)
WriteRefused(u) ==
  /\ ups[u].at = "observed"
  /\ ~ConditionHolds(u)
  /\ AnswerUpload(u, ups[u].key, "conflict")
  /\ UNCHANGED <<queue, gone, writes, downs>>

WriteFails(u) ==
  /\ ups[u].at = "observed"
  /\ AnswerUpload(u, ups[u].key, "internal")
  /\ UNCHANGED <<queue, gone, writes, downs>>

------------------------------------------------------------------------------
(* Open: the object's attributes, then the body of that generation.        *)

AnswerDownload(d, rec) == downs' = [downs EXCEPT ![d] = rec]

Look(d, k) ==
  /\ downs[d] = Idle
  /\ AnswerDownload(d,
       IF k \in Orphans \/ Current(k) = 0
       THEN [at |-> "missed", key |-> k, saw |-> 0]
       ELSE [at |-> "looked", key |-> k, saw |-> Current(k)])
  /\ UNCHANGED <<ups, queue, gone, writes>>

(* Mutant: the body is read without naming the generation.                 *)
FetchLatest(d) ==
  /\ downs[d].at = "looked"
  /\ AnswerDownload(d, [at |-> "served", key |-> downs[d].key,
                        saw |-> downs[d].saw, body |-> Current(downs[d].key)])
  /\ UNCHANGED <<ups, queue, gone, writes>>

(* A generation that has been replaced meanwhile is not found.             *)
Fetch(d) ==
  /\ downs[d].at = "looked"
  /\ AnswerDownload(d,
       IF Current(downs[d].key) = downs[d].saw
       THEN [at |-> "served", key |-> downs[d].key,
             saw |-> downs[d].saw, body |-> downs[d].saw]
       ELSE [at |-> "missed", key |-> downs[d].key, saw |-> downs[d].saw])
  /\ UNCHANGED <<ups, queue, gone, writes>>

------------------------------------------------------------------------------
UploadStep(u) ==
  \/ TakeSlot(u)
  \/ GiveUp(u)
  \/ Process(u)
  \/ Observe(u)
  \/ WriteApplied(u)
  \/ WriteRefused(u)
  \/ WriteFails(u)

Finished ==
  /\ \A u \in Uploads : ups[u].at = "done"
  /\ \A d \in Downloads : downs[d].at \in {"served", "missed"}
  /\ UNCHANGED uploadVars

UploadsNext ==
  \/ \E u \in Uploads, k \in Keys : Arrive(u, k)
  \/ \E u \in Uploads : UploadStep(u) \/ HangUp(u)
  \/ \E d \in Downloads, k \in Keys : Look(d, k)
  \/ \E d \in Downloads : Fetch(d)
  \/ Finished

(* A request that can go on does: the channel hands the slot to its oldest *)
(* sender, reading a body ends by the server's ReadTimeout, the encoders'  *)
(* loops shrink the image until it fits, and a call on the bucket returns  *)
(* or fails.  Nothing makes a client arrive or hang up.                    *)
UploadsFairness == \A u \in Uploads : WF_uploadVars(UploadStep(u))

UploadsSpec == UploadsInit /\ [][UploadsNext]_uploadVars /\ UploadsFairness

------------------------------------------------------------------------------
(* Properties.                                                             *)

(* A write replaces exactly the generation its upload observed: of two     *)
(* concurrent uploads of one name, the second to commit is refused and     *)
(* never silently erases the first.                                        *)
NoBlindReplacement ==
  \A g \in Generations :
    writes[g].over = SelectLastInSubSeq(writes, 1, g - 1,
                       LAMBDA w : w.key = writes[g].key)

(* The answer tells the truth about the bucket: a created upload was       *)
(* written once, and one answered with anything but created or internal    *)
(* left no trace.                                                          *)
AnswersAreTrue ==
  \A u \in Uploads : ups[u].at = "done" =>
    LET own == {g \in Generations : writes[g].by = u} IN
      /\ ups[u].answer = "created" => Cardinality(own) = 1
      /\ ups[u].answer \notin {"created", "internal"} => own = {}

(* A download never serves the bytes of one generation under the size,     *)
(* type and ETag of another.                                               *)
BodyMatchesMetadata ==
  \A d \in Downloads : downs[d].at = "served" => downs[d].body = downs[d].saw

(* Every upload that arrived is answered, also the ones queued behind an   *)
(* upload that was rejected or whose client hung up.                       *)
EveryUploadAnswered ==
  \A u \in Uploads : ups[u].at = "waiting" ~> ups[u].at = "done"
=============================================================================
