-------------------------- MODULE MultimodalFiles --------------------------
(***************************************************************************)
(* Files that a chat user attaches to a message: source/lambda/            *)
(* files-management (upload, delete, get) and source/lambda/               *)
(* files-metadata-management (the handler of S3's ObjectCreated events),   *)
(* over a metadata table and a bucket that share no transaction.           *)
(*                                                                         *)
(* A record is found by its file key and file name, here a file f; the     *)
(* object it stands for has a name of its own, the fileUuid that an upload *)
(* request generates, here the request r.  So one record outlives several  *)
(* objects, and an event names an object while the handler updates the     *)
(* record.  A request for several files handles each of them on its own    *)
(* (Promise.allSettled): r is one file of one request.                     *)
(*                                                                         *)
(* One action is one AWS call with the code up to the next.                *)
(***************************************************************************)
EXTENDS Naturals

CONSTANTS Files,        \* pairs of file key and file name
          Requests,     \* invocations for one file; also the fileUuids
          NoUuid,       \* a record without a fileUuid
          MaxAttempts,  \* invocations of the handler for one event
          Faults        \* what may go wrong, see Mishaps

\* "createLost": the PutItem is applied but its reply is not, and the retry of
\* it is refused; "postAgain": the client posts a file again whose post it
\* thinks failed; "event": a read or an update of the handler fails;
\* "duplicate": an event that was handled is delivered once more.
Mishaps == {"createLost", "postAgain", "deleteObject", "markDeleted", "crash", "event",
            "duplicate"}

ASSUME FilesAssumption == Files # {}
ASSUME NoUuidAssumption == NoUuid \notin Requests
ASSUME MaxAttemptsAssumption == MaxAttempts \in Nat \ {0}
ASSUME FaultsAssumption == Faults \subseteq Mishaps

VARIABLES
    \* The metadata table, by file.
    status,     \* "absent" or the status of the record
    uuid,       \* its fileUuid
    expiring,   \* records with a ttl, the table's time-to-live attribute
    \* The bucket and the presigned posts, by fileUuid.
    objects,    \* objects in the bucket
    aged,       \* history: objects that the lifecycle rule removed
    urls,       \* presigned posts that a client has and may use
    \* The handler of the ObjectCreated event of each fileUuid.
    emitted,    \* uploads that were posted: those whose event may be delivered
    handler,    \* its step
    attempts,   \* its invocations so far
    passed,     \* objects that its invocation at work has found valid
    genuine,    \* uploads of a file whose content is what its name says
    \* The requests.
    op, file,   \* what each request does, and to which file
    pc,         \* the step a delete is at, or stopped at
    outcome,    \* "running", or how the request ended
    seen,       \* the fileUuid that a delete or get read
    regranted,  \* history: files granted again while in use, see InUse, or that
                \* waited for an upload when an earlier one's event came once more
    hurried     \* history: files deleted while in use

recordVars == <<status, uuid, expiring>>
bucketVars == <<objects, aged, urls, genuine>>
handlerVars == <<emitted, handler, attempts, passed>>
requestVars == <<op, file, pc, outcome, seen>>
historyVars == <<regranted, hurried>>
vars == <<status, uuid, expiring, objects, aged, urls, genuine, emitted, handler, attempts,
          passed, op, file, pc, outcome, seen, regranted, hurried>>

Statuses == {"absent", "pending", "uploaded", "invalid", "deleted"}
HandlerSteps == {"none", "validateMetadata", "validateFile", "updateFileMetadata"}
DeleteSteps == {"deleteObject", "markDeleted"}
Uuids == Requests \cup {NoUuid}

\* Every attribute belongs to a record that is there, and has its type.
TypeOK ==
    /\ status \in [Files -> Statuses] /\ uuid \in [Files -> Uuids]
    /\ \A f \in Files : status[f] = "absent" => uuid[f] = NoUuid /\ f \notin expiring
    /\ expiring \subseteq Files
    /\ objects \subseteq Requests /\ aged \subseteq Requests \ objects
    /\ urls \subseteq Requests /\ genuine \subseteq Requests
    /\ emitted \subseteq Requests /\ handler \in [Requests -> HandlerSteps]
    /\ attempts \in [Requests -> 0..MaxAttempts] /\ passed \subseteq Requests
    /\ op \in [Requests -> {"none", "upload", "delete", "get"}]
    /\ file \in [Requests -> Files]
    /\ pc \in [Requests -> {"none"} \cup DeleteSteps]
    /\ outcome \in [Requests -> {"running", "SUCCESS", "FAILED"}]
    /\ seen \in [Requests -> Uuids]
    /\ regranted \subseteq Files /\ hurried \subseteq Files

\* What a request that has not started names.
AnyFile == CHOOSE f \in Files : TRUE

Init ==
    /\ status = [f \in Files |-> "absent"] /\ uuid = [f \in Files |-> NoUuid]
    /\ expiring = {}
    /\ objects = {} /\ aged = {} /\ urls = {} /\ genuine = {}
    /\ emitted = {} /\ handler = [r \in Requests |-> "none"]
    /\ attempts = [r \in Requests |-> 0] /\ passed = {}
    /\ op = [r \in Requests |-> "none"]
    /\ file = [r \in Requests |-> AnyFile]
    /\ pc = [r \in Requests |-> "none"]
    /\ outcome = [r \in Requests |-> "running"]
    /\ seen = [r \in Requests |-> NoUuid]
    /\ regranted = {} /\ hurried = {}

MayFail(mishap) == mishap \in Faults

Start(r, o, f) ==
    /\ op[r] = "none"
    /\ op' = [op EXCEPT ![r] = o]
    /\ file' = [file EXCEPT ![r] = f]

Finish(r, how) == outcome' = [outcome EXCEPT ![r] = how]

\* The upload k of a file may still change the record or the bucket: its
\* presigned post can be used, or its event is being handled.
UploadInFlight(k) == k \in urls \/ handler[k] # "none"

\* A delete has read the record and has not ended.
Deleting(r) == op[r] = "delete" /\ outcome[r] = "running"

InUse(f) == \E q \in Requests : file[q] = f /\ (UploadInFlight(q) \/ Deleting(q))

-----------------------------------------------------------------------------
(* FileUploadCommand *)

\* Mutant: only a pending record stands in the way.
MayCreateOver(f) == status[f] # "pending"

\* ConditionExpression of createFileMetadata.
MayCreate(f) == status[f] \in {"absent", "deleted", "invalid"}

\* createFileUploadPresignedPost only signs; createFileMetadata puts a whole
\* new item (its TTL attribute is "TTL", not the table's).  Retries make no
\* difference but for a put that was applied: the client is told that the file
\* exists, and has no presigned post.
UploadFile(r, f, isGenuine) ==
    /\ Start(r, "upload", f)
    /\ \/ /\ MayCreate(f)
          /\ genuine' = IF isGenuine THEN genuine \cup {r} ELSE genuine
          /\ status' = [status EXCEPT ![f] = "pending"]
          /\ uuid' = [uuid EXCEPT ![f] = r]
          /\ expiring' = expiring \ {f}
          /\ regranted' = IF InUse(f) THEN regranted \cup {f} ELSE regranted
          /\ \/ Finish(r, "SUCCESS") /\ urls' = urls \cup {r}
             \/ MayFail("createLost") /\ Finish(r, "FAILED") /\ UNCHANGED urls
       \/ /\ ~MayCreate(f)
          /\ Finish(r, "FAILED")
          /\ UNCHANGED <<recordVars, urls, genuine, regranted>>
    /\ UNCHANGED <<objects, aged, handlerVars, pc, seen, hurried>>

\* The client posts the file, and S3 emits its event.
PostFile(r) ==
    /\ r \in urls
    /\ handler[r] = "none"
    /\ objects' = objects \cup {r}
    /\ aged' = aged \ {r}
    /\ urls' = urls \ {r} \/ (MayFail("postAgain") /\ UNCHANGED urls)
    /\ emitted' = emitted \cup {r}
    /\ handler' = [handler EXCEPT ![r] = "validateMetadata"]
    /\ attempts' = [attempts EXCEPT ![r] = 1]
    /\ UNCHANGED <<recordVars, genuine, passed, requestVars, historyVars>>

-----------------------------------------------------------------------------
(* updateFilesMetadataHandler *)

\* Events are delivered at least once, and late: an event whose handling ended,
\* however it ended, is handled once more.  The handler updates whatever record
\* is pending under the name, so this is where a file that waits for another
\* upload is marked; one that is granted later is, by InUse.  Two handlers of
\* one event at the same time do no more than one after the other: they differ
\* only on a record that was granted again between their two updates.
Redeliver(k) ==
    /\ MayFail("duplicate")
    /\ k \in emitted
    /\ handler[k] = "none"
    /\ handler' = [handler EXCEPT ![k] = "validateMetadata"]
    /\ attempts' = [attempts EXCEPT ![k] = 1]
    /\ regranted' = IF status[file[k]] = "pending" /\ uuid[file[k]] # k
                    THEN regranted \cup {file[k]} ELSE regranted
    /\ UNCHANGED <<recordVars, bucketVars, emitted, passed, requestVars, hurried>>

HandlerAt(k, step) == handler[k] = step

\* Mutant: the handler catches what its invocation throws.
RetryNever(k) ==
    /\ handler' = [handler EXCEPT ![k] = "none"]
    /\ attempts' = [attempts EXCEPT ![k] = 0]

\* The invocation throws: Lambda invokes it again, MaxAttempts times in all.
Retry(k) ==
    IF attempts[k] < MaxAttempts
    THEN /\ handler' = [handler EXCEPT ![k] = "validateMetadata"]
         /\ attempts' = [attempts EXCEPT ![k] = @ + 1]
    ELSE /\ handler' = [handler EXCEPT ![k] = "none"]
         /\ attempts' = [attempts EXCEPT ![k] = 0]

\* validateMetadata: HeadObject.  Without its answer the file name is empty,
\* and the UpdateItem that follows is refused for its empty key.
ValidateMetadata(k) ==
    /\ HandlerAt(k, "validateMetadata")
    /\ \/ /\ k \in objects
          /\ handler' = [handler EXCEPT ![k] = "validateFile"]
          /\ UNCHANGED attempts
       \/ /\ k \notin objects \/ MayFail("event")
          /\ Retry(k)
    /\ UNCHANGED <<recordVars, bucketVars, emitted, passed, requestVars, historyVars>>

\* Mutant: only the metadata is looked at.
ValidateFileIgnored(k) ==
    /\ HandlerAt(k, "validateFile")
    /\ handler' = [handler EXCEPT ![k] = "updateFileMetadata"]
    /\ passed' = passed \cup {k}
    /\ UNCHANGED <<recordVars, bucketVars, emitted, attempts, requestVars, historyVars>>

\* validateFile: GetObject of the first bytes; any failure to read them makes
\* the file invalid.
ValidateFile(k) ==
    /\ HandlerAt(k, "validateFile")
    /\ handler' = [handler EXCEPT ![k] = "updateFileMetadata"]
    /\ \/ passed' = IF k \in objects \cap genuine THEN passed \cup {k} ELSE passed
       \/ MayFail("event") /\ UNCHANGED passed
    /\ UNCHANGED <<recordVars, bucketVars, emitted, attempts, requestVars, historyVars>>

\* Mutant: the ConditionExpression does not ask for a pending record.
UpdateFileMetadataUnconditional(k) ==
    LET f == file[k]
    IN  /\ HandlerAt(k, "updateFileMetadata")
        /\ status[f] # "absent"
        /\ status' = [status EXCEPT ![f] = IF k \in passed THEN "uploaded" ELSE "invalid"]
        /\ expiring' = expiring \cup {f}
        /\ handler' = [handler EXCEPT ![k] = "none"]
        /\ attempts' = [attempts EXCEPT ![k] = 0]
        /\ passed' = passed \ {k}
        /\ UNCHANGED <<uuid, emitted, bucketVars, requestVars, historyVars>>

\* updateFileMetadata: only a pending record is updated, whichever upload made
\* it pending; the ttl it sets is the table's time-to-live attribute.
UpdateFileMetadata(k) ==
    LET f == file[k]
    IN  /\ HandlerAt(k, "updateFileMetadata")
        /\ \/ /\ status[f] = "pending"
              /\ status' = [status EXCEPT ![f] = IF k \in passed THEN "uploaded" ELSE "invalid"]
              /\ expiring' = expiring \cup {f}
              /\ handler' = [handler EXCEPT ![k] = "none"]
              /\ attempts' = [attempts EXCEPT ![k] = 0]
           \/ /\ status[f] # "pending" \/ MayFail("event")
              /\ Retry(k)
              /\ UNCHANGED <<status, expiring>>
        /\ passed' = passed \ {k}
        /\ UNCHANGED <<uuid, emitted, bucketVars, requestVars, historyVars>>

-----------------------------------------------------------------------------
(* FileDeleteCommand: deleteIndividualFile *)

GetRecordToDelete(r, f) ==
    /\ Start(r, "delete", f)
    /\ \/ /\ status[f] = "absent"
          /\ Finish(r, "FAILED")
          /\ UNCHANGED <<pc, seen, hurried>>
       \/ /\ status[f] # "absent"
          /\ pc' = [pc EXCEPT ![r] = "deleteObject"]
          /\ seen' = [seen EXCEPT ![r] = uuid[f]]
          /\ hurried' = IF InUse(f) THEN hurried \cup {f} ELSE hurried
          /\ UNCHANGED outcome
    /\ UNCHANGED <<recordVars, bucketVars, handlerVars, regranted>>

DeleteAt(r, step) == Deleting(r) /\ pc[r] = step

\* Mutant: the object stays in the bucket.
DeleteFileFromS3Skipped(r) ==
    /\ DeleteAt(r, "deleteObject")
    /\ pc' = [pc EXCEPT ![r] = "markDeleted"]
    /\ UNCHANGED <<recordVars, bucketVars, handlerVars, op, file, outcome, seen, historyVars>>

\* deleteFileFromS3: no error when there is no such object.
DeleteFileFromS3(r) ==
    /\ DeleteAt(r, "deleteObject")
    /\ \/ /\ objects' = objects \ {seen[r]}
          /\ pc' = [pc EXCEPT ![r] = "markDeleted"]
          /\ UNCHANGED outcome
       \/ /\ MayFail("deleteObject")
          /\ Finish(r, "FAILED")
          /\ UNCHANGED <<objects, pc>>
    /\ UNCHANGED <<recordVars, aged, urls, genuine, handlerVars, op, file, seen, historyVars>>

\* UpdateItem without a condition, so it makes a record that has expired anew;
\* the TTL it sets is not the table's time-to-live attribute.
MarkDeleted(r) ==
    /\ DeleteAt(r, "markDeleted")
    /\ \/ /\ status' = [status EXCEPT ![file[r]] = "deleted"]
          /\ Finish(r, "SUCCESS")
       \/ /\ MayFail("markDeleted")
          /\ Finish(r, "FAILED")
          /\ UNCHANGED status
    /\ UNCHANGED <<uuid, expiring, bucketVars, handlerVars, op, file, pc, seen, historyVars>>

-----------------------------------------------------------------------------
(* FileGetCommand: a download URL for the object of an uploaded file. *)

GetFile(r, f) ==
    /\ Start(r, "get", f)
    /\ \/ /\ status[f] = "uploaded"
          /\ seen' = [seen EXCEPT ![r] = uuid[f]]
          /\ Finish(r, "SUCCESS")
       \/ /\ status[f] # "uploaded"
          /\ Finish(r, "FAILED")
          /\ UNCHANGED seen
    /\ UNCHANGED <<recordVars, bucketVars, handlerVars, pc, historyVars>>

-----------------------------------------------------------------------------
(* The environment. *)

\* The invocation of a delete times out: it has failed, wherever it was.
Crash(r) ==
    /\ MayFail("crash")
    /\ Deleting(r)
    /\ Finish(r, "FAILED")
    /\ UNCHANGED <<recordVars, bucketVars, handlerVars, op, file, pc, seen, historyVars>>

\* After an hour.
ExpireUrl(r) ==
    /\ r \in urls
    /\ urls' = urls \ {r}
    /\ UNCHANGED <<recordVars, objects, aged, genuine, handlerVars, requestVars, historyVars>>

\* After the ttl attribute, the only one the table is told of.
ExpireRecord(f) ==
    /\ f \in expiring
    /\ status' = [status EXCEPT ![f] = "absent"]
    /\ uuid' = [uuid EXCEPT ![f] = NoUuid]
    /\ expiring' = expiring \ {f}
    /\ UNCHANGED <<bucketVars, handlerVars, requestVars, historyVars>>

\* The bucket's lifecycle rule, two days after the post.
ExpireObject(k) ==
    /\ k \in objects
    /\ ~UploadInFlight(k)
    /\ objects' = objects \ {k}
    /\ aged' = aged \cup {k}
    /\ UNCHANGED <<recordVars, urls, genuine, handlerVars, requestVars, historyVars>>

-----------------------------------------------------------------------------
HandlerStep(k) == ValidateMetadata(k) \/ ValidateFile(k) \/ UpdateFileMetadata(k)

DeleteStep(r) == DeleteFileFromS3(r) \/ MarkDeleted(r)

Next ==
    \/ \E r \in Requests, f \in Files, g \in BOOLEAN : UploadFile(r, f, g)
    \/ \E r \in Requests, f \in Files : GetRecordToDelete(r, f) \/ GetFile(r, f)
    \/ \E r \in Requests :
           \/ PostFile(r) \/ Redeliver(r) \/ HandlerStep(r) \/ DeleteStep(r) \/ Crash(r)
           \/ ExpireUrl(r) \/ ExpireObject(r)
    \/ \E f \in Files : ExpireRecord(f)

Spec == Init /\ [][Next]_vars

\* An invocation of the handler runs on, or throws and is retried; nothing is
\* owed by clients, by deletes or by what removes what has expired.
Fairness == \A r \in Requests : WF_vars(HandlerStep(r))

FairSpec == Spec /\ Fairness

-----------------------------------------------------------------------------
(* Properties. *)

\* A delete of f has removed the object k and has not (yet) marked the record.
HalfDeleted(f, k) == \E r \in Requests :
    /\ op[r] = "delete" /\ file[r] = f /\ seen[r] = k
    /\ pc[r] = "markDeleted" /\ outcome[r] # "SUCCESS"

\* An uploaded record has its object: the one that FileGetCommand signs a
\* download URL for.  Excused are an object that grew old, a delete that has
\* stopped (or is) half way, and a regranted file: one granted to a new upload
\* while an earlier upload or delete of it was still in flight, or that waited
\* for an upload when the event of an earlier one was delivered once more, which
\* the handler takes for the upload's own.
UploadedIsStored == \A f \in Files \ regranted :
    status[f] = "uploaded" => uuid[f] \in objects \cup aged \/ HalfDeleted(f, uuid[f])

\* A deleted record has no object left behind in the bucket, unless the file
\* was deleted, or granted again, while an upload or delete was in flight.
DeletedIsGone == \A f \in Files \ (regranted \cup hurried) :
    status[f] = "deleted" => uuid[f] \notin objects

\* The object of an uploaded record has been validated and found to be what
\* its name says, whichever reads and updates failed and whichever events came
\* more than once on the way, unless the file is regranted.
UploadedIsGenuine == \A f \in Files \ regranted :
    status[f] = "uploaded" => uuid[f] \in genuine

\* Where a file is in FileLife.
Disturbed == regranted \cup hurried
LifeOf(f) == IF f \in Disturbed THEN "disturbed" ELSE status[f]
UploadOf(f) == IF f \in Disturbed THEN NoUuid ELSE uuid[f]
IsLeaving(f) == UploadOf(f) # NoUuid /\ HalfDeleted(f, UploadOf(f))

Life == INSTANCE FileLife WITH
    Uploads <- Requests, NoUpload <- NoUuid,
    life <- [f \in Files |-> LifeOf(f)],
    upload <- [f \in Files |-> UploadOf(f)],
    leaving <- {f \in Files : IsLeaving(f)},
    asked <- {k \in Requests : op[k] = "upload"},
    sound <- genuine, kept <- objects, old <- aged

\* The two Lambda functions implement FileLife, whichever of the mishaps befall
\* them, in whatever order the posts, their events and the deletes arrive.
FollowsLife == Life!Spec

\* A pending record whose file has been posted does not stay pending: the
\* handler gets to it, if need be in its last attempt, whose failure ends it.
PostedIsProcessed == \A f \in Files :
    (status[f] = "pending" /\ handler[uuid[f]] # "none")
        ~> (status[f] # "pending" \/ attempts[uuid[f]] = MaxAttempts)

=============================================================================
