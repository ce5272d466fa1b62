----------------------- MODULE MultimodalFilesProofs -----------------------
(***************************************************************************)
(* Proofs about MultimodalFiles, for any set of files, requests, handler   *)
(* attempts and mishaps.                                                   *)
(***************************************************************************)
EXTENDS MultimodalFiles, TLAPS

LEMMA InitTyped == Init => TypeOK
<1>1. AnyFile \in Files
  BY FilesAssumption DEF AnyFile
<1> QED
  BY <1>1, MaxAttemptsAssumption
  DEF Init, TypeOK, Statuses, HandlerSteps, DeleteSteps, Uuids

LEMMA TypeInductive == TypeOK /\ [Next]_vars => TypeOK'
<1> SUFFICES ASSUME TypeOK, [Next]_vars PROVE TypeOK'
  OBVIOUS
<1> USE MaxAttemptsAssumption
        DEF TypeOK, Statuses, HandlerSteps, DeleteSteps, Uuids,
            recordVars, bucketVars, handlerVars, requestVars, historyVars,
            Start, Finish, MayFail, HandlerAt, Retry, DeleteAt, Deleting, UploadInFlight, InUse
<1>1. ASSUME NEW r \in Requests, NEW f \in Files, NEW g \in BOOLEAN,
             UploadFile(r, f, g)
      PROVE  TypeOK'
  BY <1>1 DEF UploadFile, MayCreate
<1>2. ASSUME NEW r \in Requests, PostFile(r) PROVE TypeOK'
  BY <1>2 DEF PostFile
<1>3. ASSUME NEW r \in Requests, ValidateMetadata(r) PROVE TypeOK'
  BY <1>3 DEF ValidateMetadata
<1>4. ASSUME NEW r \in Requests, ValidateFile(r) PROVE TypeOK'
  BY <1>4 DEF ValidateFile
<1>5. ASSUME NEW r \in Requests, UpdateFileMetadata(r) PROVE TypeOK'
  BY <1>5 DEF UpdateFileMetadata
<1>6. ASSUME NEW r \in Requests, NEW f \in Files, GetRecordToDelete(r, f)
      PROVE  TypeOK'
  BY <1>6 DEF GetRecordToDelete
<1>7. ASSUME NEW r \in Requests, DeleteFileFromS3(r) PROVE TypeOK'
  BY <1>7 DEF DeleteFileFromS3
<1>8. ASSUME NEW r \in Requests, MarkDeleted(r) PROVE TypeOK'
  BY <1>8 DEF MarkDeleted
<1>9. ASSUME NEW r \in Requests, NEW f \in Files, GetFile(r, f) PROVE TypeOK'
  BY <1>9 DEF GetFile
<1>10. ASSUME NEW r \in Requests, Crash(r) PROVE TypeOK'
  BY <1>10 DEF Crash
<1>11. ASSUME NEW r \in Requests, ExpireUrl(r) PROVE TypeOK'
  BY <1>11 DEF ExpireUrl
<1>12. ASSUME NEW f \in Files, ExpireRecord(f) PROVE TypeOK'
  BY <1>12 DEF ExpireRecord
<1>13. ASSUME NEW r \in Requests, ExpireObject(r) PROVE TypeOK'
  BY <1>13 DEF ExpireObject
<1>14. ASSUME NEW r \in Requests, Redeliver(r) PROVE TypeOK'
  BY <1>14 DEF Redeliver
<1>15. CASE UNCHANGED vars
  BY <1>15 DEF vars
<1> HIDE DEF TypeOK
<1> QED
  BY <1>1, <1>2, <1>3, <1>4, <1>5, <1>6, <1>7, <1>8, <1>9, <1>10, <1>11,
     <1>12, <1>13, <1>14, <1>15
  DEF Next, HandlerStep, DeleteStep

\* The type invariant, for every instance.
THEOREM TypeCorrect == Spec => []TypeOK
BY InitTyped, TypeInductive, PTL DEF Spec

-----------------------------------------------------------------------------
(* Records, objects and requests agree on who uploaded what. *)

\* Objects, presigned posts and events are those of uploads.
UploadsOwn == \A k \in Requests :
    UploadInFlight(k) \/ k \in objects \cup aged \cup emitted => op[k] = "upload"

\* A fileUuid is that of an upload of the same file.
UuidsMatch ==
    /\ \A f \in Files : uuid[f] # NoUuid => op[uuid[f]] = "upload" /\ file[uuid[f]] = f
    /\ \A f \in Files : status[f] \in {"pending", "uploaded"} => uuid[f] # NoUuid
    /\ \A r \in Requests : seen[r] # NoUuid =>
           op[r] # "none" /\ op[seen[r]] = "upload" /\ file[seen[r]] = file[r]

\* Unless the file was granted again, what is in flight is about the object
\* that the record names, or the record has expired; an event that came once
\* more is, as long as the record is pending.
InFlightIsCurrent ==
    /\ \A k \in urls : file[k] \notin regranted => uuid[file[k]] \in {k, NoUuid}
    /\ \A k \in Requests :
           handler[k] # "none" /\ file[k] \notin regranted /\ status[file[k]] = "pending" =>
               uuid[file[k]] = k
    /\ \A r \in Requests : Deleting(r) /\ file[r] \notin regranted =>
           uuid[file[r]] \in {seen[r], NoUuid}

\* What the handler has found valid is in the bucket, or being deleted.
PassedIsStored == \A k \in Requests :
    /\ handler[k] # "updateFileMetadata" => k \notin passed
    /\ handler[k] = "updateFileMetadata" /\ k \in passed => k \in genuine
    /\ /\ handler[k] = "updateFileMetadata" /\ k \in passed
       /\ file[k] \notin regranted /\ status[file[k]] = "pending"
       => k \in objects \/ HalfDeleted(file[k], k)

\* A delete of a file that was not in use leaves no object, and no presigned
\* post that could put it back.
DeleteIsFinal ==
    /\ \A r \in Requests :
           Deleting(r) /\ file[r] \notin regranted \cup hurried /\ seen[r] # NoUuid =>
               /\ seen[r] \notin urls
               /\ pc[r] = "markDeleted" => seen[r] \notin objects
    /\ \A f \in Files \ (regranted \cup hurried) :
           status[f] = "deleted" => uuid[f] \notin urls

FilesInv == /\ TypeOK /\ UploadsOwn /\ UuidsMatch /\ InFlightIsCurrent /\ PassedIsStored
            /\ DeleteIsFinal /\ UploadedIsStored /\ UploadedIsGenuine /\ DeletedIsGone

LEMMA FilesInvInductive == FilesInv /\ TypeOK' /\ [Next]_vars => FilesInv'
<1> SUFFICES ASSUME FilesInv, TypeOK', [Next]_vars PROVE FilesInv'
  OBVIOUS
<1> USE NoUuidAssumption
        DEF FilesInv, TypeOK, HandlerSteps, DeleteSteps, Uuids, UploadsOwn, UuidsMatch,
            InFlightIsCurrent, PassedIsStored, DeleteIsFinal, HalfDeleted,
            UploadedIsStored, UploadedIsGenuine, DeletedIsGone,
            recordVars, bucketVars, handlerVars, requestVars, historyVars,
            Start, Finish, MayFail, HandlerAt, Retry, DeleteAt, Deleting, UploadInFlight, InUse
<1>1. ASSUME NEW r \in Requests, NEW f \in Files, NEW g \in BOOLEAN,
             UploadFile(r, f, g)
      PROVE  FilesInv'
  BY <1>1 DEF UploadFile, MayCreate
<1>2. ASSUME NEW r \in Requests, PostFile(r) PROVE FilesInv'
  BY <1>2 DEF PostFile
<1>3. ASSUME NEW r \in Requests, ValidateMetadata(r) PROVE FilesInv'
  BY <1>3 DEF ValidateMetadata
<1>4. ASSUME NEW r \in Requests, ValidateFile(r) PROVE FilesInv'
  BY <1>4 DEF ValidateFile
<1>5. ASSUME NEW r \in Requests, UpdateFileMetadata(r) PROVE FilesInv'
  BY <1>5 DEF UpdateFileMetadata
<1>6. ASSUME NEW r \in Requests, NEW f \in Files, GetRecordToDelete(r, f)
      PROVE  FilesInv'
  BY <1>6 DEF GetRecordToDelete
<1>7. ASSUME NEW r \in Requests, DeleteFileFromS3(r) PROVE FilesInv'
  BY <1>7 DEF DeleteFileFromS3
<1>8. ASSUME NEW r \in Requests, MarkDeleted(r) PROVE FilesInv'
  BY <1>8 DEF MarkDeleted
<1>9. ASSUME NEW r \in Requests, NEW f \in Files, GetFile(r, f) PROVE FilesInv'
  BY <1>9 DEF GetFile
<1>10. ASSUME NEW r \in Requests, Crash(r) PROVE FilesInv'
  BY <1>10 DEF Crash
<1>11. ASSUME NEW r \in Requests, ExpireUrl(r) PROVE FilesInv'
  BY <1>11 DEF ExpireUrl
<1>12. ASSUME NEW f \in Files, ExpireRecord(f) PROVE FilesInv'
  BY <1>12 DEF ExpireRecord
<1>13. ASSUME NEW r \in Requests, ExpireObject(r) PROVE FilesInv'
  BY <1>13 DEF ExpireObject
<1>14. ASSUME NEW r \in Requests, Redeliver(r) PROVE FilesInv'
  BY <1>14 DEF Redeliver
<1>15. CASE UNCHANGED vars
  BY <1>15 DEF vars
<1> HIDE DEF FilesInv
<1> QED
  BY <1>1, <1>2, <1>3, <1>4, <1>5, <1>6, <1>7, <1>8, <1>9, <1>10, <1>11,
     <1>12, <1>13, <1>14, <1>15
  DEF Next, HandlerStep, DeleteStep

LEMMA InitFiles == Init => FilesInv
<1> SUFFICES ASSUME Init PROVE FilesInv
  OBVIOUS
<1> USE DEF Init, Deleting, UploadInFlight
<1>1. TypeOK
  BY InitTyped
<1>2. UploadsOwn /\ UuidsMatch /\ InFlightIsCurrent
  BY <1>1 DEF UploadsOwn, UuidsMatch, InFlightIsCurrent, TypeOK
<1>3. PassedIsStored /\ DeleteIsFinal
  BY DEF PassedIsStored, DeleteIsFinal
<1>4. UploadedIsStored /\ UploadedIsGenuine /\ DeletedIsGone
  BY DEF UploadedIsStored, UploadedIsGenuine, DeletedIsGone
<1> QED
  BY <1>1, <1>2, <1>3, <1>4 DEF FilesInv

\* With FilesInv: an uploaded record names an object that is stored and valid,
\* a deleted one names no object, with the excuses that the properties name;
\* events may be delivered any number of times.
THEOREM RecordsMatchObjects ==
    Spec => [](UploadedIsStored /\ UploadedIsGenuine /\ DeletedIsGone)
<1>1. FilesInv /\ [Next]_vars => FilesInv'
  BY TypeInductive, FilesInvInductive DEF FilesInv
<1>2. FilesInv => UploadedIsStored /\ UploadedIsGenuine /\ DeletedIsGone
  BY DEF FilesInv
<1> QED
  BY InitFiles, <1>1, <1>2, PTL DEF Spec

\* A deleted record names no object of the bucket, unless its file was deleted,
\* or granted again, while an upload or a delete of it was in flight.
THEOREM DeletedObjectsAreGone == Spec => []DeletedIsGone
BY RecordsMatchObjects, PTL

\* The object of an uploaded record has been found valid, and was, though the
\* events of all uploads may be delivered again; but for a regranted file.
THEOREM UploadedObjectsAreGenuine == Spec => []UploadedIsGenuine
BY RecordsMatchObjects, PTL

-----------------------------------------------------------------------------
(* The two functions implement FileLife. *)

\* A record only gets its ttl when the handler has seen its upload.
PendingStays == \A f \in Files : status[f] = "pending" => f \notin expiring

LifeInv == FilesInv /\ PendingStays

LEMMA LifeInvInductive == LifeInv /\ [Next]_vars => LifeInv'
<1> SUFFICES ASSUME LifeInv, [Next]_vars PROVE LifeInv'
  OBVIOUS
<1>1. FilesInv'
  BY TypeInductive, FilesInvInductive DEF LifeInv, FilesInv
<1>2. PendingStays'
  <2> USE DEF LifeInv, FilesInv, TypeOK, PendingStays, recordVars
  <2>1. ASSUME NEW r \in Requests, NEW f \in Files, NEW g \in BOOLEAN, UploadFile(r, f, g)
        PROVE  PendingStays'
    BY <2>1 DEF UploadFile
  <2>2. ASSUME NEW r \in Requests, UpdateFileMetadata(r) PROVE PendingStays'
    BY <2>2 DEF UpdateFileMetadata
  <2>3. ASSUME NEW r \in Requests, MarkDeleted(r) PROVE PendingStays'
    BY <2>3 DEF MarkDeleted
  <2>4. ASSUME NEW f \in Files, ExpireRecord(f) PROVE PendingStays'
    BY <2>4 DEF ExpireRecord
  <2>5. ASSUME NEW r \in Requests, NEW f \in Files, GetRecordToDelete(r, f) \/ GetFile(r, f)
        PROVE  PendingStays'
    BY <2>5 DEF GetRecordToDelete, GetFile
  <2>6. ASSUME NEW r \in Requests,
               \/ PostFile(r) \/ Redeliver(r) \/ ValidateMetadata(r) \/ ValidateFile(r) \/ DeleteFileFromS3(r)
               \/ Crash(r) \/ ExpireUrl(r) \/ ExpireObject(r)
        PROVE  PendingStays'
    BY <2>6 DEF PostFile, Redeliver, ValidateMetadata, ValidateFile, DeleteFileFromS3, Crash, ExpireUrl,
                ExpireObject
  <2>7. CASE UNCHANGED vars
    BY <2>7 DEF vars
  <2> QED
    BY <2>1, <2>2, <2>3, <2>4, <2>5, <2>6, <2>7 DEF Next, HandlerStep, DeleteStep
<1> QED
  BY <1>1, <1>2 DEF LifeInv

\* What FileLife sees of one file, and of the uploads.
Same(f) ==
    /\ LifeOf(f)' = LifeOf(f)
    /\ UploadOf(f)' = UploadOf(f)
    /\ IsLeaving(f)' <=> IsLeaving(f)

Asked == {k \in Requests : op[k] = "upload"}
Leaving == {f \in Files : IsLeaving(f)}

LEMMA NoFileMoves ==
  ASSUME \A f \in Files : Same(f)
  PROVE  /\ [f \in Files |-> LifeOf(f)]' = [f \in Files |-> LifeOf(f)]
         /\ [f \in Files |-> UploadOf(f)]' = [f \in Files |-> UploadOf(f)]
         /\ Leaving' = Leaving
BY DEF Same, Leaving

LEMMA OneFileMoves ==
  ASSUME NEW f \in Files, \A g \in Files \ {f} : Same(g), NEW l, NEW k,
         LifeOf(f)' = l, UploadOf(f)' = k
  PROVE  /\ [g \in Files |-> LifeOf(g)]' = [[g \in Files |-> LifeOf(g)] EXCEPT ![f] = l]
         /\ [g \in Files |-> UploadOf(g)]' = [[g \in Files |-> UploadOf(g)] EXCEPT ![f] = k]
         /\ IsLeaving(f)' => Leaving' = Leaving \cup {f}
         /\ ~IsLeaving(f)' => Leaving' = Leaving \ {f}
         /\ (IsLeaving(f)' <=> IsLeaving(f)) => Leaving' = Leaving
BY DEF Same, Leaving

\* FileLife does not see what leaves the record, the deletes half way and the
\* excuses of a file alone.
HalfSame(f) == \A k \in Requests : HalfDeleted(f, k)' <=> HalfDeleted(f, k)

LEMMA SameFile ==
  ASSUME TypeOK, NEW f \in Files, status'[f] = status[f], uuid'[f] = uuid[f],
         (f \in Disturbed)' <=> f \in Disturbed, HalfSame(f)
  PROVE  Same(f)
BY DEF TypeOK, Uuids, HalfSame, Same, LifeOf, UploadOf, IsLeaving, Disturbed

\* A request that starts, or ends without success, has no delete half way.
LEMMA StartsNoHalf ==
  ASSUME FilesInv, NEW r \in Requests, op[r] = "none",
         NEW o, NEW g \in Files, op' = [op EXCEPT ![r] = o], file' = [file EXCEPT ![r] = g],
         \/ o # "delete" /\ UNCHANGED pc
            /\ (UNCHANGED seen \/ \E k : seen' = [seen EXCEPT ![r] = k])
         \/ UNCHANGED <<pc, seen>>
         \/ \E k : pc' = [pc EXCEPT ![r] = "deleteObject"] /\ seen' = [seen EXCEPT ![r] = k],
         UNCHANGED outcome \/ \E how : outcome' = [outcome EXCEPT ![r] = how],
         NEW f \in Files
  PROVE  HalfSame(f)
<1>1. ASSUME NEW q \in Requests \ {r}
      PROVE  op'[q] = op[q] /\ file'[q] = file[q] /\ pc'[q] = pc[q] /\ seen'[q] = seen[q]
             /\ outcome'[q] = outcome[q]
  BY DEF FilesInv, TypeOK
<1>2. ~(op[r] = "delete")
  OBVIOUS
<1>3. op'[r] # "delete" \/ pc'[r] # "markDeleted" \/ seen'[r] \notin Requests
  BY NoUuidAssumption DEF FilesInv, TypeOK, UuidsMatch
<1> QED
  BY <1>1, <1>2, <1>3 DEF HalfSame, HalfDeleted

-----------------------------------------------------------------------------
(* Each step maps to one of FileLife. *)

LEMMA QuietStepMaps ==
  ASSUME LifeInv, UNCHANGED <<status, uuid, regranted, hurried, genuine, objects, aged>>,
         Asked' = Asked, \A f \in Files : HalfSame(f)
  PROVE  UNCHANGED Life!vars
<1>1. ASSUME NEW f \in Files PROVE Same(f)
  BY SameFile DEF LifeInv, FilesInv, Disturbed
<1> QED
  BY <1>1, NoFileMoves DEF Life!vars, Asked, Leaving

LEMMA ContentStepMaps ==
  ASSUME LifeInv, NEW k \in Requests, PostFile(k) \/ ExpireObject(k)
  PROVE  Life!Store(k) \/ Life!Age(k)
<1> USE DEF recordVars, requestVars, historyVars
<1>1. ASSUME NEW f \in Files PROVE Same(f)
  <2>1. UNCHANGED <<status, uuid, op, file, pc, outcome, seen, regranted, hurried>>
    BY DEF PostFile, ExpireObject
  <2> QED
    BY <2>1, SameFile DEF LifeInv, FilesInv, Disturbed, HalfSame, HalfDeleted
<1>2. /\ [f \in Files |-> LifeOf(f)]' = [f \in Files |-> LifeOf(f)]
      /\ [f \in Files |-> UploadOf(f)]' = [f \in Files |-> UploadOf(f)]
      /\ Leaving' = Leaving
  BY <1>1, NoFileMoves
<1>3. CASE PostFile(k)
  <2>1. k \in Asked
    BY <1>3 DEF LifeInv, FilesInv, UploadsOwn, UploadInFlight, PostFile, Asked
  <2>2. ASSUME NEW f \in Files, LifeOf(f) = "deleted" PROVE UploadOf(f) # k
    BY <1>3, <2>2, NoUuidAssumption
    DEF LifeInv, FilesInv, DeleteIsFinal, LifeOf, UploadOf, Disturbed, UploadInFlight, PostFile
  <2>3. /\ objects' = objects \cup {k} /\ aged' = aged \ {k}
        /\ genuine' = genuine /\ Asked' = Asked
    BY <1>3 DEF PostFile, Asked
  <2> QED
    BY <1>2, <2>1, <2>2, <2>3 DEF Life!Store, Asked, Leaving
<1>4. CASE ExpireObject(k)
  <2>1. /\ k \in objects /\ objects' = objects \ {k} /\ aged' = aged \cup {k}
        /\ genuine' = genuine /\ Asked' = Asked
    BY <1>4 DEF ExpireObject, Asked
  <2> QED
    BY <1>2, <2>1 DEF Life!Age, Asked, Leaving
<1> QED
  BY <1>3, <1>4

LEMMA UploadMaps ==
  ASSUME LifeInv, LifeInv', NEW r \in Requests, NEW f \in Files, NEW g \in BOOLEAN,
         UploadFile(r, f, g)
  PROVE  \/ Life!Grant(f, r, g) \/ Life!Disturb(f)
         \/ Life!Refuse(r, g) \/ Life!Refuse(r, FALSE)
<1> USE DEF recordVars, LifeInv, FilesInv, TypeOK
<1>1. r \notin Asked /\ Asked' = Asked \cup {r}
  BY DEF UploadFile, Start, Asked
<1>2. UNCHANGED <<objects, aged, hurried>>
  BY DEF UploadFile
<1>3. /\ genuine' = (IF g THEN genuine \cup {r} ELSE genuine) => Life!Ask(r, g)
      /\ genuine' = genuine => Life!Ask(r, FALSE)
  BY <1>1, <1>2 DEF Life!Ask, Asked
<1>4. ASSUME NEW h \in Files PROVE HalfSame(h)
  <2>1. /\ op[r] = "none" /\ op' = [op EXCEPT ![r] = "upload"]
        /\ file' = [file EXCEPT ![r] = f] /\ UNCHANGED <<pc, seen>>
        /\ \E how : outcome' = [outcome EXCEPT ![r] = how]
    BY DEF UploadFile, Start, Finish
  <2> QED
    BY <2>1, StartsNoHalf
<1>5. ASSUME NEW h \in Files \ {f} PROVE Same(h)
  BY <1>2, <1>4, SameFile DEF UploadFile, Disturbed
<1>6. CASE status' = status
  <2>1. UNCHANGED <<status, uuid, regranted, hurried, genuine>>
    BY <1>6 DEF UploadFile, MayCreate
  <2>2. ASSUME NEW h \in Files PROVE Same(h)
    BY <2>1, <1>4, SameFile DEF Disturbed
  <2>3. Life!Ask(r, FALSE)
    BY <2>1, <1>3
  <2> QED
    BY <2>2, <2>3, NoFileMoves DEF Life!Refuse, Leaving
<1>7. CASE /\ MayCreate(f) /\ status' = [status EXCEPT ![f] = "pending"]
           /\ uuid' = [uuid EXCEPT ![f] = r]
           /\ regranted' = IF InUse(f) THEN regranted \cup {f} ELSE regranted
           /\ genuine' = IF g THEN genuine \cup {r} ELSE genuine
  <2>0. Life!Ask(r, g)
    BY <1>3, <1>7
  <2>1. CASE f \in Disturbed
    <3>1. f \in Disturbed'
      BY <1>2, <1>7, <2>1 DEF Disturbed
    <3>2. Same(f)
      BY <2>1, <3>1 DEF Same, LifeOf, UploadOf, IsLeaving
    <3> QED
      BY <3>2, <1>5, <2>0, NoFileMoves DEF Life!Refuse, Leaving
  <2>2. CASE f \notin Disturbed /\ f \in Disturbed'
    <3>1. LifeOf(f)' = "disturbed" /\ UploadOf(f)' = NoUuid /\ ~IsLeaving(f)'
      BY <2>2 DEF LifeOf, UploadOf, IsLeaving
    <3>2. LifeOf(f) \in Life!Lives \ {"disturbed"}
      BY <2>2 DEF LifeOf, Life!Lives, Statuses
    <3>3. /\ Leaving' = Leaving \ {f}
          /\ Life!Becomes(f, Life!Lives \ {"disturbed"}, "disturbed", NoUuid)
      BY <3>1, <3>2, <1>5, OneFileMoves DEF Life!Becomes
    <3> QED
      BY <3>3, <2>0 DEF Life!Disturb, Leaving
  <2>3. CASE f \notin Disturbed /\ f \notin Disturbed'
    <3>1. LifeOf(f)' = "pending" /\ UploadOf(f)' = r
      BY <1>7, <2>3 DEF LifeOf, UploadOf
    <3>2. LifeOf(f) \in {"absent", "invalid", "deleted"}
      BY <1>7, <2>3 DEF LifeOf, MayCreate
    <3>3. \A q \in Requests : seen[q] # r
      BY NoUuidAssumption DEF UploadFile, Start, UuidsMatch
    <3>4. ~IsLeaving(f)'
      BY <3>1, <3>3 DEF IsLeaving, HalfDeleted, UploadFile
    <3> QED
      BY <3>1, <3>2, <3>4, <1>5, <2>0, OneFileMoves DEF Life!Grant, Life!Becomes, Leaving
  <2> QED
    BY <2>1, <2>2, <2>3
<1> QED
  BY <1>6, <1>7 DEF UploadFile

LEMMA DeleteStartMaps ==
  ASSUME LifeInv, NEW r \in Requests, NEW f \in Files, GetRecordToDelete(r, f)
  PROVE  Life!Disturb(f) \/ UNCHANGED Life!vars
<1> USE DEF recordVars, bucketVars, LifeInv, FilesInv, TypeOK
<1>1. Asked' = Asked /\ UNCHANGED <<status, uuid, regranted, genuine, objects, aged>>
  BY DEF GetRecordToDelete, Start, Asked
<1>2. ASSUME NEW h \in Files PROVE HalfSame(h)
  <2>1. /\ op[r] = "none" /\ op' = [op EXCEPT ![r] = "delete"]
        /\ file' = [file EXCEPT ![r] = f]
        /\ \/ UNCHANGED <<pc, seen>>
           \/ \E k : pc' = [pc EXCEPT ![r] = "deleteObject"] /\ seen' = [seen EXCEPT ![r] = k]
        /\ UNCHANGED outcome \/ \E how : outcome' = [outcome EXCEPT ![r] = how]
    BY DEF GetRecordToDelete, Start, Finish
  <2> QED
    BY <2>1, StartsNoHalf
<1>3. CASE hurried' = hurried \/ f \in Disturbed
  <2>1. ASSUME NEW h \in Files PROVE Same(h)
    BY <1>1, <1>2, <1>3, SameFile DEF GetRecordToDelete, Disturbed
  <2> QED
    BY <2>1, <1>1, NoFileMoves DEF Life!vars, Asked, Leaving
<1>4. CASE hurried' = hurried \cup {f} /\ f \notin Disturbed
  <2>1. ASSUME NEW h \in Files \ {f} PROVE Same(h)
    BY <1>1, <1>2, <1>4, SameFile DEF Disturbed
  <2>2. LifeOf(f)' = "disturbed" /\ UploadOf(f)' = NoUuid /\ ~IsLeaving(f)'
    BY <1>4 DEF LifeOf, UploadOf, IsLeaving, Disturbed
  <2>3. LifeOf(f) \in Life!Lives \ {"disturbed"}
    BY <1>4 DEF LifeOf, Life!Lives, Statuses
  <2> QED
    BY <2>1, <2>2, <2>3, <1>1, OneFileMoves
    DEF Life!Disturb, Life!Becomes, Life!contentVars, Asked, Leaving
<1> QED
  BY <1>3, <1>4 DEF GetRecordToDelete

LEMMA RedeliveryMaps ==
  ASSUME LifeInv, NEW k \in Requests, NEW f \in Files, f = file[k], Redeliver(k)
  PROVE  Life!Disturb(f) \/ UNCHANGED Life!vars
<1> USE DEF recordVars, bucketVars, requestVars, LifeInv, FilesInv, TypeOK
<1>1. /\ Asked' = Asked
      /\ UNCHANGED <<status, uuid, hurried, genuine, objects, aged, op, file, pc, seen, outcome>>
  BY DEF Redeliver, Asked
<1>2. ASSUME NEW h \in Files PROVE HalfSame(h)
  BY <1>1 DEF HalfSame, HalfDeleted
<1>3. CASE regranted' = regranted \/ f \in Disturbed
  <2>1. ASSUME NEW h \in Files PROVE Same(h)
    BY <1>1, <1>2, <1>3, SameFile DEF Redeliver, Disturbed
  <2> QED
    BY <2>1, <1>1, NoFileMoves DEF Life!vars, Asked, Leaving
<1>4. CASE regranted' = regranted \cup {f} /\ f \notin Disturbed
  <2>1. ASSUME NEW h \in Files \ {f} PROVE Same(h)
    BY <1>1, <1>2, <1>4, SameFile DEF Disturbed
  <2>2. LifeOf(f)' = "disturbed" /\ UploadOf(f)' = NoUuid /\ ~IsLeaving(f)'
    BY <1>4 DEF LifeOf, UploadOf, IsLeaving, Disturbed
  <2>3. LifeOf(f) \in Life!Lives \ {"disturbed"}
    BY <1>4 DEF LifeOf, Life!Lives, Statuses
  <2> QED
    BY <2>1, <2>2, <2>3, <1>1, OneFileMoves
    DEF Life!Disturb, Life!Becomes, Life!contentVars, Asked, Leaving
<1> QED
  BY <1>3, <1>4 DEF Redeliver

LEMMA VerdictMaps ==
  ASSUME LifeInv, NEW k \in Requests, NEW f \in Files, f = file[k], UpdateFileMetadata(k)
  PROVE  Life!Accept(f) \/ Life!Reject(f) \/ UNCHANGED Life!vars
<1> USE DEF bucketVars, requestVars, historyVars, LifeInv, FilesInv, TypeOK
<1>1. /\ Asked' = Asked
      /\ UNCHANGED <<uuid, regranted, hurried, genuine, objects, aged, op, file, pc, seen,
                     outcome>>
  BY DEF UpdateFileMetadata, Asked
<1>2. ASSUME NEW h \in Files PROVE HalfSame(h) /\ ((h \in Disturbed)' <=> h \in Disturbed)
  BY <1>1 DEF HalfSame, HalfDeleted, Disturbed
<1>3. ASSUME NEW h \in Files \ {f} PROVE Same(h)
  BY <1>1, <1>2, SameFile DEF UpdateFileMetadata
<1>4. CASE UNCHANGED status \/ f \in Disturbed
  <2>1. Same(f)
    BY <1>1, <1>2, <1>4, SameFile DEF Same, LifeOf, UploadOf, IsLeaving
  <2> QED
    BY <2>1, <1>1, <1>3, NoFileMoves DEF Life!vars, Asked, Leaving
<1>5. CASE /\ status[f] = "pending" /\ f \notin Disturbed
           /\ status' = [status EXCEPT ![f] = IF k \in passed THEN "uploaded" ELSE "invalid"]
  <2>1. UploadOf(f) = k
    BY <1>5, NoUuidAssumption
    DEF UploadOf, InFlightIsCurrent, UploadInFlight, UuidsMatch, UpdateFileMetadata, HandlerAt,
        Disturbed
  <2>2. UploadOf(f)' = k
    BY <2>1, <1>1, <1>2 DEF UploadOf
  <2>3. IsLeaving(f)' <=> IsLeaving(f)
    BY <2>1, <2>2, <1>2 DEF IsLeaving, HalfSame
  <2>4. LifeOf(f) = "pending"
    BY <1>5 DEF LifeOf
  <2>5. CASE k \in passed
    <3>1. LifeOf(f)' = "uploaded"
      BY <1>5, <2>5, <1>2 DEF LifeOf
    <3>2. k \in genuine /\ (k \in objects \/ IsLeaving(f))
      BY <1>5, <2>1, <2>5, NoUuidAssumption
      DEF PassedIsStored, UpdateFileMetadata, HandlerAt, IsLeaving, Disturbed
    <3> QED
      BY <3>1, <3>2, <2>1, <2>2, <2>3, <2>4, <1>1, <1>3, OneFileMoves
      DEF Life!Accept, Life!Becomes, Life!contentVars, Asked, Leaving
  <2>6. CASE k \notin passed
    <3>1. LifeOf(f)' = "invalid"
      BY <1>5, <2>6, <1>2 DEF LifeOf
    <3> QED
      BY <3>1, <2>1, <2>2, <2>3, <2>4, <1>1, <1>3, OneFileMoves
      DEF Life!Reject, Life!Becomes, Life!contentVars, Asked, Leaving
  <2> QED
    BY <2>5, <2>6
<1> QED
  BY <1>4, <1>5 DEF UpdateFileMetadata

LEMMA DeleteObjectMaps ==
  ASSUME LifeInv, NEW r \in Requests, NEW f \in Files, f = file[r], DeleteFileFromS3(r)
  PROVE  Life!Leave(f) \/ (seen[r] \in Requests /\ Life!Drop(seen[r])) \/ UNCHANGED Life!vars
<1> USE DEF recordVars, historyVars, handlerVars, LifeInv, FilesInv, TypeOK
<1>1. /\ Asked' = Asked
      /\ UNCHANGED <<status, uuid, regranted, hurried, genuine, aged, op, file, seen>>
  BY DEF DeleteFileFromS3, Asked
<1>2. ASSUME NEW h \in Files \ {f} PROVE Same(h)
  <2>1. HalfSame(h)
    BY <1>1 DEF HalfSame, HalfDeleted, DeleteFileFromS3, DeleteAt, Finish
  <2> QED
    BY <2>1, <1>1, SameFile DEF Disturbed
<1>3. LifeOf(f)' = LifeOf(f) /\ UploadOf(f)' = UploadOf(f)
  BY <1>1 DEF LifeOf, UploadOf, Disturbed
<1>4. CASE UNCHANGED <<objects, pc>> \/ seen[r] = NoUuid
  <2>1. UNCHANGED objects
    <3>1. objects \ {NoUuid} = objects
      BY NoUuidAssumption
    <3> QED
      BY <1>4, <3>1 DEF DeleteFileFromS3
  <2>2. ASSUME NEW k \in Requests
        PROVE  HalfDeleted(f, k)' <=> HalfDeleted(f, k)
    BY <1>4, <1>1, NoUuidAssumption
    DEF HalfDeleted, DeleteFileFromS3, DeleteAt, Deleting, Finish
  <2>3. Same(f)
    BY <2>2, <1>1, SameFile DEF HalfSame, Disturbed
  <2> QED
    BY <2>1, <2>3, <1>1, <1>2, NoFileMoves DEF Life!vars, Asked, Leaving
<1>5. CASE /\ objects' = objects \ {seen[r]} /\ seen[r] \in Requests
           /\ pc' = [pc EXCEPT ![r] = "markDeleted"] /\ UNCHANGED outcome
  <2>1. CASE UploadOf(f) = seen[r]
    <3>1. IsLeaving(f)'
      BY <1>5, <1>1, <1>3, <2>1, NoUuidAssumption
      DEF IsLeaving, HalfDeleted, DeleteFileFromS3, DeleteAt, Deleting
    <3>2. Leaving' = Leaving \cup {f}
      BY <3>1, <1>2 DEF Same, Leaving
    <3>3. /\ [h \in Files |-> LifeOf(h)]' = [h \in Files |-> LifeOf(h)]
          /\ [h \in Files |-> UploadOf(h)]' = [h \in Files |-> UploadOf(h)]
      BY <1>2, <1>3 DEF Same
    <3> QED
      BY <3>2, <3>3, <2>1, <1>1, <1>5, NoUuidAssumption DEF Life!Leave, Asked, Leaving
  <2>2. CASE UploadOf(f) # seen[r]
    <3>1. IsLeaving(f)' <=> IsLeaving(f)
      BY <1>5, <1>1, <1>3, <2>2 DEF IsLeaving, HalfDeleted
    <3>2. ASSUME NEW h \in Files PROVE UploadOf(h) # seen[r]
      BY <2>2, <1>5, NoUuidAssumption DEF UploadOf, UuidsMatch
    <3> QED
      BY <3>1, <3>2, <1>1, <1>2, <1>3, <1>5, NoFileMoves DEF Life!Drop, Same, Asked, Leaving
  <2> QED
    BY <2>1, <2>2
<1> QED
  BY <1>4, <1>5 DEF DeleteFileFromS3, Uuids

LEMMA DeleteMaps ==
  ASSUME LifeInv, NEW r \in Requests, NEW f \in Files, f = file[r], MarkDeleted(r)
  PROVE  Life!Delete(f) \/ UNCHANGED Life!vars
<1> USE DEF bucketVars, historyVars, handlerVars, LifeInv, FilesInv, TypeOK
<1>1. /\ Asked' = Asked
      /\ UNCHANGED <<uuid, regranted, hurried, genuine, objects, aged, op, file, pc, seen>>
  BY DEF MarkDeleted, Asked
<1>2. ASSUME NEW h \in Files \ {f} PROVE Same(h)
  <2>1. HalfSame(h)
    BY <1>1 DEF HalfSame, HalfDeleted, MarkDeleted, DeleteAt, Finish
  <2> QED
    BY <2>1, <1>1, SameFile DEF MarkDeleted, Disturbed
<1>3. CASE \/ f \in Disturbed
           \/ UNCHANGED status /\ outcome' = [outcome EXCEPT ![r] = "FAILED"]
  <2>1. Same(f)
    <3>1. CASE f \in Disturbed
      BY <3>1, <1>1 DEF Same, LifeOf, UploadOf, IsLeaving, Disturbed
    <3>2. CASE UNCHANGED status /\ outcome' = [outcome EXCEPT ![r] = "FAILED"]
      <4>1. HalfSame(f)
        BY <1>1, <3>2 DEF HalfSame, HalfDeleted, MarkDeleted, DeleteAt, Deleting, Finish
      <4> QED
        BY <4>1, <1>1, <3>2, SameFile DEF Disturbed
    <3> QED
      BY <1>3, <3>1, <3>2
  <2> QED
    BY <2>1, <1>1, <1>2, NoFileMoves DEF Life!vars, Asked, Leaving
<1>4. CASE /\ f \notin Disturbed /\ status' = [status EXCEPT ![f] = "deleted"]
           /\ outcome' = [outcome EXCEPT ![r] = "SUCCESS"]
  <2>1. /\ LifeOf(f) \in Life!Lives \ {"disturbed"}
        /\ LifeOf(f)' = "deleted" /\ UploadOf(f)' = UploadOf(f)
    BY <1>1, <1>4 DEF LifeOf, UploadOf, Disturbed, Life!Lives, Statuses
  <2>2. UploadOf(f) \notin objects
    BY <1>4, NoUuidAssumption
    DEF UploadOf, Disturbed, InFlightIsCurrent, DeleteIsFinal, MarkDeleted, DeleteAt
  <2>3. IsLeaving(f)' => IsLeaving(f)
    BY <1>1, <1>4, <2>1 DEF IsLeaving, HalfDeleted
  <2>4. Leaving' \in {Leaving, Leaving \ {f}}
    BY <2>3, <1>2 DEF Same, Leaving
  <2>5. Life!Becomes(f, Life!Lives \ {"disturbed"}, "deleted", UploadOf(f))
    <3>1. [g \in Files |-> LifeOf(g)]'
              = [[g \in Files |-> LifeOf(g)] EXCEPT ![f] = "deleted"]
      BY <2>1, <1>2 DEF Same
    <3>2. [g \in Files |-> UploadOf(g)]'
              = [[g \in Files |-> UploadOf(g)] EXCEPT ![f] = UploadOf(f)]
      BY <2>1, <1>2 DEF Same
    <3> QED
      BY <3>1, <3>2, <2>1 DEF Life!Becomes
  <2> QED
    BY <2>2, <2>4, <2>5, <1>1 DEF Life!Delete, Life!contentVars, Asked, Leaving
<1> QED
  BY <1>3, <1>4 DEF MarkDeleted, Finish

LEMMA ExpireMaps ==
  ASSUME LifeInv, NEW f \in Files, ExpireRecord(f)
  PROVE  Life!Expire(f) \/ UNCHANGED Life!vars
<1> USE DEF bucketVars, requestVars, historyVars, LifeInv, FilesInv, TypeOK
<1>1. /\ Asked' = Asked
      /\ UNCHANGED <<regranted, hurried, genuine, objects, aged, op, file, pc, seen, outcome>>
  BY DEF ExpireRecord, Asked
<1>2. ASSUME NEW h \in Files \ {f} PROVE Same(h)
  BY <1>1, SameFile DEF ExpireRecord, Disturbed, HalfSame, HalfDeleted
<1>3. CASE f \in Disturbed
  <2>1. Same(f)
    BY <1>1, <1>3 DEF Same, LifeOf, UploadOf, IsLeaving, Disturbed
  <2> QED
    BY <2>1, <1>1, <1>2, NoFileMoves DEF Life!vars, Asked, Leaving
<1>4. CASE f \notin Disturbed
  <2>1. status[f] \in {"uploaded", "invalid", "deleted"}
    BY DEF ExpireRecord, PendingStays, Statuses
  <2>2. /\ LifeOf(f) \in {"uploaded", "invalid", "deleted"}
        /\ LifeOf(f)' = "absent" /\ UploadOf(f)' = NoUuid /\ ~IsLeaving(f)'
    BY <2>1, <1>1, <1>4 DEF ExpireRecord, LifeOf, UploadOf, IsLeaving, Disturbed
  <2> QED
    BY <2>2, <1>1, <1>2, OneFileMoves
    DEF Life!Expire, Life!Becomes, Life!contentVars, Asked, Leaving
<1> QED
  BY <1>3, <1>4

LEMMA LifeStepMaps == LifeInv /\ LifeInv' /\ [Next]_vars => [Life!Next]_(Life!vars)
<1> SUFFICES ASSUME LifeInv, LifeInv', [Next]_vars PROVE [Life!Next]_(Life!vars)
  OBVIOUS
<1>1. ASSUME NEW r \in Requests, NEW f \in Files, NEW g \in BOOLEAN, UploadFile(r, f, g)
      PROVE  [Life!Next]_(Life!vars)
  BY <1>1, UploadMaps DEF Life!Next
<1>2. ASSUME NEW r \in Requests, NEW f \in Files, GetRecordToDelete(r, f)
      PROVE  [Life!Next]_(Life!vars)
  BY <1>2, DeleteStartMaps DEF Life!Next
<1>3. ASSUME NEW r \in Requests, NEW f \in Files, GetFile(r, f)
      PROVE  UNCHANGED Life!vars
  <2>1. /\ op[r] = "none" /\ op' = [op EXCEPT ![r] = "get"]
        /\ file' = [file EXCEPT ![r] = f] /\ UNCHANGED pc
        /\ UNCHANGED seen \/ \E k : seen' = [seen EXCEPT ![r] = k]
        /\ \E how : outcome' = [outcome EXCEPT ![r] = how]
    BY <1>3 DEF GetFile, Start, Finish
  <2>2. \A h \in Files : HalfSame(h)
    BY <2>1, StartsNoHalf DEF LifeInv
  <2>3. Asked' = Asked
    BY <2>1 DEF Asked, LifeInv, FilesInv, TypeOK
  <2> QED
    BY <1>3, <2>2, <2>3, QuietStepMaps DEF GetFile, recordVars, bucketVars, historyVars
<1>4. ASSUME NEW r \in Requests, PostFile(r) \/ ExpireObject(r)
      PROVE  [Life!Next]_(Life!vars)
  BY <1>4, ContentStepMaps DEF Life!Next
<1>5. ASSUME NEW r \in Requests,
             ValidateMetadata(r) \/ ValidateFile(r) \/ Crash(r) \/ ExpireUrl(r)
      PROVE  UNCHANGED Life!vars
  <2> USE <1>5 DEF recordVars, bucketVars, requestVars, handlerVars, historyVars
  <2>1. UNCHANGED <<status, uuid, regranted, hurried, genuine, objects, aged,
                    op, file, pc, seen>>
    BY DEF ValidateMetadata, ValidateFile, Crash, ExpireUrl
  <2>2. \/ UNCHANGED outcome
        \/ outcome[r] = "running" /\ outcome' = [outcome EXCEPT ![r] = "FAILED"]
    BY DEF ValidateMetadata, ValidateFile, Crash, ExpireUrl, Deleting, Finish
  <2>3. \A f \in Files : HalfSame(f)
    BY <2>1, <2>2 DEF HalfSame, HalfDeleted, LifeInv, FilesInv, TypeOK
  <2> QED
    BY <2>1, <2>3, QuietStepMaps DEF Asked
<1>6. ASSUME NEW r \in Requests,
             Redeliver(r) \/ UpdateFileMetadata(r) \/ DeleteFileFromS3(r) \/ MarkDeleted(r)
      PROVE  [Life!Next]_(Life!vars)
  <2>1. PICK f \in Files : f = file[r]
    BY DEF LifeInv, FilesInv, TypeOK
  <2> QED
    BY <1>6, <2>1, RedeliveryMaps, VerdictMaps, DeleteObjectMaps, DeleteMaps DEF Life!Next
<1>7. ASSUME NEW f \in Files, ExpireRecord(f) PROVE [Life!Next]_(Life!vars)
  BY <1>7, ExpireMaps DEF Life!Next
<1>8. CASE UNCHANGED vars
  BY <1>8, QuietStepMaps DEF vars, Asked, HalfSame, HalfDeleted
<1> QED
  BY <1>1, <1>2, <1>3, <1>4, <1>5, <1>6, <1>7, <1>8 DEF Next, HandlerStep, DeleteStep

LEMMA InitLife == Init => Life!Init
<1> SUFFICES ASSUME Init PROVE Life!Init
  OBVIOUS
<1>1. ASSUME NEW f \in Files
      PROVE  LifeOf(f) = "absent" /\ UploadOf(f) = NoUuid /\ ~IsLeaving(f)
  BY DEF Init, LifeOf, UploadOf, IsLeaving, Disturbed
<1>2. Asked = {} /\ genuine = {} /\ objects = {} /\ aged = {}
  BY DEF Init, Asked
<1> QED
  BY <1>1, <1>2 DEF Life!Init, Asked

\* The two Lambda functions implement FileLife: an undisturbed file is accepted
\* only for stored and genuine content, keeps it until it is old or deleted, is
\* deleted only after it, and none of it comes back.
THEOREM LifeIsFollowed == Spec => FollowsLife
<1>1. Init => LifeInv
  BY InitFiles DEF LifeInv, PendingStays, Init
<1> QED
  BY <1>1, InitLife, LifeInvInductive, LifeStepMaps, PTL DEF Spec, FollowsLife, Life!Spec
=============================================================================
