------------------------------- MODULE ImageStore -------------------------------
(* Images: rows, the files they refer to, uploads that reuse the file of an    *)
(* equal image, soft deletion, and the task that cleans up orphaned files.     *)
(* Every file has size 1.                                                      *)
(*   src/internal/service/system/imageSvc.go                                   *)
(*   src/internal/repository/system/imageRepo.go                               *)
(*   src/pkg/imageops/orphan_cleanup.go, soft_delete.go                        *)
EXTENDS Naturals, FiniteSets

CONSTANTS Requests,      \* concurrent upload requests
          Owners,        \* uploaders
          Contents,      \* what a file may contain: its hash
          Cleaners,      \* processes that run the clean-up task
          Quota,         \* UserQuotaMB
          MaxUploads,    \* static.max_uploads: files of one request
          MaxImages,     \* bound: rows, and files, ever created
          MaxImageFaults \* bound: faults of each kind

\* A storage call fails or its reply is lost; a statement fails, a process dies or
\* the client's context is cancelled; the configuration changes.
ImageFaultKinds == {"storage", "end", "config"}

ASSUME ImageAssumption ==
    /\ Quota \in Nat \ {0} /\ MaxUploads \in Nat /\ MaxImages \in Nat
    /\ MaxImageFaults \in [ImageFaultKinds -> Nat]

Ids == 1..MaxImages
Keys == 1..MaxImages

VARIABLES image,         \* id -> state of the row, its key, content and owner
          files,         \* the keys the storage holds
          keys,          \* keys given out so far
          request,       \* request -> pc, owner, files left, content, key
          cleaner,       \* cleaner -> pc, keys listed, keys whose file is gone
          raced,         \* history: keys listed under an upload that reuses them
          stranded,      \* history: keys of uploads that ended before their row, and
                         \* of files the clean-up did not find where it looked
          elsewhere,     \* keys of files the drivers do not look for where they are
          imageFaults    \* kind -> faults so far

imageVars ==
    <<image, files, keys, request, cleaner, raced, stranded, elsewhere, imageFaults>>

NoImage == [state |-> "none", key |-> 0, content |-> 0, owner |-> 0]
IdleRequest == [pc |-> "idle", owner |-> 0, left |-> 0, content |-> 0, key |-> 0]
Look(o, n) == [pc |-> "look", owner |-> o, left |-> n, content |-> 0, key |-> 0]
IdleCleaner == [pc |-> "idle", todo |-> {}, done |-> {}]

ImageTypeOK ==
    /\ image \in [Ids -> [state : {"none", "live", "deleted", "gone"}, key : 0..MaxImages,
                          content : Contents \cup {0}, owner : Owners \cup {0}]]
    /\ files \subseteq Keys /\ keys \in 0..MaxImages
    /\ request \in [Requests -> [pc : {"idle", "look", "upload", "create"},
                                 owner : Owners \cup {0}, left : 0..MaxUploads,
                                 content : Contents \cup {0}, key : 0..MaxImages]]
    /\ cleaner \in [Cleaners -> [pc : {"idle", "files"},
                                 todo : SUBSET Keys, done : SUBSET Keys]]
    /\ raced \subseteq Keys /\ stranded \subseteq Keys /\ elsewhere \subseteq Keys
    /\ imageFaults \in [ImageFaultKinds -> Nat]

ImageInit ==
    /\ image = [i \in Ids |-> NoImage]
    /\ files = {} /\ keys = 0
    /\ request = [r \in Requests |-> IdleRequest]
    /\ cleaner = [c \in Cleaners |-> IdleCleaner]
    /\ raced = {} /\ stranded = {} /\ elsewhere = {}
    /\ imageFaults = [k \in ImageFaultKinds |-> 0]

ImageFault(k) == /\ imageFaults[k] < MaxImageFaults[k]
                 /\ imageFaults' = [imageFaults EXCEPT ![k] = @ + 1]

NoImageFault == UNCHANGED imageFaults

Rows(state) == {i \in Ids : image[i].state = state}

-----------------------------------------------------------------------------
(* Uploads                                                                    *)

\* SumSizeByUploader counts the live rows.
Usage(o) == Cardinality({i \in Rows("live") : image[i].owner = o})

\* checkQuota, once for all files of the request and before the first of them.
CheckQuota(r, o, n) ==
    /\ request[r].pc = "idle"
    /\ Usage(o) + n <= Quota
    /\ request' = [request EXCEPT ![r] = Look(o, n)]
    /\ NoImageFault
    /\ UNCHANGED <<image, files, keys, cleaner, raced, stranded, elsewhere>>

First(rows) == CHOOSE i \in rows : \A j \in rows : i <= j

\* GetByFileHash: the first live row of the same content lends its key.
LookUpHash(r, c) ==
    LET same == {i \in Rows("live") : image[i].content = c} IN
    /\ request[r].pc = "look"
    /\ request' = [request EXCEPT ![r] =
         [@ EXCEPT !.content = c,
                   !.pc = IF same = {} THEN "upload" ELSE "create",
                   !.key = IF same = {} THEN 0 ELSE image[First(same)].key]]
    /\ NoImageFault
    /\ UNCHANGED <<image, files, keys, cleaner, raced, stranded, elsewhere>>

\* The drivers make a key of their own for every upload.
Upload(r) ==
    /\ request[r].pc = "upload"
    /\ keys < MaxImages
    /\ keys' = keys + 1
    /\ files' = files \cup {keys + 1}
    /\ request' = [request EXCEPT ![r] = [@ EXCEPT !.pc = "create", !.key = keys + 1]]
    /\ NoImageFault
    /\ UNCHANGED <<image, cleaner, raced, stranded, elsewhere>>

End(r) == request' = [request EXCEPT ![r] = IdleRequest]

\* The driver gives up; what it stored before that nobody knows of.
UploadError(r) ==
    /\ request[r].pc = "upload"
    /\ keys < MaxImages
    /\ keys' = keys + 1
    /\ \/ UNCHANGED <<files, stranded>>
       \/ /\ files' = files \cup {keys + 1}
          /\ stranded' = stranded \cup {keys + 1}
    /\ End(r)
    /\ ImageFault("storage")
    /\ UNCHANGED <<image, cleaner, raced, elsewhere>>

NextFile(r) ==
    request' = [request EXCEPT ![r] =
      IF request[r].left = 1 THEN IdleRequest
                             ELSE Look(request[r].owner, request[r].left - 1)]

\* The row of an uploaded file or, with createInstantUploadRecord, one more row
\* for a file that is there; then the next file of the request.
CreateRecord(r) ==
    /\ request[r].pc = "create"
    /\ Rows("none") # {}
    /\ image' = [image EXCEPT ![First(Rows("none"))] =
                   [state |-> "live", key |-> request[r].key,
                    content |-> request[r].content, owner |-> request[r].owner]]
    /\ NextFile(r)
    /\ NoImageFault
    /\ UNCHANGED <<files, keys, cleaner, raced, stranded, elsewhere>>

\* A key that only this request knows.
Own(r) == {request[r].key} \ ({0} \cup {image[i].key : i \in Rows("live") \cup Rows("deleted")})

\* A statement fails, the context is cancelled or the process dies: the request
\* ends, the files it has recorded before stay.
UploadEnds(r) ==
    /\ request[r].pc # "idle"
    /\ stranded' = IF request[r].pc = "create" THEN stranded \cup Own(r) ELSE stranded
    /\ End(r)
    /\ ImageFault("end")
    /\ UNCHANGED <<image, files, keys, cleaner, raced, elsewhere>>

\* Delete, and the replacement of an avatar: the file stays for the clean-up.
SoftDelete(i) ==
    /\ image[i].state = "live"
    /\ image' = [image EXCEPT ![i].state = "deleted"]
    /\ NoImageFault
    /\ UNCHANGED <<files, keys, request, cleaner, raced, stranded, elsewhere>>

-----------------------------------------------------------------------------
(* CleanOrphanFiles                                                           *)

KeysOf(rows) == {image[i].key : i \in rows}

\* Faulty: a deleted row is enough.
Orphans_AnyDeleted == KeysOf(Rows("deleted"))

\* Keys with a deleted row and no live one.
Orphans == KeysOf(Rows("deleted")) \ KeysOf(Rows("live"))

\* An upload that has looked up a key and not yet recorded it is not seen.
FindOrphanKeys(c) ==
    /\ cleaner[c].pc = "idle" /\ Orphans # {}
    /\ cleaner' = [cleaner EXCEPT ![c] = [pc |-> "files", todo |-> Orphans, done |-> {}]]
    /\ raced' = raced \cup {k \in Orphans : \E r \in Requests : request[r].pc = "create"
                                                            /\ request[r].key = k}
    /\ NoImageFault
    /\ UNCHANGED <<image, files, keys, request, stranded, elsewhere>>

\* The cleaner is through with the key k; gone are the keys it knows deleted.
Through(c, k, gone) ==
    cleaner' = [cleaner EXCEPT ![c] =
      [pc |-> "files", todo |-> @.todo \ {k}, done |-> @.done \cup gone]]

\* The service starts again with another directory, bucket or set of drivers.
InitStorage ==
    /\ \A c \in Cleaners : cleaner[c].pc = "idle"
    /\ elsewhere' \in SUBSET (1..keys)
    /\ ImageFault("config")
    /\ UNCHANGED <<image, files, keys, request, cleaner, raced, stranded>>

\* A file that does not exist counts as deleted; so does one that the driver of its
\* row, or else the current one, looks for in the wrong place.
DeleteFile(c) ==
    \E k \in cleaner[c].todo :
      /\ files' = files \ ({k} \ elsewhere)
      /\ stranded' = stranded \cup ({k} \cap elsewhere)
      /\ Through(c, k, {k})
      /\ NoImageFault
      /\ UNCHANGED <<image, keys, request, raced, elsewhere>>

\* Its rows stay, for the next run to find the key again.
DeleteFileError(c) ==
    \E k \in cleaner[c].todo :
      /\ files' \in {files, files \ ({k} \ elsewhere)}
      /\ Through(c, k, {})
      /\ ImageFault("storage")
      /\ UNCHANGED <<image, keys, request, raced, stranded, elsewhere>>

\* HardDeleteByKeys, for the keys whose file is gone.
HardDelete(c) ==
    /\ cleaner[c].pc = "files" /\ cleaner[c].todo = {}
    /\ image' = [i \in Ids |-> IF image[i].state = "deleted" /\ image[i].key \in cleaner[c].done
                                 THEN [NoImage EXCEPT !.state = "gone"] ELSE image[i]]
    /\ cleaner' = [cleaner EXCEPT ![c] = IdleCleaner]
    /\ NoImageFault
    /\ UNCHANGED <<files, keys, request, raced, stranded, elsewhere>>

\* The statement fails or the process dies: the rows are left to the next run.
CleanerEnds(c) ==
    /\ cleaner[c].pc # "idle"
    /\ cleaner' = [cleaner EXCEPT ![c] = IdleCleaner]
    /\ ImageFault("end")
    /\ UNCHANGED <<image, files, keys, request, raced, stranded, elsewhere>>

ImageNext ==
    \/ InitStorage
    \/ \E r \in Requests : \/ \E o \in Owners, n \in 1..MaxUploads : CheckQuota(r, o, n)
                          \/ \E c \in Contents : LookUpHash(r, c)
                          \/ Upload(r) \/ UploadError(r) \/ CreateRecord(r) \/ UploadEnds(r)
    \/ \E i \in Ids : SoftDelete(i)
    \/ \E c \in Cleaners : \/ FindOrphanKeys(c) \/ DeleteFile(c) \/ DeleteFileError(c)
                          \/ HardDelete(c) \/ CleanerEnds(c)

ImageSpec == ImageInit /\ [][ImageNext]_imageVars

-----------------------------------------------------------------------------
(* What must hold                                                             *)

\* Rows and files agree while uploads reuse keys that others delete and two
\* clean-ups run.  A live row has its file, unless the key was listed as
\* orphaned under an upload that had just looked it up; and a file is known to a
\* row or to the request that stores it, unless that request ended too early or
\* the clean-up looked for the file where the configuration no longer has it.
FilesFollowRows ==
    /\ \A i \in Rows("live") : image[i].key \in files \cup raced
    /\ \A k \in files : \/ k \in KeysOf(Rows("live") \cup Rows("deleted"))
                        \/ \E r \in Requests : request[r].pc = "create" /\ request[r].key = k
                        \/ k \in stranded
=============================================================================
