---------------------------- MODULE BackgroundProofs ----------------------------
(* Proofs about the background parts of the process: the spans that go through  *)
(* the Redis stream to their table, the images and their files, and the metrics *)
(* from the counts in memory to the rows of the days, for any number of         *)
(* processes, spans, requests, minutes, rows and faults.                        *)
EXTENDS SpanPipeline, ImageStore, MetricRollup, FiniteSetTheorems, SequenceTheorems,
        WellFoundedInduction, TLAPS

-----------------------------------------------------------------------------
(* The inductive invariant of the span pipeline                                *)

\* What the group holds was in the stream and has been delivered.
DeliveredIsKnown ==
    /\ cursor <= Len(stream)
    /\ pending \subseteq 1..cursor
    /\ \A p \in Procs : batch[p] \subseteq 1..cursor

BuffersAreFinite == \A p \in Procs : IsFiniteSet(buffer[p])

\* A batch that is about to be acknowledged has its rows.
StoredHasRows ==
    \A p \in Procs : stored[p] => \A i \in batch[p] : table[stream[i]] # "absent"

AcknowledgedHasRow == \A i \in 1..cursor : i \notin pending => table[stream[i]] # "absent"

\* A writer turns to the database because Redis has failed.
FallbackNeedsFault == spanFaults["redis"] = 0 => \A p \in Procs : ~fallback[p]

OnItsWay(s) == Held(s) \/ InStream(s) \/ table[s] # "absent"

AcceptedIsOnItsWay ==
    spanFaults["stop"] = 0 /\ (spanFaults["redis"] = 0 \/ spanFaults["db"] = 0) =>
      \A s \in Spans : sent[s] = "accepted" => OnItsWay(s)

SpanInv == /\ SpanTypeOK /\ DeliveredIsKnown /\ BuffersAreFinite /\ StoredHasRows
           /\ AcknowledgedHasRow /\ FallbackNeedsFault /\ AcceptedIsOnItsWay

-----------------------------------------------------------------------------
(* The inductive invariant of the image store                                  *)

Referenced == KeysOf(Rows("live") \cup Rows("deleted"))

\* The request r is about to write a row with the key k.
Recording(r, k) == request[r].pc = "create" /\ request[r].key = k

\* A request in progress has files left; only keys that were given out are known
\* to anyone.
KeysAreGiven ==
    /\ files \subseteq 1..keys
    /\ \A i \in Ids : image[i].state \in {"live", "deleted"} => image[i].key \in 1..keys
    /\ \A r \in Requests : /\ request[r].pc = "create" => request[r].key \in 1..keys
                           /\ request[r].pc # "idle" => request[r].left # 0
    /\ \A c \in Cleaners : cleaner[c].todo \subseteq 1..keys /\ cleaner[c].done \subseteq 1..keys

LiveHasFile == \A i \in Ids : image[i].state = "live" => image[i].key \in files \cup raced

RecordingHasFile ==
    \A r \in Requests : request[r].pc = "create" => request[r].key \in files \cup raced

\* A key that a clean-up is going to delete has no live row and no upload on its
\* way to one, unless it was raced when it was listed.
TodoIsUnused ==
    \A c \in Cleaners : \A k \in cleaner[c].todo \ raced :
      /\ \A i \in Ids : image[i].state = "live" => image[i].key # k
      /\ \A r \in Requests : ~Recording(r, k)

\* No file comes back under a key that a clean-up has deleted, and what it left
\* where it was is stranded.
DoneIsGone == \A c \in Cleaners : cleaner[c].done \cap files \subseteq stranded

FilesAreKnown ==
    \A k \in files : k \in Referenced \/ (\E r \in Requests : Recording(r, k)) \/ k \in stranded

ImageInv == /\ ImageTypeOK /\ KeysAreGiven /\ LiveHasFile /\ RecordingHasFile
            /\ TodoIsUnused /\ DoneIsGone /\ FilesAreKnown

-----------------------------------------------------------------------------
(* Images                                                                      *)

LEMMA FirstIs ==
    ASSUME NEW rows \in SUBSET Ids, rows # {}
    PROVE  First(rows) \in rows
<1>1. IsWellFoundedOn(OpToRel(<,Nat), Nat)
  BY NatLessThanWellFounded
<1>2. rows \in SUBSET Nat
  BY DEF Ids
<1>3. PICK i \in rows : \A j \in rows : ~ (<<j, i>> \in OpToRel(<, Nat))
  BY <1>1, <1>2, WFMin
<1>4. \A j \in rows : j < i => <<j, i>> \in OpToRel(<, Nat)
  BY <1>2 DEF OpToRel
<1>5. \A j \in rows : ~(j < i)
  BY <1>3, <1>4, Zenon
<1>6. \A j \in rows : i <= j
  BY <1>2, <1>5
<1>7. \E m \in rows : \A j \in rows : m <= j
  BY <1>6
<1> QED
  BY <1>7 DEF First

LEMMA ImageFaultIs ==
    ASSUME ImageTypeOK, NEW k \in ImageFaultKinds, ImageFault(k)
    PROVE  imageFaults' \in [ImageFaultKinds -> Nat]
  BY DEF ImageTypeOK, ImageFault

RowType == [state : {"none", "live", "deleted", "gone"}, key : 0..MaxImages,
            content : Contents \cup {0}, owner : Owners \cup {0}]

RequestType == [pc : {"idle", "look", "upload", "create"}, owner : Owners \cup {0},
                left : 0..MaxUploads, content : Contents \cup {0}, key : 0..MaxImages]

LEMMA RequestIsTyped ==
    ASSUME ImageTypeOK, NEW r \in Requests, NEW new \in RequestType,
           request' = [request EXCEPT ![r] = new]
    PROVE  /\ request' \in [Requests -> RequestType]
           /\ request'[r] = new
           /\ \A q \in Requests : q # r => request'[q] = request[q]
  BY DEF ImageTypeOK, RequestType

\* What an upload and a look-up make of the record of a request.
Stored(q, k) == [q EXCEPT !.pc = "create", !.key = k]
Looked(q, c, pc, k) == [q EXCEPT !.content = c, !.pc = pc, !.key = k]

LEMMA StoredIs ==
    ASSUME NEW q \in RequestType, NEW k \in 0..MaxImages
    PROVE  /\ Stored(q, k) \in RequestType
           /\ Stored(q, k).pc = "create" /\ Stored(q, k).key = k
           /\ Stored(q, k).left = q.left
  BY DEF RequestType, Stored

LEMMA LookedIs ==
    ASSUME NEW q \in RequestType, NEW c \in Contents, NEW k \in 0..MaxImages,
           NEW pc \in {"upload", "create"}
    PROVE  /\ Looked(q, c, pc, k) \in RequestType
           /\ Looked(q, c, pc, k).pc = pc /\ Looked(q, c, pc, k).key = k
           /\ Looked(q, c, pc, k).left = q.left
  BY DEF RequestType, Looked

LEMMA ReferencedStays == UNCHANGED image => Referenced' = Referenced
  BY DEF Referenced, KeysOf, Rows

LEMMA ImageTypedInit == ImageInit => ImageInv
<1> SUFFICES ASSUME ImageInit PROVE ImageInv
  OBVIOUS
<1> USE DEF ImageInit, NoImage, IdleRequest, IdleCleaner
<1>1. ImageTypeOK
  BY ImageAssumption DEF ImageTypeOK, Ids, Keys
<1>2. KeysAreGiven
  BY DEF KeysAreGiven
<1>3. LiveHasFile /\ RecordingHasFile /\ TodoIsUnused /\ DoneIsGone /\ FilesAreKnown
  BY DEF LiveHasFile, RecordingHasFile, TodoIsUnused, DoneIsGone, FilesAreKnown
<1> QED
  BY <1>1, <1>2, <1>3 DEF ImageInv

LEMMA CheckQuotaKeeps ==
    ASSUME ImageInv, NEW r \in Requests, NEW o \in Owners, NEW n \in 1..MaxUploads,
           CheckQuota(r, o, n)
    PROVE  ImageInv'
<1> USE DEF ImageInv, Recording
<1> DEFINE new == Look(o, n)
<1>1. request' = [request EXCEPT ![r] = new]
  BY DEF CheckQuota
<1>2. new \in RequestType /\ new.pc = "look" /\ new.left # 0
  BY ImageAssumption DEF RequestType, Look
<1>3. /\ request' \in [Requests -> RequestType]
      /\ request'[r].pc = "look" /\ request'[r].left # 0 /\ request[r].pc = "idle"
      /\ \A q \in Requests : q # r => request'[q] = request[q]
  BY <1>1, <1>2, RequestIsTyped DEF CheckQuota
<1>4. UNCHANGED <<image, files, keys, cleaner, raced, stranded, elsewhere, imageFaults>>
  BY DEF CheckQuota, NoImageFault
<1> HIDE DEF new
<1>5. ImageTypeOK'
  BY <1>3, <1>4 DEF ImageTypeOK, RequestType
<1>6. KeysAreGiven'
  BY <1>3, <1>4 DEF KeysAreGiven
<1>7. LiveHasFile' /\ RecordingHasFile' /\ TodoIsUnused' /\ DoneIsGone'
  BY <1>3, <1>4 DEF LiveHasFile, RecordingHasFile, TodoIsUnused, DoneIsGone
<1>8. FilesAreKnown'
  BY <1>3, <1>4, ReferencedStays DEF FilesAreKnown
<1> QED
  BY <1>5, <1>6, <1>7, <1>8

LEMMA LookUpHashKeeps ==
    ASSUME ImageInv, NEW r \in Requests, NEW c \in Contents, LookUpHash(r, c)
    PROVE  ImageInv'
<1> USE DEF ImageInv, Recording
<1> DEFINE same == {i \in Rows("live") : image[i].content = c}
           row == First(same)
           key == IF same = {} THEN 0 ELSE image[row].key
           pc == IF same = {} THEN "upload" ELSE "create"
           new == Looked(request[r], c, pc, key)
<1>1. same # {} => row \in Ids /\ image[row].state = "live"
  <2>1. same \in SUBSET Ids /\ \A i \in same : image[i].state = "live"
    BY DEF Rows
  <2> QED
    BY <2>1, FirstIs
<1>2. same # {} => key \in 1..keys /\ key \in files \cup raced
  BY <1>1 DEF KeysAreGiven, LiveHasFile
<1>3. key \in 0..MaxImages
  BY <1>1, ImageAssumption DEF ImageTypeOK
<1>4. UNCHANGED <<image, files, keys, cleaner, raced, stranded, elsewhere, imageFaults>>
  BY DEF LookUpHash, NoImageFault
<1>5. request[r].pc = "look" /\ request' = [request EXCEPT ![r] = new]
  BY DEF LookUpHash, Looked
<1>6. pc = (IF same = {} THEN "upload" ELSE "create") /\ pc \in {"upload", "create"}
  OBVIOUS
<1> HIDE DEF same, row, key, pc
<1>7. /\ new \in RequestType
      /\ new.pc = pc /\ new.key = key /\ new.left = request[r].left
  <2>1. request[r] \in RequestType
    BY DEF ImageTypeOK, RequestType
  <2> QED
    BY <1>3, <1>6, <2>1, LookedIs
<1> HIDE DEF new
<1>8. /\ request' \in [Requests -> RequestType]
      /\ request'[r] = new
      /\ \A q \in Requests : q # r => request'[q] = request[q]
  BY <1>5, <1>7, RequestIsTyped
<1>9. ImageTypeOK'
  BY <1>4, <1>8 DEF ImageTypeOK, RequestType
<1>10. KeysAreGiven'
  BY <1>2, <1>4, <1>5, <1>7, <1>8, <1>6 DEF KeysAreGiven
<1>11. RecordingHasFile' /\ LiveHasFile' /\ DoneIsGone'
  BY <1>2, <1>4, <1>7, <1>8, <1>6 DEF RecordingHasFile, LiveHasFile, DoneIsGone
<1>12. TodoIsUnused'
  <2>1. same # {} => \E i \in Ids : image[i].state = "live" /\ image[i].key = key
    BY <1>1 DEF key
  <2> QED
    BY <1>4, <1>6, <1>7, <1>8, <2>1 DEF TodoIsUnused
<1>13. FilesAreKnown'
  BY <1>4, <1>5, <1>8, ReferencedStays, <1>6 DEF FilesAreKnown
<1> QED
  BY <1>9, <1>10, <1>11, <1>12, <1>13

LEMMA UploadKeeps ==
    ASSUME ImageInv, NEW r \in Requests, Upload(r)
    PROVE  ImageInv'
<1> USE DEF ImageInv, Recording
<1> DEFINE new == Stored(request[r], keys + 1)
<1>1. keys \in Nat /\ keys + 1 \in Keys /\ keys' = keys + 1 /\ keys' \in 0..MaxImages
  BY ImageAssumption DEF ImageTypeOK, Keys, Upload
<1>2. /\ files' = files \cup {keys + 1} /\ request[r].pc = "upload"
      /\ UNCHANGED <<image, cleaner, raced, stranded, elsewhere, imageFaults>>
  BY DEF Upload, NoImageFault
<1>3. request' = [request EXCEPT ![r] = new]
  BY DEF Upload, Stored
<1>4. /\ new \in RequestType
      /\ new.pc = "create" /\ new.key = keys + 1 /\ new.left = request[r].left
  <2>1. request[r] \in RequestType /\ keys + 1 \in 0..MaxImages
    BY <1>1 DEF ImageTypeOK, RequestType
  <2> QED
    BY <2>1, StoredIs
<1> HIDE DEF new
<1>5. /\ request' \in [Requests -> RequestType]
      /\ request'[r] = new
      /\ \A q \in Requests : q # r => request'[q] = request[q]
  BY <1>3, <1>4, RequestIsTyped
<1>6. ImageTypeOK'
  BY <1>1, <1>2, <1>5 DEF ImageTypeOK, RequestType
<1>7. 1..keys \subseteq 1..keys' /\ keys + 1 \in 1..keys' /\ keys + 1 \notin 1..keys
  BY <1>1
<1>8. KeysAreGiven'
  BY <1>2, <1>4, <1>5, <1>7 DEF KeysAreGiven
<1>9. \A c \in Cleaners : keys + 1 \notin cleaner[c].todo /\ keys + 1 \notin cleaner[c].done
  BY <1>7 DEF KeysAreGiven
<1>10. RecordingHasFile' /\ LiveHasFile'
  BY <1>2, <1>4, <1>5 DEF RecordingHasFile, LiveHasFile
<1>11. DoneIsGone'
  BY <1>2, <1>9 DEF DoneIsGone
<1>12. TodoIsUnused'
  BY <1>2, <1>4, <1>5, <1>9 DEF TodoIsUnused
<1>13. FilesAreKnown'
  BY <1>2, <1>4, <1>5, ReferencedStays DEF FilesAreKnown
<1> QED
  BY <1>6, <1>8, <1>10, <1>11, <1>12, <1>13

\* A request that ends while it does not record anything, or whose key somebody
\* else knows or the history has noted, leaves no file unknown.
LEMMA EndKeeps ==
    ASSUME ImageInv, NEW r \in Requests, End(r),
           UNCHANGED <<image, files, keys, cleaner, raced, elsewhere>>,
           stranded \subseteq stranded', stranded' \subseteq Keys,
           imageFaults' \in [ImageFaultKinds -> Nat],
           request[r].pc = "create" => request[r].key \in Referenced \cup stranded'
    PROVE  ImageInv'
<1> USE DEF ImageInv, Recording
<1>0. IdleRequest \in RequestType /\ IdleRequest.pc = "idle"
  BY ImageAssumption DEF RequestType, IdleRequest
<1>1. /\ request' \in [Requests -> RequestType]
      /\ request'[r].pc = "idle"
      /\ \A q \in Requests : q # r => request'[q] = request[q]
  BY <1>0, RequestIsTyped DEF End
<1>2. ImageTypeOK'
  BY <1>1 DEF ImageTypeOK, RequestType
<1>3. KeysAreGiven'
  BY <1>1 DEF KeysAreGiven
<1>4. RecordingHasFile' /\ LiveHasFile' /\ DoneIsGone'
  BY <1>1 DEF RecordingHasFile, LiveHasFile, DoneIsGone
<1>5. TodoIsUnused'
  BY <1>1 DEF TodoIsUnused
<1>6. Referenced' = Referenced
  BY ReferencedStays
<1>7. FilesAreKnown'
  BY <1>1, <1>6 DEF FilesAreKnown
<1> QED
  BY <1>2, <1>3, <1>4, <1>5, <1>7

LEMMA UploadErrorKeeps ==
    ASSUME ImageInv, NEW r \in Requests, UploadError(r)
    PROVE  ImageInv'
<1> USE DEF ImageInv, Recording
<1>1. keys \in Nat /\ keys + 1 \in Keys /\ keys' = keys + 1 /\ keys' \in 0..MaxImages
  BY ImageAssumption DEF ImageTypeOK, Keys, UploadError
<1>2. /\ request[r].pc = "upload"
      /\ UNCHANGED <<image, cleaner, raced, elsewhere>>
      /\ imageFaults' \in [ImageFaultKinds -> Nat]
  BY ImageFaultIs DEF UploadError, ImageFaultKinds
<1>3. \/ UNCHANGED <<files, stranded>>
      \/ files' = files \cup {keys + 1} /\ stranded' = stranded \cup {keys + 1}
  BY DEF UploadError
<1>4. IdleRequest \in RequestType /\ IdleRequest.pc = "idle"
  BY ImageAssumption DEF RequestType, IdleRequest
<1>5. /\ request' \in [Requests -> RequestType]
      /\ request'[r].pc = "idle"
      /\ \A q \in Requests : q # r => request'[q] = request[q]
  BY <1>4, RequestIsTyped DEF End, UploadError
<1>6. ImageTypeOK'
  BY <1>1, <1>2, <1>3, <1>5 DEF ImageTypeOK, RequestType
<1>7. 1..keys \subseteq 1..keys' /\ keys + 1 \in 1..keys' /\ keys + 1 \notin 1..keys
  BY <1>1
<1>8. KeysAreGiven'
  BY <1>2, <1>3, <1>5, <1>7 DEF KeysAreGiven
<1>9. \A c \in Cleaners : keys + 1 \notin cleaner[c].done
  BY <1>7 DEF KeysAreGiven
<1>10. RecordingHasFile' /\ LiveHasFile'
  BY <1>2, <1>3, <1>5 DEF RecordingHasFile, LiveHasFile
<1>11. DoneIsGone'
  BY <1>2, <1>3, <1>9 DEF DoneIsGone
<1>12. TodoIsUnused'
  BY <1>2, <1>5 DEF TodoIsUnused
<1>13. FilesAreKnown'
  BY <1>2, <1>3, <1>5, ReferencedStays DEF FilesAreKnown
<1> QED
  BY <1>6, <1>8, <1>10, <1>11, <1>12, <1>13

LEMMA UploadEndsKeeps ==
    ASSUME ImageInv, NEW r \in Requests, UploadEnds(r)
    PROVE  ImageInv'
<1>1. End(r) /\ UNCHANGED <<image, files, keys, cleaner, raced, elsewhere>>
  BY DEF UploadEnds
<1>2. imageFaults' \in [ImageFaultKinds -> Nat]
  BY ImageFaultIs DEF UploadEnds, ImageFaultKinds, ImageInv
<1>3. request[r].pc = "create" => request[r].key \in Keys
  BY DEF ImageInv, ImageTypeOK, KeysAreGiven, Keys
<1>4. stranded \subseteq stranded' /\ stranded' \subseteq Keys
  BY <1>3 DEF UploadEnds, Own, ImageInv, ImageTypeOK
<1>5. request[r].pc = "create" => request[r].key \in Referenced \cup stranded'
  <2> SUFFICES ASSUME request[r].pc = "create" PROVE request[r].key \in Referenced \cup stranded'
    OBVIOUS
  <2>1. request[r].key # 0
    BY <1>3 DEF Keys
  <2>2. stranded' = stranded \cup Own(r)
    BY DEF UploadEnds
  <2> QED
    BY <2>1, <2>2 DEF Own, Referenced, KeysOf
<1> QED
  BY <1>1, <1>2, <1>4, <1>5, EndKeeps

LEMMA CreateRecordKeeps ==
    ASSUME ImageInv, NEW r \in Requests, CreateRecord(r)
    PROVE  ImageInv'
<1> USE DEF ImageInv, Recording
<1> DEFINE row == First(Rows("none"))
           new == [state |-> "live", key |-> request[r].key,
                   content |-> request[r].content, owner |-> request[r].owner]
           next == IF request[r].left = 1 THEN IdleRequest
                                          ELSE Look(request[r].owner, request[r].left - 1)
<1>1. row \in Ids /\ image[row].state = "none"
  <2>1. Rows("none") \in SUBSET Ids /\ Rows("none") # {}
    BY DEF Rows, CreateRecord
  <2>2. row \in Rows("none")
    BY <2>1, FirstIs
  <2> QED
    BY <2>2 DEF Rows
<1>2. /\ request[r].pc = "create"
      /\ image' = [image EXCEPT ![row] = new]
      /\ request' = [request EXCEPT ![r] = next]
      /\ UNCHANGED <<files, keys, cleaner, raced, stranded, elsewhere, imageFaults>>
  BY DEF CreateRecord, NextFile, NoImageFault
<1>3. request[r].key \in 1..keys /\ request[r].key \in files \cup raced
  BY <1>2 DEF KeysAreGiven, RecordingHasFile
<1>4. new \in RowType
  BY DEF ImageTypeOK, RowType
<1>5. next \in RequestType /\ next.pc # "create" /\ (next.pc # "idle" => next.left # 0)
  <2>1. IdleRequest \in RequestType /\ IdleRequest.pc = "idle"
    BY ImageAssumption DEF RequestType, IdleRequest
  <2>2. /\ request[r].owner \in Owners \cup {0}
        /\ request[r].left \in 0..MaxUploads /\ request[r].left # 0
    BY <1>2 DEF ImageTypeOK, KeysAreGiven
  <2>3. request[r].left # 1 => /\ request[r].left - 1 \in 0..MaxUploads
                               /\ request[r].left - 1 # 0
    BY <2>2, ImageAssumption
  <2>4. \A o \in Owners \cup {0}, n \in 0..MaxUploads :
          /\ Look(o, n) \in RequestType
          /\ Look(o, n).pc = "look" /\ Look(o, n).left = n
    BY ImageAssumption DEF RequestType, Look
  <2> QED
    BY <2>1, <2>2, <2>3, <2>4
<1>6. /\ image'[row] = new
      /\ \A i \in Ids : i # row => image'[i] = image[i]
      /\ image' \in [Ids -> RowType]
  BY <1>1, <1>2, <1>4 DEF ImageTypeOK, RowType
<1>7. new.state = "live" /\ new.key = request[r].key
  OBVIOUS
<1> HIDE DEF row, new, next
<1>8. /\ request' \in [Requests -> RequestType]
      /\ request'[r] = next
      /\ \A q \in Requests : q # r => request'[q] = request[q]
  BY <1>2, <1>5, RequestIsTyped
<1>9. ImageTypeOK'
  BY <1>2, <1>6, <1>8 DEF ImageTypeOK, RequestType, RowType
<1>10. KeysAreGiven'
  BY <1>2, <1>3, <1>5, <1>6, <1>7, <1>8 DEF KeysAreGiven
<1>11. RecordingHasFile' /\ LiveHasFile' /\ DoneIsGone'
  BY <1>2, <1>3, <1>5, <1>6, <1>7, <1>8 DEF RecordingHasFile, LiveHasFile, DoneIsGone
<1>12. TodoIsUnused'
  BY <1>2, <1>5, <1>6, <1>7, <1>8 DEF TodoIsUnused
<1>13. Referenced \subseteq Referenced' /\ request[r].key \in Referenced'
  BY <1>1, <1>6, <1>7 DEF Referenced, KeysOf, Rows
<1>14. FilesAreKnown'
  BY <1>2, <1>8, <1>13 DEF FilesAreKnown
<1> QED
  BY <1>9, <1>10, <1>11, <1>12, <1>14

LEMMA SoftDeleteKeeps ==
    ASSUME ImageInv, NEW i \in Ids, SoftDelete(i)
    PROVE  ImageInv'
<1> USE DEF ImageInv
<1>1. /\ image[i].state = "live"
      /\ image' = [image EXCEPT ![i].state = "deleted"]
      /\ UNCHANGED <<files, keys, request, cleaner, raced, stranded, elsewhere, imageFaults>>
  BY DEF SoftDelete, NoImageFault
<1>2. /\ image'[i].state = "deleted" /\ image'[i].key = image[i].key
      /\ \A j \in Ids : j # i => image'[j] = image[j]
  BY <1>1 DEF ImageTypeOK
<1>3. ImageTypeOK'
  <2> DEFINE new == [image[i] EXCEPT !.state = "deleted"]
  <2>1. new \in RowType
    BY DEF ImageTypeOK, RowType
  <2>2. image' = [image EXCEPT ![i] = new]
    BY <1>1
  <2> HIDE DEF new
  <2>3. image' \in [Ids -> RowType]
    BY <2>1, <2>2 DEF ImageTypeOK, RowType
  <2> QED
    BY <1>1, <2>3 DEF ImageTypeOK, RowType
<1>4. KeysAreGiven'
  BY <1>1, <1>2 DEF KeysAreGiven
<1>5. RecordingHasFile' /\ LiveHasFile' /\ DoneIsGone'
  BY <1>1, <1>2 DEF RecordingHasFile, LiveHasFile, DoneIsGone
<1>6. TodoIsUnused'
  BY <1>1, <1>2 DEF TodoIsUnused, Recording
<1>7. Referenced' = Referenced
  BY <1>1, <1>2 DEF Referenced, KeysOf, Rows
<1>8. FilesAreKnown'
  BY <1>1, <1>7 DEF FilesAreKnown, Recording
<1> QED
  BY <1>3, <1>4, <1>5, <1>6, <1>8

CleanerType == [pc : {"idle", "files"}, todo : SUBSET Keys, done : SUBSET Keys]

\* A step of a clean-up that changes no row: what it has left to do was unused,
\* what it has done is gone.
LEMMA CleanerKeeps ==
    ASSUME ImageInv, NEW c \in Cleaners, NEW new \in CleanerType,
           cleaner' = [cleaner EXCEPT ![c] = new],
           UNCHANGED <<image, keys, request, elsewhere>>,
           stranded \subseteq stranded', stranded' \subseteq Keys,
           imageFaults' \in [ImageFaultKinds -> Nat],
           files' \subseteq files, raced \subseteq raced', raced' \subseteq Keys,
           new.todo \subseteq 1..keys, new.done \subseteq 1..keys,
           \A k \in new.todo \ raced' :
             /\ \A i \in Ids : image[i].state = "live" => image[i].key # k
             /\ \A r \in Requests : ~Recording(r, k),
           new.done \cap files' \subseteq stranded',
           \A k \in files \ files' : k \in cleaner[c].todo
    PROVE  ImageInv'
<1> USE DEF ImageInv
<1>1. /\ cleaner' \in [Cleaners -> CleanerType]
      /\ cleaner'[c] = new
      /\ \A d \in Cleaners : d # c => cleaner'[d] = cleaner[d]
  BY DEF ImageTypeOK, CleanerType
<1>2. ImageTypeOK'
  BY <1>1 DEF ImageTypeOK, CleanerType
<1>3. KeysAreGiven'
  BY <1>1 DEF KeysAreGiven
<1>4. LiveHasFile'
  BY DEF LiveHasFile, TodoIsUnused
<1>5. RecordingHasFile'
  BY DEF RecordingHasFile, TodoIsUnused, Recording
<1>6. DoneIsGone'
  BY <1>1 DEF DoneIsGone
<1>7. TodoIsUnused'
  BY <1>1 DEF TodoIsUnused, Recording
<1>8. FilesAreKnown'
  BY ReferencedStays DEF FilesAreKnown, Recording
<1> QED
  BY <1>2, <1>3, <1>4, <1>5, <1>6, <1>7, <1>8

LEMMA FindOrphanKeysKeeps ==
    ASSUME ImageInv, NEW c \in Cleaners, FindOrphanKeys(c)
    PROVE  ImageInv'
<1> DEFINE new == [pc |-> "files", todo |-> Orphans, done |-> {}]
<1>1. Orphans \subseteq 1..keys /\ 1..keys \subseteq Keys
  BY ImageAssumption DEF ImageInv, ImageTypeOK, KeysAreGiven, Orphans, KeysOf, Rows, Keys
<1>2. new \in CleanerType /\ new.todo = Orphans /\ new.done = {}
  BY <1>1 DEF CleanerType
<1>3. /\ cleaner' = [cleaner EXCEPT ![c] = new]
      /\ UNCHANGED <<image, keys, request, stranded, elsewhere, files, imageFaults>>
      /\ raced' = raced \cup {k \in Orphans : \E r \in Requests : Recording(r, k)}
  BY DEF FindOrphanKeys, NoImageFault, Recording
<1> HIDE DEF new
<1>4. raced \subseteq raced' /\ raced' \subseteq Keys
  BY <1>1, <1>3 DEF ImageInv, ImageTypeOK
<1>5. \A k \in Orphans \ raced' :
        /\ \A i \in Ids : image[i].state = "live" => image[i].key # k
        /\ \A r \in Requests : ~Recording(r, k)
  BY <1>3 DEF Orphans, KeysOf, Rows
<1>6. imageFaults' \in [ImageFaultKinds -> Nat] /\ stranded' \subseteq Keys
  BY <1>3 DEF ImageInv, ImageTypeOK
<1> QED
  BY <1>1, <1>2, <1>3, <1>4, <1>5, <1>6, CleanerKeeps

LEMMA DeleteFileKeeps ==
    ASSUME ImageInv, NEW c \in Cleaners, DeleteFile(c) \/ DeleteFileError(c)
    PROVE  ImageInv'
<1>1. PICK k \in cleaner[c].todo, gone \in SUBSET Keys :
        /\ gone \subseteq {k}
        /\ files' \in {files, files \ {k}} /\ gone \cap files' \subseteq stranded'
        /\ stranded' \in {stranded, stranded \cup {k}}
        /\ Through(c, k, gone)
        /\ UNCHANGED imageFaults \/ ImageFault("storage")
        /\ UNCHANGED <<image, keys, request, raced, elsewhere>>
  <2>1. CASE DeleteFile(c)
    <3>1. PICK k \in cleaner[c].todo :
            /\ files' = files \ ({k} \ elsewhere) /\ Through(c, k, {k})
            /\ stranded' = stranded \cup ({k} \cap elsewhere)
            /\ UNCHANGED <<image, keys, request, raced, elsewhere, imageFaults>>
      BY <2>1 DEF DeleteFile, NoImageFault
    <3>2. {k} \in SUBSET Keys /\ {k} \cap files' \subseteq stranded'
      BY <3>1 DEF ImageInv, ImageTypeOK
    <3>3. files' \in {files, files \ {k}} /\ stranded' \in {stranded, stranded \cup {k}}
      <4>1. CASE k \in elsewhere
        BY <3>1, <4>1
      <4>2. CASE k \notin elsewhere
        BY <3>1, <4>2
      <4> QED
        BY <4>1, <4>2
    <3> QED
      BY <3>1, <3>2, <3>3
  <2>2. CASE DeleteFileError(c)
    <3>1. PICK k \in cleaner[c].todo :
            /\ files' \in {files, files \ ({k} \ elsewhere)} /\ Through(c, k, {})
            /\ ImageFault("storage")
            /\ UNCHANGED <<image, keys, request, raced, stranded, elsewhere>>
      BY <2>2 DEF DeleteFileError
    <3>2. {} \in SUBSET Keys /\ {} \subseteq {k} /\ {} \cap files' \subseteq stranded'
      OBVIOUS
    <3>3. files' \in {files, files \ {k}}
      <4>1. CASE k \in elsewhere
        BY <3>1, <4>1
      <4>2. CASE k \notin elsewhere
        BY <3>1, <4>2
      <4> QED
        BY <4>1, <4>2
    <3> QED
      BY <3>1, <3>2, <3>3
  <2> QED
    BY <2>1, <2>2
<1> DEFINE new == [pc |-> "files", todo |-> cleaner[c].todo \ {k},
                   done |-> cleaner[c].done \cup gone]
<1>3. cleaner[c] \in CleanerType /\ k \in Keys
  BY DEF ImageInv, ImageTypeOK, CleanerType
<1>4. /\ new \in CleanerType
      /\ new.todo = cleaner[c].todo \ {k} /\ new.done = cleaner[c].done \cup gone
  BY <1>3 DEF CleanerType
<1>5. cleaner' = [cleaner EXCEPT ![c] = new]
  BY <1>1 DEF Through
<1> HIDE DEF new
<1>6. files' \subseteq files /\ \A f \in files \ files' : f \in cleaner[c].todo
  BY <1>1
<1>7. /\ cleaner[c].todo \subseteq 1..keys /\ cleaner[c].done \subseteq 1..keys
      /\ cleaner[c].done \cap files \subseteq stranded
  BY DEF ImageInv, KeysAreGiven, DoneIsGone
<1>8. new.todo \subseteq 1..keys /\ new.done \subseteq 1..keys /\ new.done \cap files' \subseteq stranded'
  BY <1>1, <1>4, <1>6, <1>7
<1>9. \A f \in new.todo \ raced' :
        /\ \A i \in Ids : image[i].state = "live" => image[i].key # f
        /\ \A r \in Requests : ~Recording(r, f)
  BY <1>1, <1>4 DEF ImageInv, TodoIsUnused
<1>10. imageFaults' \in [ImageFaultKinds -> Nat]
  BY <1>1, ImageFaultIs DEF ImageInv, ImageTypeOK, ImageFaultKinds
<1>11. /\ raced' \subseteq Keys /\ raced \subseteq raced'
       /\ stranded' \subseteq Keys /\ stranded \subseteq stranded'
  BY <1>1, <1>3 DEF ImageInv, ImageTypeOK
<1> QED
  BY <1>1, <1>4, <1>5, <1>6, <1>8, <1>9, <1>10, <1>11, CleanerKeeps

LEMMA IdleCleanerIs ==
    /\ IdleCleaner \in CleanerType
    /\ IdleCleaner.todo = {} /\ IdleCleaner.done = {}
  BY DEF IdleCleaner, CleanerType

LEMMA CleanerEndsKeeps ==
    ASSUME ImageInv, NEW c \in Cleaners, CleanerEnds(c)
    PROVE  ImageInv'
<1>1. /\ cleaner' = [cleaner EXCEPT ![c] = IdleCleaner]
      /\ UNCHANGED <<image, files, keys, request, raced, stranded, elsewhere>>
  BY DEF CleanerEnds
<1>2. imageFaults' \in [ImageFaultKinds -> Nat]
  BY ImageFaultIs DEF CleanerEnds, ImageFaultKinds, ImageInv
<1>3. raced' \subseteq Keys /\ stranded' \subseteq Keys /\ DoneIsGone
  BY <1>1 DEF ImageInv, ImageTypeOK
<1> QED
  BY <1>1, <1>2, <1>3, IdleCleanerIs, CleanerKeeps

\* The rows that go have a key whose file is gone, or stranded.
LEMMA HardDeleteKeeps ==
    ASSUME ImageInv, NEW c \in Cleaners, HardDelete(c)
    PROVE  ImageInv'
<1> USE DEF ImageInv
<1> DEFINE gone == [NoImage EXCEPT !.state = "gone"]
           Goes(i) == image[i].state = "deleted" /\ image[i].key \in cleaner[c].done
<1>1. /\ image' = [i \in Ids |-> IF Goes(i) THEN gone ELSE image[i]]
      /\ cleaner' = [cleaner EXCEPT ![c] = IdleCleaner]
      /\ UNCHANGED <<files, keys, request, raced, stranded, elsewhere, imageFaults>>
  BY DEF HardDelete, NoImageFault
<1>2. gone \in RowType /\ gone.state = "gone"
  BY ImageAssumption DEF RowType, NoImage
<1> HIDE DEF gone
<1>3. image' \in [Ids -> RowType]
  BY <1>1, <1>2 DEF ImageTypeOK, RowType
<1>4. /\ cleaner' \in [Cleaners -> CleanerType]
      /\ cleaner'[c] = IdleCleaner
      /\ \A d \in Cleaners : d # c => cleaner'[d] = cleaner[d]
  BY <1>1, IdleCleanerIs DEF ImageTypeOK, CleanerType
<1>5. \A i \in Ids : \/ image'[i] = image[i]
                     \/ Goes(i) /\ image'[i].state = "gone"
  BY <1>1, <1>2
<1>6. ImageTypeOK'
  BY <1>1, <1>3, <1>4 DEF ImageTypeOK, RowType, CleanerType
<1>7. KeysAreGiven'
  BY <1>1, <1>4, <1>5, IdleCleanerIs DEF KeysAreGiven
<1>8. RecordingHasFile' /\ LiveHasFile'
  BY <1>1, <1>5 DEF RecordingHasFile, LiveHasFile
<1>9. DoneIsGone'
  BY <1>1, <1>4, IdleCleanerIs DEF DoneIsGone
<1>10. TodoIsUnused'
  BY <1>1, <1>4, <1>5, IdleCleanerIs DEF TodoIsUnused, Recording
<1>11. Referenced \cap files \subseteq Referenced' \cup stranded
  BY <1>5 DEF Referenced, KeysOf, Rows, DoneIsGone
<1>12. FilesAreKnown'
  BY <1>1, <1>11 DEF FilesAreKnown, Recording
<1> QED
  BY <1>6, <1>7, <1>8, <1>9, <1>10, <1>12

LEMMA InitStorageKeeps ==
    ASSUME ImageInv, InitStorage
    PROVE  ImageInv'
<1> USE DEF ImageInv
<1>1. /\ elsewhere' \in SUBSET (1..keys)
      /\ UNCHANGED <<image, files, keys, request, cleaner, raced, stranded>>
  BY DEF InitStorage
<1>2. 1..keys \subseteq Keys
  BY ImageAssumption DEF ImageTypeOK, Keys
<1>3. imageFaults' \in [ImageFaultKinds -> Nat]
  BY ImageFaultIs DEF InitStorage, ImageFaultKinds
<1>4. ImageTypeOK'
  BY <1>1, <1>2, <1>3 DEF ImageTypeOK
<1>5. KeysAreGiven' /\ LiveHasFile' /\ RecordingHasFile' /\ DoneIsGone'
  BY <1>1 DEF KeysAreGiven, LiveHasFile, RecordingHasFile, DoneIsGone
<1>6. TodoIsUnused' /\ FilesAreKnown'
  BY <1>1, ReferencedStays DEF TodoIsUnused, FilesAreKnown, Recording
<1> QED
  BY <1>4, <1>5, <1>6

LEMMA ImageInvStep == ImageInv /\ [ImageNext]_imageVars => ImageInv'
<1> SUFFICES ASSUME ImageInv, [ImageNext]_imageVars PROVE ImageInv'
  OBVIOUS
<1>1. CASE UNCHANGED imageVars
  <2>1. KeysAreGiven' /\ LiveHasFile' /\ RecordingHasFile' /\ DoneIsGone' /\ ImageTypeOK'
    BY <1>1 DEF ImageInv, imageVars, KeysAreGiven, LiveHasFile, RecordingHasFile, DoneIsGone,
                ImageTypeOK
  <2>2. TodoIsUnused' /\ FilesAreKnown'
    BY <1>1, ReferencedStays DEF ImageInv, imageVars, TodoIsUnused, FilesAreKnown, Recording
  <2> QED
    BY <2>1, <2>2 DEF ImageInv
<1>2. ASSUME NEW r \in Requests, NEW o \in Owners, NEW n \in 1..MaxUploads,
             CheckQuota(r, o, n)
      PROVE  ImageInv'
  BY <1>2, CheckQuotaKeeps
<1>3. ASSUME NEW r \in Requests, NEW c \in Contents, LookUpHash(r, c)
      PROVE  ImageInv'
  BY <1>3, LookUpHashKeeps
<1>4. ASSUME NEW r \in Requests,
             Upload(r) \/ UploadError(r) \/ CreateRecord(r) \/ UploadEnds(r)
      PROVE  ImageInv'
  BY <1>4, UploadKeeps, UploadErrorKeeps, CreateRecordKeeps, UploadEndsKeeps
<1>5. ASSUME NEW i \in Ids, SoftDelete(i)
      PROVE  ImageInv'
  BY <1>5, SoftDeleteKeeps
<1>6. ASSUME NEW c \in Cleaners,
             \/ FindOrphanKeys(c) \/ DeleteFile(c) \/ DeleteFileError(c)
             \/ HardDelete(c) \/ CleanerEnds(c)
      PROVE  ImageInv'
  BY <1>6, FindOrphanKeysKeeps, DeleteFileKeeps, HardDeleteKeeps, CleanerEndsKeeps
<1>7. CASE InitStorage
  BY <1>7, InitStorageKeeps
<1> QED
  BY <1>1, <1>2, <1>3, <1>4, <1>5, <1>6, <1>7 DEF ImageNext

\* CleanOrphanFiles, the upload of files and the reuse of the file of an equal
\* image keep to what the rows, the files and the requests may be.
THEOREM ImagesAreTyped == ImageSpec => []ImageTypeOK
<1>1. ImageInv => ImageTypeOK
  BY DEF ImageInv
<1> QED
  BY <1>1, ImageTypedInit, ImageInvStep, PTL DEF ImageSpec

\* However many uploads reuse keys, owners delete and processes clean up: a live
\* row has its file unless CleanOrphanFiles listed its key while an upload that
\* had looked the key up was about to write its row, and no file is left that
\* neither a row nor a request knows, unless its request ended before its row or
\* CleanOrphanFiles looked for the file where the configuration no longer has it.
THEOREM RowsKeepFiles == ImageSpec => []FilesFollowRows
<1>1. ImageInv => FilesFollowRows
  BY DEF ImageInv, LiveHasFile, FilesAreKnown, FilesFollowRows, Rows, Referenced, Recording
<1> QED
  BY <1>1, ImageTypedInit, ImageInvStep, PTL DEF ImageSpec

-----------------------------------------------------------------------------
(* Spans                                                                       *)

LEMMA SpanInitHolds == SpanInit => SpanInv
<1> SUFFICES ASSUME SpanInit PROVE SpanInv
  OBVIOUS
<1> USE DEF SpanInit
<1>1. SpanTypeOK
  BY SpanAssumption DEF SpanTypeOK
<1>2. DeliveredIsKnown /\ StoredHasRows /\ AcknowledgedHasRow /\ FallbackNeedsFault
  BY DEF DeliveredIsKnown, StoredHasRows, AcknowledgedHasRow, FallbackNeedsFault
<1>3. BuffersAreFinite
  BY FS_EmptySet DEF BuffersAreFinite
<1>4. AcceptedIsOnItsWay
  BY DEF AcceptedIsOnItsWay
<1> QED
  BY <1>1, <1>2, <1>3, <1>4 DEF SpanInv

LEMMA SpanFaultIs ==
    ASSUME SpanTypeOK, NEW k \in SpanFaultKinds, SpanFault(k)
    PROVE  /\ spanFaults' \in [SpanFaultKinds -> Nat]
           /\ spanFaults'[k] # 0
           /\ \A j \in SpanFaultKinds : spanFaults'[j] = 0 => spanFaults[j] = 0
  BY DEF SpanTypeOK, SpanFault

\* What a step that reads nothing from the stream owes to the consumer's half of
\* the invariant: rows do not vanish and entries keep their place.
LEMMA RowsStay ==
    ASSUME SpanInv, UNCHANGED <<cursor, pending, consumer>>,
           Len(stream) <= Len(stream'), Len(stream') \in Nat,
           \A i \in 1..Len(stream) : stream'[i] = stream[i],
           \A s \in Spans : table'[s] = "absent" => table[s] = "absent"
    PROVE  DeliveredIsKnown' /\ StoredHasRows' /\ AcknowledgedHasRow'
<1> USE DEF SpanInv, consumer
<1>1. Len(stream) \in Nat /\ cursor \in Nat /\ cursor <= Len(stream)
  BY SpanAssumption DEF SpanTypeOK, DeliveredIsKnown
<1>2. DeliveredIsKnown'
  BY <1>1 DEF DeliveredIsKnown
<1>3. \A i \in 1..cursor : /\ stream'[i] = stream[i] /\ stream[i] \in Spans
  BY <1>1 DEF SpanTypeOK
<1>4. AcknowledgedHasRow'
  BY <1>3 DEF AcknowledgedHasRow
<1>5. StoredHasRows'
  BY <1>3 DEF StoredHasRows, DeliveredIsKnown
<1> QED
  BY <1>2, <1>4, <1>5

\* XADD of some spans: the entries before them stay, and each has its entry.
LEMMA AppendAllIs ==
    ASSUME SpanTypeOK, NEW spans \in SUBSET Spans, IsFiniteSet(spans), AppendAll(spans)
    PROVE  /\ stream' \in Seq(Spans) /\ Len(stream') <= MaxEntries
           /\ Len(stream) \in Nat /\ Len(stream') \in Nat /\ Len(stream) <= Len(stream')
           /\ \A i \in 1..Len(stream) : stream'[i] = stream[i]
           /\ \A s \in spans : \E i \in 1..Len(stream') : i > Len(stream) /\ stream'[i] = s
<1> DEFINE n == Cardinality(spans)
<1>1. n \in Nat
  BY FS_CardinalityType
<1>2. Len(stream) + n <= MaxEntries
  BY DEF AppendAll
<1>3. PICK order \in [1..n -> spans] :
        /\ \A s \in spans : \E i \in DOMAIN order : order[i] = s
        /\ stream' = stream \o order
  BY DEF AppendAll
<1> HIDE DEF n
<1>4. stream \in Seq(Spans) /\ Len(stream) \in Nat
  BY DEF SpanTypeOK
<1>5. order \in Seq(Spans) /\ Len(order) = n /\ DOMAIN order = 1..n
  <2>1. order \in [1..n -> Spans]
    BY <1>3
  <2> QED
    BY <1>1, <2>1
<1>6. /\ stream' \in Seq(Spans) /\ Len(stream') = Len(stream) + n
      /\ \A i \in 1..Len(stream) : stream'[i] = stream[i]
      /\ \A i \in 1..n : stream'[Len(stream) + i] = order[i]
  <2>1. /\ stream \o order \in Seq(Spans)
        /\ Len(stream \o order) = Len(stream) + Len(order)
        /\ \A i \in 1..Len(stream) + Len(order) :
             (stream \o order)[i] = IF i <= Len(stream) THEN stream[i]
                                                        ELSE order[i - Len(stream)]
    BY <1>4, <1>5, ConcatProperties
  <2>2. \A i \in 1..Len(stream) : i \in 1..Len(stream) + n /\ i <= Len(stream)
    BY <1>1, <1>4
  <2>3. \A i \in 1..n : /\ Len(stream) + i \in 1..Len(stream) + n
                        /\ ~(Len(stream) + i <= Len(stream))
                        /\ Len(stream) + i - Len(stream) = i
    BY <1>1, <1>4
  <2> QED
    BY <1>3, <1>5, <2>1, <2>2, <2>3
<1>7. ASSUME NEW s \in spans
      PROVE  \E i \in 1..Len(stream') : i > Len(stream) /\ stream'[i] = s
  <2>1. PICK i \in 1..n : order[i] = s
    BY <1>3, <1>5
  <2>2. /\ Len(stream) + i \in 1..Len(stream') /\ Len(stream) + i > Len(stream)
        /\ stream'[Len(stream) + i] = s
    BY <1>1, <1>4, <1>6, <2>1
  <2> QED
    BY <2>2
<1> QED
  BY <1>1, <1>2, <1>4, <1>6, <1>7

\* A span of the stream stays on its way when entries follow it.
LEMMA InStreamStays ==
    ASSUME SpanTypeOK, UNCHANGED <<cursor, pending>>,
           stream' \in Seq(Spans), Len(stream) <= Len(stream'),
           \A i \in 1..Len(stream) : stream'[i] = stream[i],
           NEW s \in Spans, InStream(s)
    PROVE  InStream(s)'
<1>1. Len(stream) \in Nat /\ Len(stream') \in Nat
      /\ DOMAIN stream = 1..Len(stream) /\ DOMAIN stream' = 1..Len(stream')
  BY DEF SpanTypeOK
<1>2. PICK i \in 1..Len(stream) : stream[i] = s /\ (i > cursor \/ i \in pending)
  BY <1>1 DEF InStream
<1>3. i \in DOMAIN stream'
  BY <1>1
<1> QED
  BY <1>2, <1>3 DEF InStream

\* A step of a writer that neither appends nor writes.
LEMMA QuietRowsStay ==
    ASSUME SpanInv, UNCHANGED <<cursor, pending, consumer, stream, table>>
    PROVE  DeliveredIsKnown' /\ StoredHasRows' /\ AcknowledgedHasRow'
  BY DEF SpanInv, consumer, DeliveredIsKnown, StoredHasRows, AcknowledgedHasRow

LEMMA RecordSpanKeeps ==
    ASSUME SpanInv, NEW p \in Procs, NEW s \in Spans, RecordSpan(p, s)
    PROVE  SpanInv'
<1> USE DEF SpanInv, RecordSpan, NoSpanFault
<1>1. DeliveredIsKnown' /\ StoredHasRows' /\ AcknowledgedHasRow'
  BY QuietRowsStay
<1>2. SpanTypeOK'
  <2>1. queue' \in [Procs -> SUBSET Spans]
    <3>1. queue' = [queue EXCEPT ![p] = @ \cup {s}] \/ queue' = queue
      OBVIOUS
    <3>2. queue \in [Procs -> SUBSET Spans]
      BY DEF SpanTypeOK
    <3> HIDE DEF RecordSpan
    <3> QED
      BY <3>1, <3>2
  <2>2. sent' \in [Spans -> {"new", "accepted", "dropped", "refused"}]
    BY DEF SpanTypeOK
  <2>3. UNCHANGED <<buffer, fallback, stream, cursor, pending, batch, stored, table, spanFaults>>
    BY DEF consumer
  <2> QED
    BY <2>1, <2>2, <2>3 DEF SpanTypeOK
<1>3. BuffersAreFinite' /\ FallbackNeedsFault'
  BY DEF BuffersAreFinite, FallbackNeedsFault
<1>4. \A q \in Procs : queue[q] \subseteq queue'[q]
  <2>1. queue' = [queue EXCEPT ![p] = @ \cup {s}] \/ queue' = queue
    OBVIOUS
  <2>2. queue \in [Procs -> SUBSET Spans]
    BY DEF SpanTypeOK
  <2> HIDE DEF RecordSpan, SpanInv
  <2> QED
    BY <2>1, <2>2
<1>5. sent'[s] = "accepted" => s \in queue'[p]
  BY DEF SpanTypeOK
<1>6. \A t \in Spans : t # s => sent'[t] = sent[t]
  BY DEF SpanTypeOK
<1>7. AcceptedIsOnItsWay'
  BY <1>4, <1>5, <1>6 DEF AcceptedIsOnItsWay, OnItsWay, Held, InStream
<1> QED
  BY <1>1, <1>2, <1>3, <1>7

LEMMA TakeKeeps ==
    ASSUME SpanInv, NEW p \in Procs, NEW s \in Spans, Take(p, s)
    PROVE  SpanInv'
<1> USE DEF SpanInv, Take, NoSpanFault
<1>1. DeliveredIsKnown' /\ StoredHasRows' /\ AcknowledgedHasRow'
  BY QuietRowsStay
<1>2. SpanTypeOK'
  BY DEF SpanTypeOK, consumer
<1>3. IsFiniteSet(buffer[p] \cup {s})
  BY FS_AddElement DEF BuffersAreFinite
<1>4. BuffersAreFinite' /\ FallbackNeedsFault'
  BY <1>3 DEF BuffersAreFinite, FallbackNeedsFault, SpanTypeOK
<1>5. \A q \in Procs : queue[q] \cup buffer[q] \subseteq queue'[q] \cup buffer'[q]
  BY DEF SpanTypeOK
<1>6. AcceptedIsOnItsWay'
  BY <1>5 DEF AcceptedIsOnItsWay, OnItsWay, Held, InStream
<1> QED
  BY <1>1, <1>2, <1>4, <1>6

LEMMA FlushToStreamKeeps ==
    ASSUME SpanInv, NEW p \in Procs, FlushToStream(p)
    PROVE  SpanInv'
<1> USE DEF SpanInv, FlushToStream, NoSpanFault
<1>1. buffer[p] \in SUBSET Spans /\ IsFiniteSet(buffer[p])
  BY DEF SpanTypeOK, BuffersAreFinite
<1>2. /\ stream' \in Seq(Spans) /\ Len(stream') <= MaxEntries
      /\ Len(stream) \in Nat /\ Len(stream') \in Nat /\ Len(stream) <= Len(stream')
      /\ \A i \in 1..Len(stream) : stream'[i] = stream[i]
      /\ \A s \in buffer[p] : \E i \in 1..Len(stream') : i > Len(stream) /\ stream'[i] = s
  BY <1>1, AppendAllIs
<1>3. DeliveredIsKnown' /\ StoredHasRows' /\ AcknowledgedHasRow'
  BY <1>2, RowsStay
<1>4. SpanTypeOK'
  BY <1>2 DEF SpanTypeOK, consumer
<1>5. BuffersAreFinite' /\ FallbackNeedsFault'
  BY FS_EmptySet DEF BuffersAreFinite, FallbackNeedsFault, SpanTypeOK
<1>6. \A s \in Spans : InStream(s) => InStream(s)'
  BY <1>2, InStreamStays
<1>7. \A s \in buffer[p] : InStream(s)'
  <2>1. DOMAIN stream' = 1..Len(stream') /\ cursor' = cursor /\ cursor <= Len(stream)
        /\ cursor \in Nat
    BY <1>2, SpanAssumption DEF SpanTypeOK, DeliveredIsKnown
  <2>2. \A i \in 1..Len(stream') : i > Len(stream) => i > cursor'
    BY <1>2, <2>1
  <2> QED
    BY <1>2, <2>1, <2>2 DEF InStream
<1>8. \A s \in Spans : Held(s) => Held(s)' \/ InStream(s)'
  BY <1>7 DEF Held, SpanTypeOK
<1>9. AcceptedIsOnItsWay'
  BY <1>6, <1>8 DEF AcceptedIsOnItsWay, OnItsWay
<1> QED
  BY <1>3, <1>4, <1>5, <1>9

LEMMA FlushToStreamErrorKeeps ==
    ASSUME SpanInv, NEW p \in Procs, FlushToStreamError(p)
    PROVE  SpanInv'
<1> USE DEF SpanInv
<1>1. PICK spans \in SUBSET buffer[p] : AppendAll(spans)
  BY DEF FlushToStreamError
<1>2. spans \in SUBSET Spans /\ IsFiniteSet(spans)
  BY FS_Subset DEF SpanTypeOK, BuffersAreFinite
<1>3. /\ stream' \in Seq(Spans) /\ Len(stream') <= MaxEntries
      /\ Len(stream) \in Nat /\ Len(stream') \in Nat /\ Len(stream) <= Len(stream')
      /\ \A i \in 1..Len(stream) : stream'[i] = stream[i]
  BY <1>1, <1>2, AppendAllIs
<1>4. /\ spanFaults' \in [SpanFaultKinds -> Nat] /\ spanFaults'["redis"] # 0
      /\ \A k \in SpanFaultKinds : spanFaults'[k] = 0 => spanFaults[k] = 0
  BY SpanFaultIs DEF FlushToStreamError, SpanFaultKinds
<1>5. /\ UNCHANGED <<sent, queue, buffer, cursor, pending, consumer, table>>
      /\ fallback' = [fallback EXCEPT ![p] = TRUE]
  BY DEF FlushToStreamError
<1>6. DeliveredIsKnown' /\ StoredHasRows' /\ AcknowledgedHasRow'
  BY <1>3, <1>5, RowsStay
<1>7. SpanTypeOK'
  BY <1>3, <1>4, <1>5 DEF SpanTypeOK, consumer
<1>8. BuffersAreFinite' /\ FallbackNeedsFault'
  BY <1>4, <1>5 DEF BuffersAreFinite, FallbackNeedsFault
<1>9. \A s \in Spans : InStream(s) => InStream(s)'
  BY <1>3, <1>5, InStreamStays
<1>10. AcceptedIsOnItsWay'
  BY <1>4, <1>5, <1>9 DEF AcceptedIsOnItsWay, OnItsWay, Held, SpanFaultKinds
<1> QED
  BY <1>6, <1>7, <1>8, <1>10

\* Insert adds rows and takes none away.
LEMMA InsertIs ==
    ASSUME SpanTypeOK, NEW spans
    PROVE  /\ Insert(spans) \in [Spans -> {"absent", "stored", "purged"}]
           /\ \A s \in Spans : Insert(spans)[s] = "absent" => table[s] = "absent"
           /\ \A s \in spans \cap Spans : Insert(spans)[s] # "absent"
  BY DEF SpanTypeOK, Insert

LEMMA FlushToDBKeeps ==
    ASSUME SpanInv, NEW p \in Procs, FlushToDB(p) \/ FlushToDBError(p)
    PROVE  SpanInv'
<1> USE DEF SpanInv
<1>1. /\ fallback[p]
      /\ table' \in {table, Insert(buffer[p])}
      /\ buffer' = [buffer EXCEPT ![p] = {}]
      /\ fallback' = [fallback EXCEPT ![p] = FALSE]
      /\ UNCHANGED <<sent, queue, stream, cursor, pending, consumer>>
  BY DEF FlushToDB, FlushToDBError
<1>2. /\ spanFaults' \in [SpanFaultKinds -> Nat]
      /\ \A k \in SpanFaultKinds : spanFaults'[k] = 0 => spanFaults[k] = 0
      /\ spanFaults'["db"] = 0 => table' = Insert(buffer[p])
  <2>1. CASE FlushToDB(p)
    BY <2>1 DEF FlushToDB, NoSpanFault, SpanTypeOK
  <2>2. CASE FlushToDBError(p)
    BY <2>2, SpanFaultIs DEF FlushToDBError, SpanFaultKinds
  <2> QED
    BY <2>1, <2>2
<1>3. /\ table' \in [Spans -> {"absent", "stored", "purged"}]
      /\ \A s \in Spans : table'[s] = "absent" => table[s] = "absent"
  BY <1>1, InsertIs DEF SpanTypeOK
<1>4. Len(stream) \in Nat
  BY DEF SpanTypeOK
<1>5. DeliveredIsKnown' /\ StoredHasRows' /\ AcknowledgedHasRow'
  BY <1>1, <1>3, <1>4, RowsStay
<1>6. SpanTypeOK'
  BY <1>1, <1>2, <1>3 DEF SpanTypeOK, consumer
<1>7. BuffersAreFinite' /\ FallbackNeedsFault'
  BY <1>1, <1>2, FS_EmptySet DEF BuffersAreFinite, FallbackNeedsFault, SpanTypeOK,
                                 SpanFaultKinds
\* Redis has failed, so the database has not.
<1>8. AcceptedIsOnItsWay'
  <2> SUFFICES ASSUME spanFaults'["stop"] = 0,
                      spanFaults'["redis"] = 0 \/ spanFaults'["db"] = 0,
                      NEW s \in Spans, sent'[s] = "accepted"
               PROVE  OnItsWay(s)'
    BY DEF AcceptedIsOnItsWay
  <2>1. spanFaults["redis"] # 0
    BY <1>1 DEF FallbackNeedsFault
  <2>2. spanFaults["stop"] = 0 /\ spanFaults["db"] = 0 /\ table' = Insert(buffer[p])
    BY <1>2, <2>1 DEF SpanFaultKinds
  <2>3. OnItsWay(s)
    BY <1>1, <2>2 DEF AcceptedIsOnItsWay
  <2>4. \A t \in buffer[p] : t \in Spans => table'[t] # "absent"
    BY <2>2, InsertIs
  <2>5. Held(s) => Held(s)' \/ s \in buffer[p]
    BY <1>1 DEF Held, SpanTypeOK
  <2>6. InStream(s)' <=> InStream(s)
    BY <1>1 DEF InStream
  <2> QED
    BY <1>3, <2>3, <2>4, <2>5, <2>6 DEF OnItsWay
<1> QED
  BY <1>5, <1>6, <1>7, <1>8

LEMMA ReadKeeps ==
    ASSUME SpanInv, NEW p \in Procs, ReadNew(p) \/ ReadNewError(p)
    PROVE  SpanInv'
<1> USE DEF SpanInv
<1> DEFINE n == Unread
           new == (cursor + 1)..(cursor + n)
<1>1. Len(stream) \in Nat /\ cursor \in Nat /\ cursor <= Len(stream)
  BY SpanAssumption DEF SpanTypeOK, DeliveredIsKnown
<1>2. n \in Nat /\ cursor + n <= Len(stream)
  BY <1>1, SpanAssumption DEF Unread
<1>3. /\ cursor' = cursor + n /\ pending' = pending \cup new
      /\ batch' \in {batch, [batch EXCEPT ![p] = @ \cup new]}
      /\ ~stored[p]
      /\ UNCHANGED <<writer, stream, stored, table>>
  BY DEF ReadNew, ReadNewError, Deliver, Room, consumer
<1>4. /\ spanFaults' \in [SpanFaultKinds -> Nat]
      /\ \A k \in SpanFaultKinds : spanFaults'[k] = 0 => spanFaults[k] = 0
  <2>1. CASE ReadNew(p)
    BY <2>1 DEF ReadNew, NoSpanFault, SpanTypeOK
  <2>2. CASE ReadNewError(p)
    BY <2>2, SpanFaultIs DEF ReadNewError, SpanFaultKinds
  <2> QED
    BY <2>1, <2>2
<1> HIDE DEF n
<1>5. /\ cursor' \in 0..MaxEntries /\ cursor' <= Len(stream)
      /\ new \subseteq 1..cursor' /\ 1..cursor \subseteq 1..cursor'
      /\ 1..cursor' \subseteq Entries
      /\ \A i \in 1..cursor' : i \in 1..cursor \/ i \in new
  BY <1>1, <1>2, <1>3, SpanAssumption DEF SpanTypeOK, Entries
<1>6. DeliveredIsKnown'
  BY <1>3, <1>5 DEF DeliveredIsKnown, SpanTypeOK
<1>7. SpanTypeOK'
  <2>1. UNCHANGED <<sent, queue, buffer, fallback, stream, stored, table>>
    BY <1>3 DEF writer
  <2>2. pending' \subseteq Entries /\ batch' \in [Procs -> SUBSET Entries]
    BY <1>3, <1>5 DEF SpanTypeOK
  <2> QED
    BY <1>4, <1>5, <2>1, <2>2 DEF SpanTypeOK
<1>8. AcknowledgedHasRow'
  BY <1>3, <1>5 DEF AcknowledgedHasRow
<1>9. StoredHasRows'
  BY <1>3 DEF StoredHasRows, SpanTypeOK
<1>10. BuffersAreFinite' /\ FallbackNeedsFault'
  BY <1>3, <1>4 DEF BuffersAreFinite, FallbackNeedsFault, writer, SpanFaultKinds
<1>11. \A s \in Spans : InStream(s) => InStream(s)'
  <2>1. \A i \in DOMAIN stream : i > cursor => i > cursor' \/ i \in new
    BY <1>1, <1>2, <1>3 DEF SpanTypeOK
  <2> QED
    BY <1>3, <2>1 DEF InStream
<1>12. AcceptedIsOnItsWay'
  BY <1>3, <1>4, <1>11 DEF AcceptedIsOnItsWay, OnItsWay, Held, writer, SpanFaultKinds
<1> QED
  BY <1>6, <1>7, <1>8, <1>9, <1>10, <1>12

LEMMA ClaimTimedOutPendingKeeps ==
    ASSUME SpanInv, NEW p \in Procs, NEW i \in Entries, ClaimTimedOutPending(p, i)
    PROVE  SpanInv'
<1> USE DEF SpanInv, ClaimTimedOutPending, NoSpanFault, Room, writer
<1>1. SpanTypeOK'
  BY DEF SpanTypeOK
<1>2. DeliveredIsKnown' /\ StoredHasRows' /\ AcknowledgedHasRow'
  BY DEF DeliveredIsKnown, StoredHasRows, AcknowledgedHasRow, SpanTypeOK
<1>3. BuffersAreFinite' /\ FallbackNeedsFault'
  BY DEF BuffersAreFinite, FallbackNeedsFault
<1>4. AcceptedIsOnItsWay'
  BY DEF AcceptedIsOnItsWay, OnItsWay, Held, InStream
<1> QED
  BY <1>1, <1>2, <1>3, <1>4

LEMMA PersistKeeps ==
    ASSUME SpanInv, NEW p \in Procs, Persist(p) \/ PersistError(p)
    PROVE  SpanInv'
<1> USE DEF SpanInv
<1> DEFINE spans == SpansOf(batch[p])
<1>1. /\ table' \in {table, Insert(spans)}
      /\ UNCHANGED <<writer, stream, cursor, pending>>
      /\ \/ /\ table' = Insert(spans) /\ batch' = batch
            /\ stored' = [stored EXCEPT ![p] = TRUE]
         \/ ~stored[p] /\ batch' = [batch EXCEPT ![p] = {}] /\ stored' = stored
  BY DEF Persist, PersistError
<1>2. /\ spanFaults' \in [SpanFaultKinds -> Nat]
      /\ \A k \in SpanFaultKinds : spanFaults'[k] = 0 => spanFaults[k] = 0
  <2>1. CASE Persist(p)
    BY <2>1 DEF Persist, NoSpanFault, SpanTypeOK
  <2>2. CASE PersistError(p)
    BY <2>2, SpanFaultIs DEF PersistError, SpanFaultKinds
  <2> QED
    BY <2>1, <2>2
<1>3. /\ table' \in [Spans -> {"absent", "stored", "purged"}]
      /\ \A s \in Spans : table'[s] = "absent" => table[s] = "absent"
      /\ table' = Insert(spans) => \A s \in spans \cap Spans : table'[s] # "absent"
  BY <1>1, InsertIs DEF SpanTypeOK
<1>4. \A i \in 1..cursor : stream[i] \in Spans
  BY SpanAssumption DEF DeliveredIsKnown, SpanTypeOK
<1>5. \A i \in batch[p] : stream[i] \in spans \cap Spans
  BY <1>4 DEF SpansOf, DeliveredIsKnown
<1> HIDE DEF spans
<1>6. SpanTypeOK'
  <2>1. batch' \in [Procs -> SUBSET Entries] /\ stored' \in [Procs -> BOOLEAN]
    BY <1>1 DEF SpanTypeOK
  <2> QED
    BY <1>1, <1>2, <1>3, <2>1 DEF SpanTypeOK, writer
<1>7. DeliveredIsKnown'
  BY <1>1 DEF DeliveredIsKnown, SpanTypeOK
<1>8. AcknowledgedHasRow'
  BY <1>1, <1>3, <1>4 DEF AcknowledgedHasRow
<1>9. StoredHasRows'
  <2>1. \A q \in Procs : stored[q] => \A i \in batch[q] : table'[stream[i]] # "absent"
    BY <1>3, <1>4 DEF StoredHasRows, DeliveredIsKnown
  <2>2. table' = Insert(spans) => \A i \in batch[p] : table'[stream[i]] # "absent"
    BY <1>3, <1>5
  <2> QED
    BY <1>1, <2>1, <2>2 DEF StoredHasRows, SpanTypeOK
<1>10. BuffersAreFinite' /\ FallbackNeedsFault'
  BY <1>1, <1>2 DEF BuffersAreFinite, FallbackNeedsFault, writer, SpanFaultKinds
<1>11. AcceptedIsOnItsWay'
  BY <1>1, <1>2, <1>3 DEF AcceptedIsOnItsWay, OnItsWay, Held, InStream, writer, SpanFaultKinds
<1> QED
  BY <1>6, <1>7, <1>8, <1>9, <1>10, <1>11

\* What is acknowledged has its rows.
LEMMA AcknowledgeKeeps ==
    ASSUME SpanInv, NEW p \in Procs, Acknowledge(p) \/ AcknowledgeError(p)
    PROVE  SpanInv'
<1> USE DEF SpanInv
<1>1. /\ stored[p] /\ pending' \in {pending, pending \ batch[p]}
      /\ batch' = [batch EXCEPT ![p] = {}] /\ stored' = [stored EXCEPT ![p] = FALSE]
      /\ UNCHANGED <<writer, stream, cursor, table>>
  BY DEF Acknowledge, AcknowledgeError, Leave
<1>2. /\ spanFaults' \in [SpanFaultKinds -> Nat]
      /\ \A k \in SpanFaultKinds : spanFaults'[k] = 0 => spanFaults[k] = 0
  <2>1. CASE Acknowledge(p)
    BY <2>1 DEF Acknowledge, NoSpanFault, SpanTypeOK
  <2>2. CASE AcknowledgeError(p)
    BY <2>2, SpanFaultIs DEF AcknowledgeError, SpanFaultKinds
  <2> QED
    BY <2>1, <2>2
<1>3. \A i \in batch[p] : table[stream[i]] # "absent"
  BY <1>1 DEF StoredHasRows
<1>4. SpanTypeOK'
  <2>1. /\ batch' \in [Procs -> SUBSET Entries] /\ stored' \in [Procs -> BOOLEAN]
        /\ pending' \subseteq Entries
    BY <1>1 DEF SpanTypeOK
  <2> QED
    BY <1>1, <1>2, <2>1 DEF SpanTypeOK, writer
<1>5. DeliveredIsKnown'
  BY <1>1 DEF DeliveredIsKnown, SpanTypeOK
<1>6. AcknowledgedHasRow'
  BY <1>1, <1>3 DEF AcknowledgedHasRow
<1>7. StoredHasRows'
  BY <1>1 DEF StoredHasRows, SpanTypeOK
<1>8. BuffersAreFinite' /\ FallbackNeedsFault'
  BY <1>1, <1>2 DEF BuffersAreFinite, FallbackNeedsFault, writer, SpanFaultKinds
<1>9. \A s \in Spans : InStream(s) => InStream(s)' \/ table[s] # "absent"
  BY <1>1, <1>3 DEF InStream
<1>10. AcceptedIsOnItsWay'
  BY <1>1, <1>2, <1>9 DEF AcceptedIsOnItsWay, OnItsWay, Held, writer, SpanFaultKinds
<1> QED
  BY <1>4, <1>5, <1>6, <1>7, <1>8, <1>10

LEMMA StopKeeps ==
    ASSUME SpanInv, NEW p \in Procs, Stop(p)
    PROVE  SpanInv'
<1> USE DEF SpanInv, Stop, Leave
<1>1. /\ spanFaults' \in [SpanFaultKinds -> Nat] /\ spanFaults'["stop"] # 0
      /\ \A k \in SpanFaultKinds : spanFaults'[k] = 0 => spanFaults[k] = 0
  BY SpanFaultIs DEF SpanFaultKinds
<1>2. SpanTypeOK'
  BY <1>1 DEF SpanTypeOK
<1>3. DeliveredIsKnown'
  BY DEF DeliveredIsKnown, SpanTypeOK
<1>4. StoredHasRows' /\ AcknowledgedHasRow'
  BY DEF StoredHasRows, AcknowledgedHasRow, SpanTypeOK
<1>5. BuffersAreFinite'
  BY FS_EmptySet DEF BuffersAreFinite, SpanTypeOK
<1>6. FallbackNeedsFault'
  BY <1>1 DEF FallbackNeedsFault, SpanTypeOK, SpanFaultKinds
<1>7. AcceptedIsOnItsWay'
  BY <1>1 DEF AcceptedIsOnItsWay
<1> QED
  BY <1>2, <1>3, <1>4, <1>5, <1>6, <1>7

LEMMA CleanupKeeps ==
    ASSUME SpanInv, NEW s \in Spans, CleanupBeforeByStatus(s)
    PROVE  SpanInv'
<1> USE DEF SpanInv, CleanupBeforeByStatus, NoSpanFault, writer, consumer
<1>1. \A t \in Spans : table'[t] = "absent" => table[t] = "absent"
  BY DEF SpanTypeOK
<1>2. SpanTypeOK'
  BY DEF SpanTypeOK
<1>3. DeliveredIsKnown' /\ StoredHasRows' /\ AcknowledgedHasRow'
  <2>1. Len(stream) \in Nat
    BY DEF SpanTypeOK
  <2> QED
    BY <1>1, <2>1, RowsStay
<1>4. BuffersAreFinite' /\ FallbackNeedsFault'
  BY DEF BuffersAreFinite, FallbackNeedsFault
<1>5. AcceptedIsOnItsWay'
  BY <1>1 DEF AcceptedIsOnItsWay, OnItsWay, Held, InStream
<1> QED
  BY <1>2, <1>3, <1>4, <1>5

LEMMA SpanInvStep == SpanInv /\ [SpanNext]_spanVars => SpanInv'
<1> SUFFICES ASSUME SpanInv, [SpanNext]_spanVars PROVE SpanInv'
  OBVIOUS
<1>1. CASE UNCHANGED spanVars
  <2> USE <1>1 DEF SpanInv, spanVars, writer, consumer
  <2>1. DeliveredIsKnown' /\ StoredHasRows' /\ AcknowledgedHasRow'
    BY QuietRowsStay
  <2>2. SpanTypeOK' /\ BuffersAreFinite' /\ FallbackNeedsFault'
    BY DEF SpanTypeOK, BuffersAreFinite, FallbackNeedsFault
  <2>3. AcceptedIsOnItsWay'
    BY DEF AcceptedIsOnItsWay, OnItsWay, Held, InStream
  <2> QED
    BY <2>1, <2>2, <2>3
<1>2. ASSUME NEW p \in Procs, NEW s \in Spans, RecordSpan(p, s) \/ Take(p, s)
      PROVE  SpanInv'
  BY <1>2, RecordSpanKeeps, TakeKeeps
<1>3. ASSUME NEW p \in Procs,
             \/ FlushToStream(p) \/ FlushToStreamError(p)
             \/ FlushToDB(p) \/ FlushToDBError(p) \/ Stop(p)
      PROVE  SpanInv'
  BY <1>3, FlushToStreamKeeps, FlushToStreamErrorKeeps, FlushToDBKeeps, StopKeeps
<1>4. ASSUME NEW p \in Procs,
             \/ ReadNew(p) \/ ReadNewError(p) \/ Persist(p) \/ PersistError(p)
             \/ Acknowledge(p) \/ AcknowledgeError(p)
      PROVE  SpanInv'
  BY <1>4, ReadKeeps, PersistKeeps, AcknowledgeKeeps
<1>5. ASSUME NEW p \in Procs, NEW i \in Entries, ClaimTimedOutPending(p, i)
      PROVE  SpanInv'
  BY <1>5, ClaimTimedOutPendingKeeps
<1>6. ASSUME NEW s \in Spans, CleanupBeforeByStatus(s)
      PROVE  SpanInv'
  BY <1>6, CleanupKeeps
<1> QED
  BY <1>1, <1>2, <1>3, <1>4, <1>5, <1>6 DEF SpanNext, WriterStep, ConsumerStep

\* The writer and the consumer of Backend keep to what queues, buffers, the
\* stream and the group may hold.
THEOREM SpansAreTyped == SpanSpec => []SpanTypeOK
<1>1. SpanInv => SpanTypeOK
  BY DEF SpanInv
<1> QED
  BY <1>1, SpanInitHolds, SpanInvStep, PTL DEF SpanSpec

\* For any number of processes that claim entries from each other in
\* claimTimedOutPending: no entry is acknowledged before its span has its row, and
\* an accepted span is on its way or stored unless a process stopped or Redis and
\* the database have both failed.
THEOREM SpansAreNotLost == SpanSpec => []SpansSurvive
<1>1. SpanInv => SpansSurvive
  BY DEF SpanInv, AcknowledgedHasRow, AcceptedIsOnItsWay, OnItsWay, SpansSurvive
<1> QED
  BY <1>1, SpanInitHolds, SpanInvStep, PTL DEF SpanSpec

-----------------------------------------------------------------------------
(* Sums over finite sets: what SumFunctionOnSet computes.                      *)

Chosen(s) == CHOOSE x \in s : TRUE

\* g has the sum of f over every subset of S.
SumsAll(f, S, g) ==
    g = [s \in SUBSET S |-> IF s = {} THEN 0 ELSE f[Chosen(s)] + g[s \ {Chosen(s)}]]

LEMMA SumIsChosen ==
    ASSUME NEW f, NEW S
    PROVE  SumFunctionOnSet(f, S) = (CHOOSE g : SumsAll(f, S, g))[S]
BY DEF SumFunctionOnSet, FoldFunctionOnSet, MapThenFoldSet, SumsAll, Chosen

\* Of the sets in T one is smallest: the induction over finite sets.
LEMMA SmallestSet ==
    ASSUME NEW S, IsFiniteSet(S), NEW T \in SUBSET SUBSET S, T # {}
    PROVE  \E s \in T : \A t \in SUBSET s : t # s => t \notin T
<1>. DEFINE sizes == {Cardinality(s) : s \in T}
<1>1. \A s \in T : IsFiniteSet(s) /\ Cardinality(s) \in Nat
  BY FS_Subset, FS_CardinalityType
<1>2. sizes \subseteq Nat /\ sizes # {}
  BY <1>1
<1>3. IsWellFoundedOn(OpToRel(<,Nat), Nat)
  BY NatLessThanWellFounded
<1>. HIDE DEF sizes
<1>4. PICK m \in sizes : \A n \in sizes : ~ (<<n, m>> \in OpToRel(<, Nat))
  BY <1>2, <1>3, WFMin
<1>5. \A n \in sizes : n < m => <<n, m>> \in OpToRel(<, Nat)
  BY <1>2 DEF OpToRel
<1>6. \A n \in sizes : ~(n < m)
  BY <1>4, <1>5, Zenon
<1>7. PICK s \in T : Cardinality(s) = m
  BY DEF sizes
<1>8. ASSUME NEW t \in SUBSET s, t # s, t \in T
      PROVE  FALSE
  <2>1. /\ Cardinality(t) <= Cardinality(s)
        /\ Cardinality(s) # Cardinality(t)
    BY <1>1, <1>8, FS_Subset
  <2>2. Cardinality(t) \in sizes
    BY <1>8 DEF sizes
  <2>. QED
    BY <1>1, <1>2, <1>6, <1>7, <1>8, <2>1, <2>2
<1>. QED
  BY <1>8

LEMMA ChosenIn == ASSUME NEW s, s # {} PROVE Chosen(s) \in s
BY DEF Chosen

LEMMA SumsAllIsUnique ==
    ASSUME NEW f, NEW S, IsFiniteSet(S), NEW g, NEW h, SumsAll(f, S, g), SumsAll(f, S, h)
    PROVE  g = h
<1>. DEFINE T == {s \in SUBSET S : g[s] # h[s]}
<1>0. \A s \in SUBSET S :
        /\ g[s] = IF s = {} THEN 0 ELSE f[Chosen(s)] + g[s \ {Chosen(s)}]
        /\ h[s] = IF s = {} THEN 0 ELSE f[Chosen(s)] + h[s \ {Chosen(s)}]
  BY DEF SumsAll
<1>1. T = {}
  <2>. SUFFICES ASSUME T # {} PROVE FALSE
    OBVIOUS
  <2>0. T \in SUBSET SUBSET S
    OBVIOUS
  <2>. HIDE DEF T
  <2>1. PICK s \in T : \A t \in SUBSET s : t # s => t \notin T
    BY <2>0, SmallestSet
  <2>. USE DEF T
  <2>2. s # {}
    BY <1>0
  <2>3. s \ {Chosen(s)} \in SUBSET s /\ s \ {Chosen(s)} # s
    BY <2>2, ChosenIn
  <2>4. g[s \ {Chosen(s)}] = h[s \ {Chosen(s)}]
    BY <2>1, <2>3
  <2>. QED
    BY <1>0, <2>2, <2>4
<1>2. g = [s \in SUBSET S |-> g[s]] /\ h = [s \in SUBSET S |-> h[s]]
  BY DEF SumsAll
<1>. QED
  BY <1>1, <1>2

LEMMA SumsAllRestricts ==
    ASSUME NEW f, NEW S, NEW T \in SUBSET S, NEW g, SumsAll(f, S, g)
    PROVE  SumsAll(f, T, [s \in SUBSET T |-> g[s]])
<1>1. \A s \in SUBSET T : g[s] = IF s = {} THEN 0 ELSE f[Chosen(s)] + g[s \ {Chosen(s)}]
  BY DEF SumsAll
<1>2. \A s \in SUBSET T : s \ {Chosen(s)} \in SUBSET T
  OBVIOUS
<1>. QED
  BY <1>1, <1>2 DEF SumsAll

\* Where there is a function of all sums, the sum is its value.
LEMMA SumIsValue ==
    ASSUME NEW f, NEW S, IsFiniteSet(S), NEW g, SumsAll(f, S, g), NEW T \in SUBSET S
    PROVE  SumFunctionOnSet(f, T) = g[T]
<1>. DEFINE h == [s \in SUBSET T |-> g[s]]
            k == CHOOSE q : SumsAll(f, T, q)
<1>1. SumsAll(f, T, h)
  BY SumsAllRestricts
<1>. HIDE DEF h
<1>2. SumsAll(f, T, k)
  BY <1>1
<1>. HIDE DEF k
<1>3. IsFiniteSet(T)
  BY FS_Subset
<1>4. h = k
  BY <1>1, <1>2, <1>3, SumsAllIsUnique
<1>5. h[T] = g[T]
  BY DEF h
<1>. QED
  BY <1>4, <1>5, SumIsChosen DEF k

LEMMA SumsAllExists ==
    ASSUME NEW f, NEW S, IsFiniteSet(S)
    PROVE  \E g : SumsAll(f, S, g)
<1>. DEFINE T == {s \in SUBSET S : ~ \E g : SumsAll(f, s, g)}
<1>. SUFFICES ASSUME T # {} PROVE FALSE
  OBVIOUS
<1>0. T \in SUBSET SUBSET S
  OBVIOUS
<1>. HIDE DEF T
<1>1. PICK s \in T : \A t \in SUBSET s : t # s => t \notin T
  BY <1>0, SmallestSet
<1>. USE DEF T
<1>2. IsFiniteSet(s)
  BY FS_Subset
<1>3. ASSUME NEW t \in SUBSET s, t # s
      PROVE  SumFunctionOnSet(f, t) = IF t = {} THEN 0
                                      ELSE f[Chosen(t)] + SumFunctionOnSet(f, t \ {Chosen(t)})
  <2>1. PICK g : SumsAll(f, t, g)
    BY <1>1, <1>3
  <2>2. IsFiniteSet(t)
    BY <1>2, FS_Subset
  <2>3. \A u \in SUBSET t : SumFunctionOnSet(f, u) = g[u]
    BY <2>1, <2>2, SumIsValue
  <2>4. g[t] = IF t = {} THEN 0 ELSE f[Chosen(t)] + g[t \ {Chosen(t)}]
    BY <2>1 DEF SumsAll
  <2>. QED
    BY <2>3, <2>4
<1>. DEFINE g == [t \in SUBSET s |->
                    IF t = {} THEN 0
                    ELSE f[Chosen(t)] + SumFunctionOnSet(f, t \ {Chosen(t)})]
<1>4. \A t \in SUBSET s : t # s => g[t] = SumFunctionOnSet(f, t)
  BY <1>3
<1>5. ASSUME NEW t \in SUBSET s, t # {}
      PROVE  g[t \ {Chosen(t)}] = SumFunctionOnSet(f, t \ {Chosen(t)})
  <2>1. t \ {Chosen(t)} \in SUBSET s /\ t \ {Chosen(t)} # s
    BY <1>5, ChosenIn
  <2>. QED
    BY <1>4, <2>1
<1>6. SumsAll(f, s, g)
  BY <1>5 DEF SumsAll
<1>. QED
  BY <1>6

\* The recursion: a chosen element and the rest.
LEMMA SumUnfolds ==
    ASSUME NEW f, NEW S, IsFiniteSet(S)
    PROVE  SumFunctionOnSet(f, S) = IF S = {} THEN 0
                                    ELSE f[Chosen(S)] + SumFunctionOnSet(f, S \ {Chosen(S)})
<1>1. PICK g : SumsAll(f, S, g)
  BY SumsAllExists
<1>2. \A t \in SUBSET S : SumFunctionOnSet(f, t) = g[t]
  BY <1>1, SumIsValue
<1>3. g[S] = IF S = {} THEN 0 ELSE f[Chosen(S)] + g[S \ {Chosen(S)}]
  BY <1>1 DEF SumsAll
<1>. QED
  BY <1>2, <1>3

-----------------------------------------------------------------------------
(* Sums of natural numbers.                                                    *)

LEMMA SumIsNat ==
    ASSUME NEW f, NEW S, IsFiniteSet(S), \A x \in S : f[x] \in Nat
    PROVE  SumFunctionOnSet(f, S) \in Nat
<1>. DEFINE T == {s \in SUBSET S : SumFunctionOnSet(f, s) \notin Nat}
<1>. SUFFICES ASSUME T # {} PROVE FALSE
  OBVIOUS
<1>0. T \in SUBSET SUBSET S
  OBVIOUS
<1>. HIDE DEF T
<1>1. PICK s \in T : \A t \in SUBSET s : t # s => t \notin T
  BY <1>0, SmallestSet
<1>2. s \in SUBSET S /\ IsFiniteSet(s) /\ SumFunctionOnSet(f, s) \notin Nat
  BY <1>0, FS_Subset DEF T
<1>3. SumFunctionOnSet(f, s) = IF s = {} THEN 0
                               ELSE f[Chosen(s)] + SumFunctionOnSet(f, s \ {Chosen(s)})
  BY <1>2, SumUnfolds
<1>4. s # {} /\ Chosen(s) \in s
  BY <1>2, <1>3, ChosenIn
<1>5. SumFunctionOnSet(f, s \ {Chosen(s)}) \in Nat
  BY <1>1, <1>2, <1>4 DEF T
<1>. QED
  BY <1>2, <1>3, <1>4, <1>5

\* Any element may be taken out, whichever the recursion chooses.
LEMMA SumTakesOut ==
    ASSUME NEW f, NEW S, IsFiniteSet(S), \A x \in S : f[x] \in Nat, NEW x \in S
    PROVE  SumFunctionOnSet(f, S) = f[x] + SumFunctionOnSet(f, S \ {x})
<1>. DEFINE T == {s \in SUBSET S :
                    \E y \in s : SumFunctionOnSet(f, s) # f[y] + SumFunctionOnSet(f, s \ {y})}
<1>. SUFFICES ASSUME T # {} PROVE FALSE
  OBVIOUS
<1>0. T \in SUBSET SUBSET S
  OBVIOUS
<1>. HIDE DEF T
<1>1. PICK s \in T : \A t \in SUBSET s : t # s => t \notin T
  BY <1>0, SmallestSet
<1>2. \A t \in SUBSET S : IsFiniteSet(t) /\ SumFunctionOnSet(f, t) \in Nat
  BY FS_Subset, SumIsNat
<1>3. PICK y \in s : SumFunctionOnSet(f, s) # f[y] + SumFunctionOnSet(f, s \ {y})
  BY DEF T
<1>4. s \in SUBSET S
  BY <1>0
<1>. DEFINE c == Chosen(s)
<1>5. c \in s
  BY ChosenIn
<1>6. SumFunctionOnSet(f, s) = f[c] + SumFunctionOnSet(f, s \ {c})
  BY <1>2, <1>4, <1>5, SumUnfolds
<1>. HIDE DEF c
<1>7. y # c
  BY <1>3, <1>6
<1>8. SumFunctionOnSet(f, s \ {c}) = f[y] + SumFunctionOnSet(f, (s \ {c}) \ {y})
  <2>1. s \ {c} \notin T /\ s \ {c} \in SUBSET S
    BY <1>1, <1>4, <1>5
  <2>. QED
    BY <1>7, <2>1 DEF T
<1>9. SumFunctionOnSet(f, s \ {y}) = f[c] + SumFunctionOnSet(f, (s \ {y}) \ {c})
  <2>1. s \ {y} \notin T /\ s \ {y} \in SUBSET S
    BY <1>1, <1>4
  <2>. QED
    BY <1>5, <1>7, <2>1 DEF T
<1>10. (s \ {c}) \ {y} = (s \ {y}) \ {c}
  OBVIOUS
<1>11. /\ f[c] \in Nat /\ f[y] \in Nat
       /\ SumFunctionOnSet(f, (s \ {c}) \ {y}) \in Nat
  BY <1>2, <1>4, <1>5
<1>. QED
  BY <1>3, <1>6, <1>8, <1>9, <1>10, <1>11

\* Functions that agree on a set have the same sum.
LEMMA SumsAgree ==
    ASSUME NEW f, NEW g, NEW S, IsFiniteSet(S), \A x \in S : f[x] = g[x]
    PROVE  SumFunctionOnSet(f, S) = SumFunctionOnSet(g, S)
<1>. DEFINE T == {s \in SUBSET S : SumFunctionOnSet(f, s) # SumFunctionOnSet(g, s)}
<1>. SUFFICES ASSUME T # {} PROVE FALSE
  OBVIOUS
<1>0. T \in SUBSET SUBSET S
  OBVIOUS
<1>. HIDE DEF T
<1>1. PICK s \in T : \A t \in SUBSET s : t # s => t \notin T
  BY <1>0, SmallestSet
<1>2. s \in SUBSET S /\ IsFiniteSet(s) /\ SumFunctionOnSet(f, s) # SumFunctionOnSet(g, s)
  BY <1>0, FS_Subset DEF T
<1>3. /\ SumFunctionOnSet(f, s) = IF s = {} THEN 0
                                  ELSE f[Chosen(s)] + SumFunctionOnSet(f, s \ {Chosen(s)})
      /\ SumFunctionOnSet(g, s) = IF s = {} THEN 0
                                  ELSE g[Chosen(s)] + SumFunctionOnSet(g, s \ {Chosen(s)})
  BY <1>2, SumUnfolds
<1>4. s # {} /\ Chosen(s) \in s
  BY <1>2, <1>3, ChosenIn
<1>5. SumFunctionOnSet(f, s \ {Chosen(s)}) = SumFunctionOnSet(g, s \ {Chosen(s)})
  BY <1>1, <1>2, <1>4 DEF T
<1>. QED
  BY <1>2, <1>3, <1>4, <1>5

\* One value changes.
LEMMA SumChanges ==
    ASSUME NEW f, NEW g, NEW S, IsFiniteSet(S), NEW x \in S,
           \A y \in S : f[y] \in Nat /\ g[y] \in Nat /\ (y # x => f[y] = g[y])
    PROVE  SumFunctionOnSet(f, S) + g[x] = SumFunctionOnSet(g, S) + f[x]
<1>1. IsFiniteSet(S \ {x})
  BY FS_Subset
<1>2. SumFunctionOnSet(f, S \ {x}) = SumFunctionOnSet(g, S \ {x})
  BY <1>1, SumsAgree
<1>3. SumFunctionOnSet(f, S \ {x}) \in Nat
  BY <1>1, SumIsNat
<1>4. /\ SumFunctionOnSet(f, S) = f[x] + SumFunctionOnSet(f, S \ {x})
      /\ SumFunctionOnSet(g, S) = g[x] + SumFunctionOnSet(g, S \ {x})
  BY SumTakesOut
<1>. QED
  BY <1>2, <1>3, <1>4

\* No value is larger than the sum.
LEMMA SumBounds ==
    ASSUME NEW f, NEW S, IsFiniteSet(S), \A x \in S : f[x] \in Nat, NEW x \in S
    PROVE  f[x] <= SumFunctionOnSet(f, S)
<1>1. SumFunctionOnSet(f, S) = f[x] + SumFunctionOnSet(f, S \ {x})
  BY SumTakesOut
<1>2. SumFunctionOnSet(f, S \ {x}) \in Nat
  BY FS_Subset, SumIsNat
<1>. QED
  BY <1>1, <1>2

\* The sum over a subset is that of the function with zeros elsewhere.
LEMMA SumIgnoresZeros ==
    ASSUME NEW f, NEW g, NEW S, IsFiniteSet(S), NEW R \in SUBSET S,
           \A x \in S : g[x] = IF x \in R THEN f[x] ELSE 0,
           \A x \in R : f[x] \in Nat
    PROVE  SumFunctionOnSet(g, S) = SumFunctionOnSet(f, R)
<1>. DEFINE T == {s \in SUBSET S : SumFunctionOnSet(g, s) # SumFunctionOnSet(f, s \cap R)}
<1>0. T \in SUBSET SUBSET S
  OBVIOUS
<1>1. T = {}
  <2>. SUFFICES ASSUME T # {} PROVE FALSE
    OBVIOUS
  <2>. HIDE DEF T
  <2>1. PICK s \in T : \A t \in SUBSET s : t # s => t \notin T
    BY <1>0, SmallestSet
  <2>2. /\ s \in SUBSET S /\ IsFiniteSet(s) /\ IsFiniteSet(s \cap R)
        /\ SumFunctionOnSet(g, s) # SumFunctionOnSet(f, s \cap R)
    BY <1>0, FS_Subset DEF T
  <2>. DEFINE c == Chosen(s)
  <2>3. SumFunctionOnSet(g, s) = IF s = {} THEN 0 ELSE g[c] + SumFunctionOnSet(g, s \ {c})
    BY <2>2, SumUnfolds
  <2>4. s # {}
    <3>1. SumFunctionOnSet(f, {}) = 0
      BY FS_EmptySet, SumUnfolds
    <3>. QED
      BY <2>2, <2>3, <3>1
  <2>5. c \in s
    BY <2>4, ChosenIn
  <2>. HIDE DEF c
  <2>6. SumFunctionOnSet(g, s \ {c}) = SumFunctionOnSet(f, (s \ {c}) \cap R)
    BY <2>1, <2>2, <2>5 DEF T
  <2>7. CASE c \in R
    <3>1. SumFunctionOnSet(f, s \cap R) = f[c] + SumFunctionOnSet(f, (s \cap R) \ {c})
      BY <2>2, <2>5, <2>7, SumTakesOut
    <3>2. (s \cap R) \ {c} = (s \ {c}) \cap R
      OBVIOUS
    <3>. QED
      BY <2>2, <2>3, <2>4, <2>5, <2>6, <2>7, <3>1, <3>2
  <2>8. CASE c \notin R
    <3>1. s \cap R = (s \ {c}) \cap R
      BY <2>8
    <3>2. SumFunctionOnSet(f, (s \ {c}) \cap R) \in Nat
      BY FS_Subset, SumIsNat
    <3>. QED
      <4>1. SumFunctionOnSet(g, s) = 0 + SumFunctionOnSet(f, (s \ {c}) \cap R)
        BY <2>2, <2>3, <2>4, <2>5, <2>6, <2>8
      <4>2. SumFunctionOnSet(f, s \cap R) = SumFunctionOnSet(f, (s \ {c}) \cap R)
        BY <3>1
      <4>3. 0 + SumFunctionOnSet(f, (s \ {c}) \cap R) = SumFunctionOnSet(f, (s \ {c}) \cap R)
        BY <3>2
      <4>. QED
        BY <2>2, <4>1, <4>2, <4>3
  <2>. QED
    BY <2>7, <2>8
<1>2. SumFunctionOnSet(g, S) = SumFunctionOnSet(f, S \cap R)
  BY <1>1
<1>. QED
  <2>1. S \cap R = R
    OBVIOUS
  <2>. QED
    BY <1>2, <2>1

\* A smaller function has a smaller sum.
LEMMA SumsGrow ==
    ASSUME NEW f, NEW g, NEW S, IsFiniteSet(S),
           \A x \in S : f[x] \in Nat /\ g[x] \in Nat /\ f[x] <= g[x]
    PROVE  SumFunctionOnSet(f, S) <= SumFunctionOnSet(g, S)
<1>. DEFINE T == {s \in SUBSET S : ~(SumFunctionOnSet(f, s) <= SumFunctionOnSet(g, s))}
<1>. SUFFICES ASSUME T # {} PROVE FALSE
  OBVIOUS
<1>0. T \in SUBSET SUBSET S
  OBVIOUS
<1>. HIDE DEF T
<1>1. PICK s \in T : \A t \in SUBSET s : t # s => t \notin T
  BY <1>0, SmallestSet
<1>2. /\ s \in SUBSET S /\ IsFiniteSet(s)
      /\ ~(SumFunctionOnSet(f, s) <= SumFunctionOnSet(g, s))
  BY <1>0, FS_Subset DEF T
<1>3. /\ SumFunctionOnSet(f, s) = IF s = {} THEN 0
                                  ELSE f[Chosen(s)] + SumFunctionOnSet(f, s \ {Chosen(s)})
      /\ SumFunctionOnSet(g, s) = IF s = {} THEN 0
                                  ELSE g[Chosen(s)] + SumFunctionOnSet(g, s \ {Chosen(s)})
  BY <1>2, SumUnfolds
<1>4. s # {} /\ Chosen(s) \in s
  BY <1>2, <1>3, ChosenIn
<1>5. /\ SumFunctionOnSet(f, s \ {Chosen(s)}) <= SumFunctionOnSet(g, s \ {Chosen(s)})
      /\ SumFunctionOnSet(f, s \ {Chosen(s)}) \in Nat
      /\ SumFunctionOnSet(g, s \ {Chosen(s)}) \in Nat
  BY <1>1, <1>2, <1>4, FS_Subset, SumIsNat DEF T
<1>. QED
  BY <1>2, <1>3, <1>4, <1>5

LEMMA SumOfZeros ==
    ASSUME NEW f, NEW S, IsFiniteSet(S), \A x \in S : f[x] = 0
    PROVE  SumFunctionOnSet(f, S) = 0
<1>1. SumFunctionOnSet(f, {}) = 0
  BY FS_EmptySet, SumUnfolds
<1>2. \A x \in S : f[x] = IF x \in {} THEN f[x] ELSE 0
  OBVIOUS
<1>3. {} \in SUBSET S /\ \A x \in {} : f[x] \in Nat
  OBVIOUS
<1>4. SumFunctionOnSet(f, S) = SumFunctionOnSet(f, {})
  BY <1>2, <1>3, SumIgnoresZeros
<1>. QED
  BY <1>1, <1>4

-----------------------------------------------------------------------------
(* MetricRollup: the inductive invariant.                                      *)

\* How far the present minute lies behind the first one that is not yet old.
Retained == DayLength * FineRetention - 1

\* What is counted in memory is younger than what any task sums up or deletes.
MemoryIsYoung == \A m \in Minutes : InMemory(m) => m + DayLength > now

\* A minute that was deleted is past every cutoff so far and has no row again.
PurgedIsOld == \A m \in Minutes : purged[m] > 0 => fine[m] = 0 /\ m + Retained < now

\* Tasks at work began in the present minute, and so have the same cutoff.
TasksAreDue ==
    \A p \in Servers :
        task[p].pc # "idle" => task[p].cutoff + Retained = now

\* What the rows before minute c have or had.
Below(c) == [m \in Minutes |-> IF m < c THEN fine[m] + purged[m] ELSE 0]
SumBelow(d, c) == SumFunctionOnSet(Below(c), MinutesOf(d))

SomePurged(d) == \E m \in MinutesOf(d) : purged[m] > 0

\* The sum that a task has for a day is that of its minutes before the cutoff, and
\* once written it is the day's; without one there is nothing to delete.
SumIsTrue(p, d) ==
    /\ task[p].sum[d] > 0 =>
         /\ task[p].sum[d] = SumBelow(d, task[p].cutoff)
         /\ task[p].pc = "delete" \/ d \notin task[p].left => day[d] = task[p].sum[d]
    /\ task[p].sum[d] = 0 =>
         /\ d \notin task[p].left
         /\ \A m \in MinutesOf(d) : m < task[p].cutoff => fine[m] = 0

\* A day of which minutes were deleted has the sum up to some cutoff after them.
DayFollows(d) ==
    SomePurged(d) =>
        \E c \in Nat : /\ c + Retained <= now
                       /\ day[d] = SumBelow(d, c)
                       /\ \A m \in MinutesOf(d) : purged[m] > 0 => m < c

DaysAreSummed ==
    \A d \in Dates \ split :
        /\ DayFollows(d)
        /\ \A p \in Servers : task[p].pc \in {"upsert", "delete"} => SumIsTrue(p, d)

MetricIInv ==
    /\ MetricTypeOK /\ MemoryIsYoung /\ PurgedIsOld /\ TasksAreDue
    /\ CountedOnce /\ DaysAreSummed

-----------------------------------------------------------------------------
(* Minutes and days.                                                           *)

LEMMA RetainedIsLong == Retained \in Nat /\ Retained + 1 >= DayLength
<1>. DEFINE L == DayLength
            R == FineRetention
<1>1. L \in Nat \ {0} /\ R \in Nat \ {0}
  BY MetricRollupAssumption
<1>2. L * R \in Nat /\ L * R >= L /\ L >= 1
  BY <1>1
<1>3. ASSUME NEW x \in Nat, x >= L
      PROVE  x - 1 \in Nat /\ (x - 1) + 1 >= L
  BY <1>1, <1>3
<1>. QED
  BY <1>2, <1>3 DEF Retained

LEMMA DaysAreMinutes ==
    ASSUME NEW d \in Dates
    PROVE  MinutesOf(d) \in SUBSET Minutes /\ IsFiniteSet(MinutesOf(d))
<1>1. /\ DayLength \in Nat /\ Days \in Nat /\ d \in Nat /\ d + 1 <= Days
  BY MetricRollupAssumption DEF Dates
<1>2. DayLength * (d + 1) <= DayLength * Days
  BY <1>1
<1>3. DayLength * (d + 1) = DayLength * d + DayLength
  BY <1>1
<1>4. DayLength * d \in Nat /\ DayLength * Days \in Nat
  BY <1>1
<1>5. MinutesOf(d) \in SUBSET Minutes
  BY <1>1, <1>2, <1>3, <1>4 DEF MinutesOf, Minutes
<1>6. IsFiniteSet((DayLength * d)..(DayLength * d + DayLength - 1))
  BY <1>1, <1>4, FS_Interval
<1>. QED
  BY <1>5, <1>6 DEF MinutesOf

LEMMA FlushersAreFinite == IsFiniteSet(Flushers)
<1>1. IsFiniteSet({"ticker", "task"})
  <2>1. IsFiniteSet({} \cup {"ticker"}) /\ IsFiniteSet(({} \cup {"ticker"}) \cup {"task"})
    BY FS_EmptySet, FS_AddElement
  <2>2. ({} \cup {"ticker"}) \cup {"task"} = {"ticker", "task"}
    OBVIOUS
  <2>. QED
    BY <2>1, <2>2
<1>. QED
  BY <1>1, FS_Product, MetricRollupAssumption DEF Flushers

LEMMA MinutesAreNat == Minutes \subseteq Nat
BY MetricRollupAssumption DEF Minutes

LEMMA OldestIsOld ==
    ASSUME NEW S \in SUBSET Minutes, S # {}
    PROVE  Oldest(S) \in S
<1>1. PICK m \in S : \A n \in S : ~ (<<n, m>> \in OpToRel(<, Nat))
  BY NatLessThanWellFounded, WFMin, MinutesAreNat
<1>2. \A n \in S : n < m => <<n, m>> \in OpToRel(<, Nat)
  BY MinutesAreNat DEF OpToRel
<1>3. \A n \in S : ~(n < m)
  BY <1>1, <1>2, Zenon
<1>4. \A n \in S : m <= n
  BY <1>3, MinutesAreNat
<1>. QED
  BY <1>4 DEF Oldest

-----------------------------------------------------------------------------
(* The types.                                                                  *)

LEMMA ZeroIsTyped ==
    /\ Zero \in [Minutes -> Nat]
    /\ Idle \in [rows : [Minutes -> Nat], left : SUBSET Minutes]
    /\ NoTask \in [pc : {"idle", "flush", "aggregate", "upsert", "delete"},
                   ran : Nat, cutoff : Nat, sum : [Dates -> Nat], left : SUBSET Dates]
BY DEF Zero, Idle, NoTask

Tasks == [pc : {"idle", "flush", "aggregate", "upsert", "delete"},
          ran : Nat, cutoff : Nat, sum : [Dates -> Nat], left : SUBSET Dates]
Flushes == [rows : [Minutes -> Nat], left : SUBSET Minutes]

LEMMA TypesOfMetrics ==
    MetricTypeOK <=>
      /\ now \in Minutes /\ at \in RollupTimes
      /\ buckets \in [Servers -> [Minutes -> Nat]]
      /\ flushing \in [Flushers -> Flushes]
      /\ fine \in [Minutes -> Nat] /\ day \in [Dates -> Nat]
      /\ lease \in Servers \cup {Nobody}
      /\ task \in [Servers -> Tasks]
      /\ served \in [Minutes -> Nat] /\ purged \in [Minutes -> Nat] /\ split \subseteq Dates
      /\ metricFaults \in [MetricFaultKinds -> Nat]
BY DEF MetricTypeOK, Tasks, Flushes

LEMMA TypesOfMetricsNext ==
    MetricTypeOK' <=>
      /\ now' \in Minutes /\ at' \in RollupTimes
      /\ buckets' \in [Servers -> [Minutes -> Nat]]
      /\ flushing' \in [Flushers -> Flushes]
      /\ fine' \in [Minutes -> Nat] /\ day' \in [Dates -> Nat]
      /\ lease' \in Servers \cup {Nobody}
      /\ task' \in [Servers -> Tasks]
      /\ served' \in [Minutes -> Nat] /\ purged' \in [Minutes -> Nat] /\ split' \subseteq Dates
      /\ metricFaults' \in [MetricFaultKinds -> Nat]
BY DEF MetricTypeOK, Tasks, Flushes

LEMMA MetricInitIsTyped == MetricInit => MetricTypeOK
<1>. SUFFICES ASSUME MetricInit PROVE MetricTypeOK
  OBVIOUS
<1>1. Zero \in [Minutes -> Nat] /\ Idle \in Flushes /\ NoTask \in Tasks
  BY ZeroIsTyped DEF Tasks, Flushes
<1>2. now \in Minutes
  <2>1. DayLength \in Nat \ {0} /\ Days \in Nat \ {0}
    BY MetricRollupAssumption
  <2>2. DayLength * Days \in Nat \ {0}
    BY <2>1
  <2>. QED
    BY <2>2 DEF MetricInit, Minutes
<1>3. metricFaults \in [MetricFaultKinds -> Nat]
  BY DEF MetricInit
<1>4. split \subseteq Dates /\ day \in [Dates -> Nat]
  BY DEF MetricInit
<1>. QED
  BY <1>1, <1>2, <1>3, <1>4, TypesOfMetrics DEF MetricInit

LEMMA FaultIsTyped ==
    ASSUME MetricTypeOK, NEW k \in MetricFaultKinds
    PROVE  /\ NoFault => metricFaults' \in [MetricFaultKinds -> Nat]
           /\ Fault(k) => metricFaults' \in [MetricFaultKinds -> Nat]
<1>1. metricFaults \in [MetricFaultKinds -> Nat] /\ metricFaults[k] + 1 \in Nat
  BY TypesOfMetrics
<1>2. [metricFaults EXCEPT ![k] = @ + 1] \in [MetricFaultKinds -> Nat]
  BY <1>1
<1>. QED
  BY <1>1, <1>2 DEF NoFault, Fault

LEMMA FlushersAreServers ==
    /\ \A f \in Flushers : f[1] \in Servers
    /\ \A p \in Servers : <<p, "ticker">> \in Flushers /\ <<p, "task">> \in Flushers
BY DEF Flushers

LEMMA MetricStepIsTyped ==
    ASSUME MetricTypeOK, [MetricNext]_metricVars
    PROVE  MetricTypeOK'
<1>a. /\ now \in Minutes /\ at \in RollupTimes
      /\ buckets \in [Servers -> [Minutes -> Nat]]
      /\ flushing \in [Flushers -> Flushes]
      /\ fine \in [Minutes -> Nat] /\ day \in [Dates -> Nat]
      /\ lease \in Servers \cup {Nobody}
      /\ task \in [Servers -> Tasks]
      /\ served \in [Minutes -> Nat] /\ purged \in [Minutes -> Nat] /\ split \subseteq Dates
      /\ metricFaults \in [MetricFaultKinds -> Nat]
  BY TypesOfMetrics
<1>b. /\ NoFault => metricFaults' \in [MetricFaultKinds -> Nat]
      /\ Fault("db") => metricFaults' \in [MetricFaultKinds -> Nat]
      /\ Fault("lease") => metricFaults' \in [MetricFaultKinds -> Nat]
      /\ Fault("crash") => metricFaults' \in [MetricFaultKinds -> Nat]
  BY FaultIsTyped DEF MetricFaultKinds
<1>c. Zero \in [Minutes -> Nat] /\ Idle \in Flushes /\ NoTask \in Tasks
  BY ZeroIsTyped DEF Tasks, Flushes
<1>. USE <1>a, <1>b, <1>c, TypesOfMetricsNext, FlushersAreServers
<1>0. CASE UNCHANGED metricVars
  BY <1>0, Zenon DEF metricVars, rollup
<1>1. CASE Tick
  BY <1>1 DEF Tick, rollup
<1>2. CASE LeaseLost
  BY <1>2 DEF LeaseLost, MetricFaultKinds
<1>3. ASSUME NEW p \in Servers, RecordHTTP(p)
      PROVE  MetricTypeOK'
  <2>1. buckets[p] \in [Minutes -> Nat] /\ now \in Minutes
    OBVIOUS
  <2>2. [buckets[p] EXCEPT ![now] = @ + 1] \in [Minutes -> Nat]
    BY <2>1
  <2>3. buckets' \in [Servers -> [Minutes -> Nat]]
    <3>. DEFINE b == [buckets[p] EXCEPT ![now] = @ + 1]
    <3>1. b \in [Minutes -> Nat]
      BY <2>2
    <3>2. buckets' = [buckets EXCEPT ![p] = b]
      BY <1>3, Zenon DEF RecordHTTP
    <3>. HIDE DEF b
    <3>. QED
      BY <3>1, <3>2
  <2>4. served' \in [Minutes -> Nat]
    BY <1>3 DEF RecordHTTP
  <2>. QED
    BY <1>3, <2>3, <2>4 DEF RecordHTTP, rollup
<1>4. ASSUME NEW f \in Flushers, SwapBuckets(f)
      PROVE  /\ buckets' \in [Servers -> [Minutes -> Nat]]
             /\ flushing' \in [Flushers -> Flushes]
  <2>1. [rows |-> buckets[f[1]], left |-> Counted(f[1])] \in Flushes
    BY DEF Flushes, Counted
  <2>. QED
    BY <1>4, <2>1 DEF SwapBuckets
<1>5. ASSUME NEW p \in Servers, TickerFlush(p)
      PROVE  MetricTypeOK'
  BY <1>4, <1>5 DEF TickerFlush, rollup
<1>6. ASSUME NEW p \in Servers, BeginTask(p)
      PROVE  MetricTypeOK'
  <2>1. DayLength * FineRetention \in Nat /\ now \in Nat
    BY MetricRollupAssumption, MinutesAreNat
  <2>2. now + 1 - DayLength * FineRetention \in Nat
    BY <1>6, <2>1 DEF BeginTask
  <2>3. [pc |-> "flush", ran |-> now, cutoff |-> now + 1 - DayLength * FineRetention,
         sum |-> NoTask.sum, left |-> {}] \in Tasks
    BY <2>1, <2>2 DEF Tasks, NoTask
  <2>4. task' \in [Servers -> Tasks]
    BY <1>6, <2>3 DEF BeginTask
  <2>. QED
    BY <1>6, <2>4 DEF BeginTask
<1>7. ASSUME NEW p \in Servers, NEW pc \in {"idle", "flush", "aggregate", "upsert", "delete"}
      PROVE  [task[p] EXCEPT !.pc = pc] \in Tasks
  BY DEF Tasks
<1>8. ASSUME NEW p \in Servers, TaskFlush(p)
      PROVE  MetricTypeOK'
  <2>1. task' \in [Servers -> Tasks]
    BY <1>7, <1>8 DEF TaskFlush, GoTo
  <2>2. /\ buckets' \in [Servers -> [Minutes -> Nat]]
        /\ flushing' \in [Flushers -> Flushes]
    BY <1>4, <1>8 DEF TaskFlush
  <2>. QED
    BY <1>8, <2>1, <2>2 DEF TaskFlush
<1>9. ASSUME NEW p \in Servers, Aggregate(p)
      PROVE  MetricTypeOK'
  <2>1. ASSUME NEW d \in Dates
        PROVE  SumFunctionOnSet(fine, MinutesOf(d) \cap Old(p)) \in Nat
    <3>1. IsFiniteSet(MinutesOf(d) \cap Old(p))
      BY DaysAreMinutes, FS_Subset
    <3>2. \A m \in MinutesOf(d) \cap Old(p) : fine[m] \in Nat
      BY DEF Old
    <3>. QED
      BY <3>1, <3>2, SumIsNat
  <2>2. Sums(p) \in [Dates -> Nat]
    BY <2>1 DEF Sums
  <2>3. [pc |-> "upsert", ran |-> task[p].ran, cutoff |-> task[p].cutoff,
         sum |-> Sums(p), left |-> {d \in Dates : Sums(p)[d] > 0}] \in Tasks
    BY <2>2 DEF Tasks
  <2>4. task' \in [Servers -> Tasks]
    BY <1>9, <2>3 DEF Aggregate
  <2>. QED
    BY <1>9, <2>4 DEF Aggregate
<1>10. ASSUME NEW p \in Servers, UpsertAbsolute(p)
       PROVE  MetricTypeOK'
  <2>1. PICK d \in task[p].left : /\ day' = [day EXCEPT ![d] = task[p].sum[d]]
                                  /\ task' = [task EXCEPT ![p].left = @ \ {d}]
    BY <1>10 DEF UpsertAbsolute
  <2>2. d \in Dates /\ task[p].sum[d] \in Nat
    BY DEF Tasks
  <2>3. [task[p] EXCEPT !.left = @ \ {d}] \in Tasks
    BY DEF Tasks
  <2>4. task' \in [Servers -> Tasks] /\ day' \in [Dates -> Nat]
    BY <2>1, <2>2, <2>3
  <2>. QED
    BY <1>10, <2>4 DEF UpsertAbsolute
<1>11. ASSUME NEW p \in Servers, BeginDelete(p)
       PROVE  MetricTypeOK'
  BY <1>7, <1>11 DEF BeginDelete, GoTo
<1>12. ASSUME NEW p \in Servers, DeleteFine(p)
       PROVE  MetricTypeOK'
  <2>1. Oldest(Old(p)) \in Minutes
    <3>1. Old(p) \in SUBSET Minutes /\ Old(p) # {}
      BY <1>12 DEF DeleteFine, Old
    <3>. QED
      BY <3>1, OldestIsOld
  <2>. QED
    BY <1>12, <2>1 DEF DeleteFine
<1>13. ASSUME NEW p \in Servers
       PROVE  Ended(p) \in Tasks
  BY DEF Ended, Tasks
<1>14. ASSUME NEW p \in Servers, EndTask(p)
       PROVE  MetricTypeOK'
  BY <1>13, <1>14 DEF EndTask
<1>15. ASSUME NEW p \in Servers, TaskError(p)
       PROVE  MetricTypeOK'
  BY <1>13, <1>15 DEF TaskError, MetricFaultKinds
<1>16. ASSUME NEW p \in Servers, Crash(p)
       PROVE  MetricTypeOK'
  <2>1. flushing' \in [Flushers -> Flushes]
    BY <1>16 DEF Crash, Flushes
  <2>2. task' \in [Servers -> Tasks] /\ buckets' \in [Servers -> [Minutes -> Nat]]
    BY <1>13, <1>16 DEF Crash
  <2>. QED
    BY <1>16, <2>1, <2>2 DEF Crash, MetricFaultKinds
<1>17. ASSUME NEW f \in Flushers, NEW m \in Minutes, IncrementRow(f, m)
       PROVE  MetricTypeOK'
  <2>1. flushing[f].rows[m] \in Nat /\ flushing[f].rows \in [Minutes -> Nat]
    BY DEF Flushes
  <2>2. Without(m, flushing[f]) \in Flushes
    BY DEF Without, Flushes
  <2>3. flushing' \in [Flushers -> Flushes]
    BY <1>17, <2>2 DEF IncrementRow
  <2>4. fine[m] + flushing[f].rows[m] \in Nat
    BY <2>1
  <2>5. fine' \in [Minutes -> Nat]
    BY <1>17, <2>4 DEF IncrementRow
  <2>. QED
    BY <1>17, <2>3, <2>5 DEF IncrementRow, rollup
<1>18. ASSUME NEW f \in Flushers, NEW m \in Minutes, IncrementError(f, m)
       PROVE  MetricTypeOK'
  <2>1. flushing[f].rows[m] \in Nat /\ flushing[f].rows \in [Minutes -> Nat]
    BY DEF Flushes
  <2>2. Plus(buckets[f[1]], flushing[f].rows) \in [Minutes -> Nat]
    BY <2>1 DEF Plus
  <2>3. flushing' \in [Flushers -> Flushes]
    BY <1>18 DEF IncrementError
  <2>5. fine[m] + flushing[f].rows[m] \in Nat
    BY <2>1
  <2>6. fine' \in [Minutes -> Nat]
    BY <1>18, <2>5 DEF IncrementError
  <2>4. buckets' \in [Servers -> [Minutes -> Nat]]
    BY <1>18, <2>2 DEF IncrementError
  <2>. QED
    BY <1>18, <2>3, <2>4, <2>6 DEF IncrementError, rollup, MetricFaultKinds
<1>. QED
  BY <1>0, <1>1, <1>2, <1>3, <1>5, <1>6, <1>8, <1>9, <1>10, <1>11, <1>12, <1>14,
     <1>15, <1>16, <1>17, <1>18 DEF MetricNext

-----------------------------------------------------------------------------
(* What is in memory.                                                          *)

\* Nothing enters memory but the present minute.
LEMMA MemoryOnlyGrowsNow ==
    ASSUME MetricTypeOK, MetricTypeOK', MetricNext, NEW m \in Minutes, InMemory(m)'
    PROVE  InMemory(m) \/ (now' = now /\ m = now)
<1>. USE TypesOfMetrics, FlushersAreServers DEF InMemory
<1>0. \A q \in Servers : buckets[q][m] \in Nat
  OBVIOUS
<1>00. \A f \in Flushers : flushing[f].rows[m] \in Nat
  BY DEF Flushes
<1>000. Zero[m] = 0 /\ Idle.rows[m] = 0
  BY DEF Zero, Idle
<1>1. CASE Tick
  BY <1>1 DEF Tick
<1>2. CASE LeaseLost
  BY <1>2 DEF LeaseLost
<1>3. ASSUME NEW p \in Servers, RecordHTTP(p) PROVE InMemory(m) \/ (now' = now /\ m = now)
  <2>1. m # now => \A q \in Servers : buckets'[q][m] = buckets[q][m]
    BY <1>3 DEF RecordHTTP
  <2>. QED
    BY <1>3, <2>1 DEF RecordHTTP
<1>4. ASSUME NEW f \in Flushers, SwapBuckets(f) PROVE InMemory(m)
  <2>1. \A q \in Servers : buckets'[q][m] > 0 => buckets[q][m] > 0
    BY <1>0, <1>000, <1>4 DEF SwapBuckets
  <2>2. \A g \in Flushers : \/ flushing'[g].rows[m] = flushing[g].rows[m]
                            \/ flushing'[g].rows[m] = buckets[f[1]][m]
    BY <1>4 DEF SwapBuckets
  <2>. QED
    BY <2>1, <2>2
<1>5. ASSUME NEW p \in Servers, TickerFlush(p) PROVE InMemory(m)
  BY <1>4, <1>5 DEF TickerFlush
<1>6. ASSUME NEW p \in Servers, TaskFlush(p) PROVE InMemory(m)
  BY <1>4, <1>6 DEF TaskFlush
<1>7. ASSUME NEW p \in Servers,
             \/ BeginTask(p) \/ Aggregate(p) \/ UpsertAbsolute(p) \/ BeginDelete(p)
             \/ DeleteFine(p) \/ EndTask(p) \/ TaskError(p)
      PROVE  InMemory(m)
  BY <1>7 DEF BeginTask, Aggregate, UpsertAbsolute, BeginDelete, DeleteFine, EndTask, TaskError
<1>8. ASSUME NEW p \in Servers, Crash(p) PROVE InMemory(m)
  <2>1. \A q \in Servers : buckets'[q][m] > 0 => buckets[q][m] > 0
    BY <1>0, <1>000, <1>8 DEF Crash
  <2>2. \A g \in Flushers : flushing'[g].rows[m] > 0 => flushing[g].rows[m] > 0
    BY <1>00, <1>000, <1>8 DEF Crash
  <2>. QED
    BY <2>1, <2>2
<1>9. ASSUME NEW f \in Flushers, NEW n \in Minutes, IncrementRow(f, n) PROVE InMemory(m)
  <2>1. \A g \in Flushers : flushing'[g].rows[m] > 0 => flushing[g].rows[m] > 0
    <3>1. Without(n, flushing[f]).rows[m] > 0 => flushing[f].rows[m] > 0
      BY <1>00, <1>000 DEF Without, Flushes
    <3>. QED
      BY <1>9, <3>1 DEF IncrementRow
  <2>. QED
    BY <1>9, <2>1 DEF IncrementRow
<1>10. ASSUME NEW f \in Flushers, NEW n \in Minutes, IncrementError(f, n) PROVE InMemory(m)
  <2>1. \A g \in Flushers : flushing'[g].rows[m] > 0 => flushing[g].rows[m] > 0
    BY <1>00, <1>000, <1>10 DEF IncrementError
  <2>2. Plus(buckets[f[1]], flushing[f].rows)[m] = buckets[f[1]][m] + flushing[f].rows[m]
    BY DEF Plus
  <2>3. \A q \in Servers : \/ buckets'[q][m] = buckets[q][m]
                           \/ buckets'[q][m] = buckets[f[1]][m] + flushing[f].rows[m]
    BY <1>10, <2>2 DEF IncrementError
  <2>4. buckets[f[1]][m] + flushing[f].rows[m] > 0 =>
          buckets[f[1]][m] > 0 \/ flushing[f].rows[m] > 0
    BY <1>0, <1>00
  <2>. QED
    BY <2>1, <2>3, <2>4
<1>. QED
  BY <1>1, <1>2, <1>3, <1>5, <1>6, <1>7, <1>8, <1>9, <1>10 DEF MetricNext

LEMMA MemoryStaysYoung ==
    ASSUME MetricTypeOK, MetricTypeOK', MemoryIsYoung, MetricNext
    PROVE  MemoryIsYoung'
<1>. SUFFICES ASSUME NEW m \in Minutes, InMemory(m)'
              PROVE  m + DayLength > now'
  BY DEF MemoryIsYoung
<1>0. InMemory(m) \/ (now' = now /\ m = now)
  BY MemoryOnlyGrowsNow
<1>1. DayLength \in Nat \ {0} /\ m \in Nat /\ now \in Nat
  BY MetricRollupAssumption, MinutesAreNat, TypesOfMetrics
<1>2. CASE Tick
  <2>1. InMemory(m) /\ now' = now + 1
    BY <1>0, <1>1, <1>2 DEF Tick
  <2>2. m + DayLength > now + 1
    BY <1>2, <2>1 DEF Tick
  <2>. QED
    BY <1>1, <2>1, <2>2
<1>3. MetricNext => Tick \/ now' = now
  BY DEF MetricNext, LeaseLost, RecordHTTP, TickerFlush, BeginTask, TaskFlush, Aggregate,
     UpsertAbsolute, BeginDelete, DeleteFine, EndTask, TaskError, Crash, IncrementRow,
     IncrementError
<1>4. CASE now' = now
  <2>1. CASE m = now
    BY <1>1, <1>4, <2>1
  <2>2. CASE InMemory(m)
    BY <1>4, <2>2 DEF MemoryIsYoung
  <2>. QED
    BY <1>0, <2>1, <2>2
<1>. QED
  BY <1>2, <1>3, <1>4

LEMMA TasksStayDue ==
    ASSUME MetricTypeOK, TasksAreDue, MetricNext
    PROVE  TasksAreDue'
<1>. USE TypesOfMetrics DEF Tasks
<1>. SUFFICES ASSUME NEW q \in Servers, task'[q].pc # "idle"
              PROVE  task'[q].cutoff + Retained = now'
  BY DEF TasksAreDue
<1>1. CASE Tick
  BY <1>1 DEF Tick, rollup
<1>2. CASE UNCHANGED task /\ now' = now
  BY <1>2 DEF TasksAreDue
<1>3. ASSUME NEW p \in Servers, BeginTask(p) PROVE task'[q].cutoff + Retained = now'
  <2>1. CASE q = p
    <3>. DEFINE past == DayLength * FineRetention
    <3>1. past \in Nat /\ now \in Nat /\ Retained = past - 1
      <4>1. DayLength \in Nat /\ FineRetention \in Nat /\ now \in Nat
        BY MetricRollupAssumption, MinutesAreNat
      <4>2. Retained = past - 1
        BY DEF Retained
      <4>. QED
        BY <4>1, <4>2
    <3>2. task'[q].cutoff = now + 1 - past /\ now' = now
      BY <1>3, <2>1 DEF BeginTask
    <3>. HIDE DEF past
    <3>. QED
      BY <3>1, <3>2
  <2>2. CASE q # p
    BY <1>3, <2>2 DEF BeginTask, TasksAreDue
  <2>. QED
    BY <2>1, <2>2
<1>4. ASSUME NEW p \in Servers,
             TaskFlush(p) \/ Aggregate(p) \/ UpsertAbsolute(p) \/ BeginDelete(p)
      PROVE  task'[q].cutoff + Retained = now'
  <2>1. now' = now /\ task[p].pc # "idle"
    BY <1>4 DEF TaskFlush, Aggregate, UpsertAbsolute, BeginDelete, At
  <2>2. \A r \in Servers : task'[r].cutoff = task[r].cutoff /\ (r # p => task'[r] = task[r])
    BY <1>4 DEF TaskFlush, Aggregate, UpsertAbsolute, BeginDelete, GoTo
  <2>. QED
    BY <2>1, <2>2 DEF TasksAreDue
<1>5. ASSUME NEW p \in Servers, EndTask(p) \/ TaskError(p) \/ Crash(p)
      PROVE  task'[q].cutoff + Retained = now'
  <2>1. now' = now /\ task' = [task EXCEPT ![p] = Ended(p)]
    BY <1>5 DEF EndTask, TaskError, Crash
  <2>2. Ended(p).pc = "idle"
    BY DEF Ended, NoTask
  <2>. QED
    BY <2>1, <2>2 DEF TasksAreDue
<1>6. ASSUME NEW p \in Servers, RecordHTTP(p) \/ TickerFlush(p) \/ DeleteFine(p)
      PROVE  UNCHANGED task /\ now' = now
  BY <1>6 DEF RecordHTTP, TickerFlush, DeleteFine, rollup
<1>7. ASSUME NEW f \in Flushers, NEW m \in Minutes, IncrementRow(f, m) \/ IncrementError(f, m)
      PROVE  UNCHANGED task /\ now' = now
  BY <1>7 DEF IncrementRow, IncrementError, rollup
<1>8. LeaseLost => UNCHANGED task /\ now' = now
  BY DEF LeaseLost
<1>. QED
  BY <1>1, <1>2, <1>3, <1>4, <1>5, <1>6, <1>7, <1>8 DEF MetricNext

-----------------------------------------------------------------------------
(* What happens to the rows of the past.                                       *)

\* The first row that a deleting task finds.
LEMMA DeletedRow ==
    ASSUME MetricTypeOK, MetricTypeOK', PurgedIsOld, TasksAreDue, NEW p \in Servers, DeleteFine(p)
    PROVE  \E o \in Minutes :
             /\ o < task[p].cutoff /\ o + Retained < now
             /\ fine[o] > 0 /\ purged[o] = 0 /\ fine'[o] = 0 /\ purged'[o] = fine[o]
             /\ \A m \in Minutes : m # o => fine'[m] = fine[m] /\ purged'[m] = purged[m]
<1>. USE TypesOfMetrics
<1>. DEFINE o == Oldest(Old(p))
<1>1. Old(p) \in SUBSET Minutes /\ Old(p) # {}
  BY DEF DeleteFine, Old
<1>2. o \in Old(p)
  BY <1>1, OldestIsOld
<1>3. purged' = [purged EXCEPT ![o] = fine[o]] /\ fine' = [fine EXCEPT ![o] = 0]
  BY DEF DeleteFine
<1>. HIDE DEF o
<1>4. o \in Minutes /\ o < task[p].cutoff /\ fine[o] > 0
  BY <1>2 DEF Old
<1>5. purged[o] = 0
  <2>1. purged[o] \in Nat
    BY <1>4
  <2>2. ~(purged[o] > 0)
    BY <1>4 DEF PurgedIsOld
  <2>. QED
    BY <2>1, <2>2
<1>6. o + Retained < now
  <2>1. task[p].cutoff + Retained = now
    BY DEF TasksAreDue, DeleteFine, At
  <2>2. o \in Nat /\ Retained \in Nat /\ task[p].cutoff \in Nat
    BY <1>4, MinutesAreNat, RetainedIsLong DEF Tasks
  <2>. QED
    BY <1>4, <2>1, <2>2
<1>. QED
  BY <1>3, <1>4, <1>5, <1>6

\* Nothing else touches the rows of the past.
LEMMA PastIsLeft ==
    ASSUME MetricTypeOK, MemoryIsYoung, MetricNext, \A p \in Servers : ~DeleteFine(p),
           NEW m \in Minutes, m + Retained < now'
    PROVE  fine'[m] = fine[m]
<1>. USE TypesOfMetrics
<1>1. ASSUME NEW f \in Flushers, NEW n \in Minutes, IncrementRow(f, n) \/ IncrementError(f, n)
      PROVE  fine'[m] = fine[m]
  <2>1. \/ fine'[m] = fine[m]
        \/ m = n /\ fine'[m] = fine[m] + flushing[f].rows[m]
    BY <1>1 DEF IncrementRow, IncrementError
  <2>2. ~InMemory(m)
    <3>1. now' = now
      BY <1>1 DEF IncrementRow, IncrementError
    <3>2. m \in Nat /\ now \in Nat /\ DayLength \in Nat /\ Retained \in Nat
          /\ Retained + 1 >= DayLength
      BY MinutesAreNat, RetainedIsLong, MetricRollupAssumption
    <3>3. ~(m + DayLength > now)
      BY <3>1, <3>2
    <3>. QED
      BY <3>3 DEF MemoryIsYoung
  <2>3. flushing[f].rows[m] \in Nat /\ ~(flushing[f].rows[m] > 0)
    BY <2>2 DEF InMemory, Flushes
  <2>. QED
    BY <2>1, <2>3
<1>2. CASE fine' = fine
  BY <1>2
<1>. QED
  BY <1>1, <1>2 DEF MetricNext, Tick, LeaseLost, RecordHTTP, TickerFlush, BeginTask, TaskFlush,
     Aggregate, UpsertAbsolute, BeginDelete, EndTask, TaskError, Crash

LEMMA PurgedIsLeft ==
    ASSUME MetricNext, \A p \in Servers : ~DeleteFine(p)
    PROVE  purged' = purged
BY DEF MetricNext, Tick, LeaseLost, RecordHTTP, TickerFlush, BeginTask, TaskFlush,
     Aggregate, UpsertAbsolute, BeginDelete, EndTask, TaskError, Crash, IncrementRow,
     IncrementError, rollup

LEMMA TimePasses ==
    ASSUME MetricTypeOK, MetricNext
    PROVE  now' = now \/ (now' = now + 1 /\ \A p \in Servers : task[p].pc = "idle")
BY DEF MetricNext, Tick, LeaseLost, RecordHTTP, TickerFlush, BeginTask, TaskFlush,
     Aggregate, UpsertAbsolute, BeginDelete, DeleteFine, EndTask, TaskError, Crash, IncrementRow,
     IncrementError

LEMMA PurgedStaysOld ==
    ASSUME MetricTypeOK, MetricTypeOK', MemoryIsYoung, PurgedIsOld, TasksAreDue, MetricNext
    PROVE  PurgedIsOld'
<1>. SUFFICES ASSUME NEW m \in Minutes, purged'[m] > 0
              PROVE  fine'[m] = 0 /\ m + Retained < now'
  BY DEF PurgedIsOld
<1>0. m \in Nat /\ Retained \in Nat /\ now \in Nat
  BY MinutesAreNat, RetainedIsLong, TypesOfMetrics
<1>1. CASE \E p \in Servers : DeleteFine(p)
  <2>1. PICK p \in Servers : DeleteFine(p)
    BY <1>1
  <2>2. now' = now
    BY <2>1 DEF DeleteFine
  <2>. QED
    BY <2>1, <2>2, DeletedRow DEF PurgedIsOld
<1>2. CASE \A p \in Servers : ~DeleteFine(p)
  <2>1. purged[m] > 0
    BY <1>2, PurgedIsLeft
  <2>2. fine[m] = 0 /\ m + Retained < now
    BY <2>1 DEF PurgedIsOld
  <2>3. m + Retained < now'
    BY <1>0, <2>2, TimePasses
  <2>. QED
    BY <1>2, <2>2, <2>3, PastIsLeft
<1>. QED
  BY <1>1, <1>2

\* So what the rows before a cutoff have or had is kept.
LEMMA SumBelowIsKept ==
    ASSUME MetricTypeOK, MetricTypeOK', MemoryIsYoung, PurgedIsOld, TasksAreDue, MetricNext,
           NEW d \in Dates, NEW c \in Nat, c + Retained <= now'
    PROVE  SumBelow(d, c)' = SumBelow(d, c)
<1>0. Minutes \subseteq Nat /\ Retained \in Nat /\ now' \in Nat
  BY MinutesAreNat, RetainedIsLong, TypesOfMetricsNext
<1>1. ASSUME NEW m \in Minutes, m < c
      PROVE  fine'[m] + purged'[m] = fine[m] + purged[m]
  <2>1. m + Retained < now'
    BY <1>0, <1>1
  <2>2. CASE \E p \in Servers : DeleteFine(p)
    <3>1. PICK p \in Servers : DeleteFine(p)
      BY <2>2
    <3>2. fine[m] \in Nat /\ purged[m] \in Nat
      BY TypesOfMetrics
    <3>. QED
      BY <3>1, <3>2, DeletedRow
  <2>3. CASE \A p \in Servers : ~DeleteFine(p)
    BY <2>1, <2>3, PastIsLeft, PurgedIsLeft
  <2>. QED
    BY <2>2, <2>3
<1>2. \A m \in MinutesOf(d) : Below(c)'[m] = Below(c)[m]
  BY <1>1, DaysAreMinutes DEF Below
<1>3. IsFiniteSet(MinutesOf(d))
  BY DaysAreMinutes
<1>. HIDE DEF Below
<1>4. SumFunctionOnSet(Below(c)', MinutesOf(d)) = SumFunctionOnSet(Below(c), MinutesOf(d))
  BY <1>2, <1>3, SumsAgree
<1>. QED
  BY <1>4 DEF SumBelow

-----------------------------------------------------------------------------
(* The rows of the days.                                                       *)

\* A task that has something to delete in a day has written the day's sum, up to
\* a cutoff that is due.
LEMMA TaskSumIsDue ==
    ASSUME MetricTypeOK, TasksAreDue, NEW p \in Servers, task[p].pc # "idle",
           NEW d \in Dates, SumIsTrue(p, d), task[p].sum[d] > 0
    PROVE  /\ task[p].cutoff \in Nat /\ task[p].cutoff + Retained = now
           /\ task[p].sum[d] = SumBelow(d, task[p].cutoff)
BY TypesOfMetrics DEF TasksAreDue, SumIsTrue, Tasks

LEMMA DayStaysFollowed ==
    ASSUME MetricTypeOK, MetricTypeOK', MemoryIsYoung, PurgedIsOld, PurgedIsOld', TasksAreDue,
           MetricNext, NEW d \in Dates, DayFollows(d),
           \A p \in Servers : task[p].pc \in {"upsert", "delete"} => SumIsTrue(p, d)
    PROVE  DayFollows(d)'
<1>. USE TypesOfMetrics, TypesOfMetricsNext
<1>0. Minutes \subseteq Nat /\ Retained \in Nat /\ now \in Nat /\ now' \in Nat /\ now <= now'
  <2>1. Minutes \subseteq Nat /\ Retained \in Nat /\ now \in Nat /\ now' \in Nat
    BY MinutesAreNat, RetainedIsLong
  <2>2. now' = now \/ now' = now + 1
    BY TimePasses
  <2>. QED
    BY <2>1, <2>2
<1>00. MinutesOf(d) \in SUBSET Minutes
  BY DaysAreMinutes
\* The day has just got the sum of a task, or had it when a minute was deleted.
<1>1. ASSUME NEW p \in Servers, task[p].pc \in {"upsert", "delete"}, task[p].sum[d] > 0,
             now' = now, day'[d] = task[p].sum[d]
      PROVE  DayFollows(d)'
  <2>1. PICK c \in Nat : c + Retained = now /\ day'[d] = SumBelow(d, c)
    BY <1>1, TaskSumIsDue
  <2>2. c + Retained <= now'
    BY <1>0, <1>1, <2>1
  <2>3. SumBelow(d, c)' = SumBelow(d, c)
    BY <2>2, SumBelowIsKept
  <2>4. \A m \in MinutesOf(d) : purged'[m] > 0 => m < c
    <3>1. \A m \in MinutesOf(d) : purged'[m] > 0 => m \in Nat /\ m + Retained < now'
      BY <1>0, <1>00 DEF PurgedIsOld
    <3>. QED
      BY <1>0, <1>1, <2>1, <3>1
  <2>. QED
    BY <2>1, <2>2, <2>3, <2>4 DEF DayFollows
\* Nothing changed for the day.
<1>2. ASSUME day'[d] = day[d], \A m \in MinutesOf(d) : purged'[m] = purged[m]
      PROVE  DayFollows(d)'
  <2>. SUFFICES ASSUME SomePurged(d)
                PROVE  \E c \in Nat : /\ c + Retained <= now'
                                      /\ day'[d] = SumBelow(d, c)'
                                      /\ \A m \in MinutesOf(d) : purged'[m] > 0 => m < c
    BY <1>2 DEF DayFollows, SomePurged
  <2>1. PICK c \in Nat : /\ c + Retained <= now
                         /\ day[d] = SumBelow(d, c)
                         /\ \A m \in MinutesOf(d) : purged[m] > 0 => m < c
    BY DEF DayFollows
  <2>2. c + Retained <= now'
    BY <1>0, <2>1
  <2>3. SumBelow(d, c)' = SumBelow(d, c)
    BY <2>2, SumBelowIsKept
  <2>. QED
    BY <1>2, <2>1, <2>2, <2>3
<1>3. ASSUME NEW p \in Servers, DeleteFine(p)
      PROVE  DayFollows(d)'
  <2>1. PICK o \in Minutes :
             /\ o < task[p].cutoff /\ fine[o] > 0
             /\ \A m \in Minutes : m # o => purged'[m] = purged[m]
    BY <1>3, DeletedRow
  <2>2. CASE o \in MinutesOf(d)
    <3>1. SumIsTrue(p, d) /\ task[p].pc = "delete" /\ now' = now /\ day' = day
      BY <1>3 DEF DeleteFine, At
    <3>2. task[p].sum[d] # 0
      BY <2>1, <2>2, <3>1 DEF SumIsTrue
    <3>3. task[p].sum[d] > 0
      BY <3>2 DEF Tasks
    <3>4. day[d] = task[p].sum[d]
      BY <3>1, <3>3 DEF SumIsTrue
    <3>. QED
      BY <1>1, <3>1, <3>3, <3>4
  <2>3. CASE o \notin MinutesOf(d)
    <3>1. day' = day
      BY <1>3 DEF DeleteFine
    <3>. QED
      BY <1>00, <1>2, <2>1, <2>3, <3>1
  <2>. QED
    BY <2>2, <2>3
<1>4. ASSUME NEW p \in Servers, UpsertAbsolute(p)
      PROVE  DayFollows(d)'
  <2>1. PICK e \in task[p].left : day' = [day EXCEPT ![e] = task[p].sum[e]]
    BY <1>4 DEF UpsertAbsolute
  <2>2. now' = now /\ purged' = purged /\ task[p].pc = "upsert"
    BY <1>4 DEF UpsertAbsolute, At
  <2>3. e \in Dates
    BY DEF Tasks
  <2>4. CASE e = d
    <3>1. task[p].sum[d] # 0
      BY <2>2, <2>4 DEF SumIsTrue
    <3>2. task[p].sum[d] > 0
      BY <3>1 DEF Tasks
    <3>. QED
      BY <1>1, <2>1, <2>2, <2>3, <2>4, <3>2
  <2>5. CASE e # d
    BY <1>2, <2>1, <2>2, <2>5
  <2>. QED
    BY <2>4, <2>5
<1>5. CASE UNCHANGED <<day, purged>>
  BY <1>2, <1>5
<1>. QED
  BY <1>3, <1>4, <1>5 DEF MetricNext, Tick, LeaseLost, RecordHTTP, TickerFlush, BeginTask,
     TaskFlush, Aggregate, BeginDelete, EndTask, TaskError, Crash, IncrementRow, IncrementError,
     rollup

\* The sum a task has for a day stays true while the task and the day's row stay.
LEMMA SumStaysTrue ==
    ASSUME MetricTypeOK, MetricTypeOK', MemoryIsYoung, PurgedIsOld, TasksAreDue, TasksAreDue',
           MetricNext, NEW d \in Dates, NEW q \in Servers,
           task[q].pc # "idle", SumIsTrue(q, d),
           task'[q].pc # "idle", task'[q].sum = task[q].sum, task'[q].cutoff = task[q].cutoff,
           task'[q].left \subseteq task[q].left,
           task[q].sum[d] > 0 /\ (task'[q].pc = "delete" \/ d \notin task'[q].left)
             => day'[d] = task[q].sum[d]
    PROVE  SumIsTrue(q, d)'
<1>. USE TypesOfMetrics, TypesOfMetricsNext
<1>1. PICK c \in Nat : task[q].cutoff = c
  BY DEF Tasks
<1>2. c + Retained = now'
  BY <1>1 DEF TasksAreDue
<1>3. SumBelow(d, c)' = SumBelow(d, c)
  <2>1. c + Retained <= now'
    BY <1>2, RetainedIsLong
  <2>. QED
    BY <2>1, SumBelowIsKept
<1>4. ASSUME NEW m \in MinutesOf(d), m < c, fine[m] = 0
      PROVE  fine'[m] = 0
  <2>1. m \in Minutes /\ m \in Nat /\ Retained \in Nat
    BY DaysAreMinutes, MinutesAreNat, RetainedIsLong
  <2>2. m + Retained < now'
    BY <1>2, <1>4, <2>1
  <2>3. CASE \E p \in Servers : DeleteFine(p)
    BY <1>4, <2>1, <2>3, DeletedRow
  <2>4. CASE \A p \in Servers : ~DeleteFine(p)
    BY <1>4, <2>1, <2>2, <2>4, PastIsLeft
  <2>. QED
    BY <2>3, <2>4
<1>5. task[q].sum[d] > 0 => task[q].sum[d] = SumBelow(d, c)
  BY <1>1 DEF SumIsTrue
<1>6. task[q].sum[d] = 0 =>
         /\ d \notin task[q].left
         /\ \A m \in MinutesOf(d) : m < c => fine[m] = 0
  BY <1>1 DEF SumIsTrue
<1>7. task'[q].sum[d] = task[q].sum[d] /\ task'[q].cutoff = c
  BY <1>1
<1>8. task'[q].sum[d] > 0 =>
         /\ task'[q].sum[d] = SumBelow(d, c)'
         /\ task'[q].pc = "delete" \/ d \notin task'[q].left => day'[d] = task'[q].sum[d]
  BY <1>3, <1>5, <1>7
<1>9. task'[q].sum[d] = 0 =>
         /\ d \notin task'[q].left
         /\ \A m \in MinutesOf(d) : m < c => fine'[m] = 0
  BY <1>4, <1>6, <1>7
<1>10. SumBelow(d, task[q].cutoff)' = SumBelow(d, c)'
  BY <1>7 DEF SumBelow, Below
<1>. QED
  BY <1>7, <1>8, <1>9, <1>10 DEF SumIsTrue

\* What Aggregate sums up is what the rows before the cutoff have or had, if no row
\* of the day has been deleted.
LEMMA AggregateIsTrue ==
    ASSUME MetricTypeOK, MetricTypeOK', NEW p \in Servers, Aggregate(p),
           NEW d \in Dates, d \notin split'
    PROVE  SumIsTrue(p, d)'
<1>. USE TypesOfMetrics, TypesOfMetricsNext
<1>1. PICK c \in Nat : task[p].cutoff = c
  BY DEF Tasks
<1>. DEFINE R == MinutesOf(d) \cap Old(p)
<1>2. /\ task'[p].pc = "upsert" /\ task'[p].cutoff = c
      /\ task'[p].sum[d] = SumFunctionOnSet(fine, R)
      /\ d \in task'[p].left <=> task'[p].sum[d] > 0
  BY <1>1 DEF Aggregate, Sums
<1>3. fine' = fine /\ purged' = purged
  BY DEF Aggregate
<1>4. MinutesOf(d) \in SUBSET Minutes /\ IsFiniteSet(MinutesOf(d)) /\ IsFiniteSet(R)
  BY DaysAreMinutes, FS_Subset
<1>5. \A m \in R : fine[m] \in Nat
  BY <1>4
<1>6. \A m \in MinutesOf(d) : m \in R <=> m < c /\ fine[m] > 0
  BY <1>1, <1>4 DEF Old
<1>7. ASSUME task'[p].sum[d] > 0
      PROVE  task'[p].sum[d] = SumBelow(d, c)'
  <2>1. \A m \in MinutesOf(d) : purged[m] = 0
    <3>1. ~ \E m \in MinutesOf(d) : purged[m] > 0
      BY <1>2, <1>7 DEF Aggregate, Sums
    <3>. QED
      BY <1>4, <3>1
  <2>2. \A m \in MinutesOf(d) : Below(c)'[m] = IF m \in R THEN fine[m] ELSE 0
    BY <1>3, <1>4, <1>6, <2>1 DEF Below
  <2>. HIDE DEF R
  <2>3. R \in SUBSET MinutesOf(d)
    BY DEF R
  <2>4. SumFunctionOnSet(Below(c)', MinutesOf(d)) = SumFunctionOnSet(fine, R)
    <3>1. PICK g : g = Below(c)'
      OBVIOUS
    <3>2. \A m \in MinutesOf(d) : g[m] = IF m \in R THEN fine[m] ELSE 0
      BY <2>2, <3>1
    <3>3. SumFunctionOnSet(g, MinutesOf(d)) = SumFunctionOnSet(fine, R)
      BY <1>4, <1>5, <2>3, <3>2, SumIgnoresZeros, SMTT(60)
    <3>. QED
      BY <3>1, <3>3
  <2>. QED
    BY <1>2, <2>4 DEF SumBelow
<1>8. ASSUME task'[p].sum[d] = 0, NEW m \in MinutesOf(d), m < c
      PROVE  fine'[m] = 0
  <2>1. ASSUME fine[m] > 0 PROVE FALSE
    <3>1. m \in R
      BY <1>6, <1>8, <2>1
    <3>. HIDE DEF R
    <3>2. fine[m] <= SumFunctionOnSet(fine, R)
      BY <1>4, <1>5, <3>1, SumBounds
    <3>. QED
      BY <1>2, <1>5, <1>8, <2>1, <3>1, <3>2
  <2>. QED
    BY <1>3, <1>4, <2>1
<1>. HIDE DEF R
<1>9. SumBelow(d, task[p].cutoff)' = SumBelow(d, c)'
  BY <1>2 DEF SumBelow, Below
<1>. QED
  BY <1>2, <1>7, <1>8, <1>9 DEF SumIsTrue

LEMMA SameSummand ==
    ASSUME NEW a \in Nat, NEW b \in Nat, NEW r \in Nat, NEW s, a + r = s, b + r = s
    PROVE  a = b
OBVIOUS

LEMMA DaysStaySummed ==
    ASSUME MetricTypeOK, MetricTypeOK', MemoryIsYoung, PurgedIsOld, PurgedIsOld', TasksAreDue,
           TasksAreDue', DaysAreSummed, MetricNext
    PROVE  DaysAreSummed'
<1>. USE TypesOfMetrics, TypesOfMetricsNext
<1>0. split \subseteq split'
  BY DEF MetricNext, Tick, LeaseLost, RecordHTTP, TickerFlush, BeginTask, TaskFlush,
     Aggregate, UpsertAbsolute, BeginDelete, DeleteFine, EndTask, TaskError, Crash, IncrementRow,
     IncrementError, rollup
<1>1. ASSUME NEW d \in Dates \ split'
      PROVE  DayFollows(d)'
  BY <1>0, DayStaysFollowed DEF DaysAreSummed
<1>2. ASSUME NEW d \in Dates \ split', NEW q \in Servers, task'[q].pc \in {"upsert", "delete"}
      PROVE  SumIsTrue(q, d)'
  <2>0. /\ d \notin split
        /\ \A p \in Servers : task[p].pc \in {"upsert", "delete"} => SumIsTrue(p, d)
    BY <1>0 DEF DaysAreSummed
  \* Neither the task nor the day's row changed.
  <2>1. CASE task'[q] = task[q] /\ day'[d] = day[d]
    <3>1. SumIsTrue(q, d)
      BY <1>2, <2>0, <2>1
    <3>. QED
      BY <1>2, <2>1, <3>1, SumStaysTrue DEF SumIsTrue
  <2>2. ASSUME NEW p \in Servers, Aggregate(p)
        PROVE  SumIsTrue(q, d)'
    <3>1. CASE q = p
      BY <2>2, <3>1, AggregateIsTrue
    <3>2. CASE q # p
      BY <2>1, <2>2, <3>2 DEF Aggregate
    <3>. QED
      BY <3>1, <3>2
  <2>3. ASSUME NEW p \in Servers, UpsertAbsolute(p)
        PROVE  SumIsTrue(q, d)'
    <3>1. PICK e \in task[p].left : /\ day' = [day EXCEPT ![e] = task[p].sum[e]]
                                    /\ task' = [task EXCEPT ![p].left = @ \ {e}]
      BY <2>3 DEF UpsertAbsolute
    <3>2. /\ task'[q].pc = task[q].pc /\ task'[q].sum = task[q].sum
          /\ task'[q].cutoff = task[q].cutoff
          /\ task'[q].left = IF q = p THEN task[q].left \ {e} ELSE task[q].left
      <4>1. task'[q] = IF q = p THEN [task[q] EXCEPT !.left = @ \ {e}] ELSE task[q]
        BY <3>1
      <4>2. task[q] \in Tasks
        OBVIOUS
      <4>. QED
        BY <4>1, <4>2 DEF Tasks
    <3>3. task[p].pc = "upsert" /\ SumIsTrue(p, d) /\ SumIsTrue(q, d)
      BY <1>2, <2>0, <2>3, <3>2 DEF UpsertAbsolute, At
    <3>4. ASSUME task[q].sum[d] > 0, task'[q].pc = "delete" \/ d \notin task'[q].left
          PROVE  day'[d] = task[q].sum[d]
      <4>1. CASE e = d
        <5>1. task[p].sum[d] # 0
          BY <3>3, <4>1 DEF SumIsTrue
        <5>2. task[p].sum[d] > 0
          BY <5>1 DEF Tasks
        <5>3. /\ task[p].sum[d] = SumBelow(d, task[p].cutoff)
              /\ task[q].sum[d] = SumBelow(d, task[q].cutoff)
          BY <3>3, <3>4, <5>2 DEF SumIsTrue
        <5>4. task[p].cutoff = task[q].cutoff
          <6>1. task[p].cutoff + Retained = now /\ task[q].cutoff + Retained = now
            BY <1>2, <3>2, <3>3 DEF TasksAreDue
          <6>2. task[p].cutoff \in Nat /\ task[q].cutoff \in Nat /\ Retained \in Nat
            BY RetainedIsLong DEF Tasks
          <6>. QED
            BY <6>1, <6>2, SameSummand
        <5>5. day'[d] = task[p].sum[d]
          BY <3>1, <4>1
        <5>. QED
          BY <5>3, <5>4, <5>5
      <4>2. CASE e # d
        <5>1. day'[d] = day[d] /\ (task[q].pc = "delete" \/ d \notin task[q].left)
          BY <3>1, <3>2, <3>4, <4>2
        <5>. QED
          BY <3>3, <3>4, <5>1 DEF SumIsTrue
      <4>. QED
        BY <4>1, <4>2
    <3>. QED
      BY <1>2, <3>2, <3>3, <3>4, SumStaysTrue
  <2>4. ASSUME NEW p \in Servers, BeginDelete(p)
        PROVE  SumIsTrue(q, d)'
    <3>0. day' = day /\ task[p].left = {} /\ task[p].pc = "upsert"
      BY <2>4 DEF BeginDelete, At
    <3>1. CASE q = p
      <4>1. /\ task'[q].pc = "delete" /\ task'[q].sum = task[q].sum
            /\ task'[q].cutoff = task[q].cutoff /\ task'[q].left = task[q].left
        BY <2>4, <3>1 DEF BeginDelete, GoTo, Tasks
      <4>2. SumIsTrue(q, d)
        BY <2>0, <3>0, <3>1
      <4>3. task[q].sum[d] > 0 => day'[d] = task[q].sum[d]
        BY <3>0, <3>1, <4>2 DEF SumIsTrue
      <4>. QED
        BY <3>0, <3>1, <4>1, <4>2, <4>3, SumStaysTrue
    <3>2. CASE q # p
      BY <2>1, <2>4, <3>0, <3>2 DEF BeginDelete, GoTo
    <3>. QED
      BY <3>1, <3>2
  <2>5. ASSUME NEW p \in Servers, EndTask(p) \/ TaskError(p) \/ Crash(p)
        PROVE  SumIsTrue(q, d)'
    <3>1. task' = [task EXCEPT ![p] = Ended(p)] /\ day' = day /\ Ended(p).pc = "idle"
      BY <2>5 DEF EndTask, TaskError, Crash, Ended, NoTask
    <3>2. q # p
      BY <1>2, <3>1
    <3>. QED
      BY <2>1, <3>1, <3>2
  <2>6. ASSUME NEW p \in Servers, BeginTask(p) \/ TaskFlush(p)
        PROVE  SumIsTrue(q, d)'
    <3>1. /\ day' = day /\ task'[p].pc \in {"flush", "aggregate"}
          /\ \A r \in Servers : r # p => task'[r] = task[r]
      <4>1. CASE BeginTask(p)
        BY <4>1 DEF BeginTask
      <4>2. CASE TaskFlush(p)
        <5>1. [task[p] EXCEPT !.pc = "aggregate"].pc = "aggregate"
          BY DEF Tasks
        <5>. QED
          BY <4>2, <5>1 DEF TaskFlush, GoTo
      <4>. QED
        BY <2>6, <4>1, <4>2
    <3>. QED
      BY <1>2, <2>1, <3>1
  <2>7. CASE UNCHANGED <<task, day>>
    BY <2>1, <2>7
  <2>. QED
    BY <2>2, <2>3, <2>4, <2>5, <2>6, <2>7 DEF MetricNext, Tick, LeaseLost, RecordHTTP,
       TickerFlush, DeleteFine, IncrementRow, IncrementError, rollup
<1>. QED
  BY <1>1, <1>2 DEF DaysAreSummed

-----------------------------------------------------------------------------
(* The requests of a minute.                                                   *)

Bucketed(m) == SumFunctionOnSet(InBucket(m), Servers)
Swapped(m) == SumFunctionOnSet(InFlush(m), Flushers)

\* What a flush has still to write of minute m.
StillHeld(flush, m) == IF m \in flush.left THEN flush.rows[m] ELSE 0

LEMMA StillHeldIsTyped ==
    ASSUME NEW m \in Minutes
    PROVE  /\ \A flush \in Flushes : StillHeld(flush, m) \in Nat
           /\ StillHeld(Idle, m) = 0 /\ Zero[m] = 0
BY DEF StillHeld, Flushes, Idle, Zero

LEMMA MemoryIsCounted ==
    ASSUME MetricTypeOK, NEW m \in Minutes
    PROVE  /\ Bucketed(m) \in Nat /\ Swapped(m) \in Nat
           /\ Waiting(m) = Bucketed(m) + Swapped(m)
<1>. USE TypesOfMetrics
<1>1. IsFiniteSet(Servers) /\ IsFiniteSet(Flushers)
  BY MetricRollupAssumption, FlushersAreFinite
<1>2. \A q \in Servers : InBucket(m)[q] \in Nat
  BY DEF InBucket
<1>3. \A f \in Flushers : InFlush(m)[f] \in Nat
  BY DEF InFlush, Flushes
<1>4. Bucketed(m) \in Nat
  BY <1>1, <1>2, SumIsNat DEF Bucketed
<1>5. Swapped(m) \in Nat
  BY <1>1, <1>3, SumIsNat DEF Swapped
<1>. QED
  BY <1>4, <1>5 DEF Waiting, Bucketed, Swapped

LEMMA MemoryIsCountedNext ==
    ASSUME MetricTypeOK', NEW m \in Minutes
    PROVE  /\ Bucketed(m)' \in Nat /\ Swapped(m)' \in Nat
           /\ Waiting(m)' = Bucketed(m)' + Swapped(m)'
<1>. USE TypesOfMetricsNext
<1>1. IsFiniteSet(Servers) /\ IsFiniteSet(Flushers)
  BY MetricRollupAssumption, FlushersAreFinite
<1>2. \A q \in Servers : InBucket(m)'[q] \in Nat
  BY DEF InBucket
<1>3. \A f \in Flushers : InFlush(m)'[f] \in Nat
  BY DEF InFlush, Flushes
<1>4. Bucketed(m)' \in Nat
  BY <1>1, <1>2, SumIsNat DEF Bucketed
<1>5. Swapped(m)' \in Nat
  BY <1>1, <1>3, SumIsNat DEF Swapped
<1>. QED
  BY <1>4, <1>5 DEF Waiting, Bucketed, Swapped

\* One process counts or is emptied.
LEMMA BucketChanges ==
    ASSUME MetricTypeOK, MetricTypeOK', NEW p \in Servers, NEW m \in Minutes,
           \A q \in Servers : q # p => buckets'[q] = buckets[q]
    PROVE  Bucketed(m)' + buckets[p][m] = Bucketed(m) + buckets'[p][m]
<1>. USE TypesOfMetrics, TypesOfMetricsNext
<1>1. PICK f : f = InBucket(m)
  OBVIOUS
<1>2. PICK g : g = InBucket(m)'
  OBVIOUS
<1>3. \A q \in Servers : f[q] = buckets[q][m] /\ g[q] = buckets'[q][m]
  BY <1>1, <1>2 DEF InBucket
<1>4. \A q \in Servers : f[q] \in Nat /\ g[q] \in Nat /\ (q # p => g[q] = f[q])
  BY <1>3
<1>5. IsFiniteSet(Servers)
  BY MetricRollupAssumption
<1>6. SumFunctionOnSet(g, Servers) + f[p] = SumFunctionOnSet(f, Servers) + g[p]
  BY <1>4, <1>5, SumChanges, SMTT(60)
<1>. QED
  BY <1>1, <1>2, <1>3, <1>6 DEF Bucketed

\* One flusher swaps, writes or ends.
LEMMA FlushChanges ==
    ASSUME MetricTypeOK, MetricTypeOK', NEW f \in Flushers, NEW m \in Minutes,
           \A h \in Flushers : h # f => flushing'[h] = flushing[h]
    PROVE  Swapped(m)' + StillHeld(flushing[f], m) = Swapped(m) + StillHeld(flushing'[f], m)
<1>. USE TypesOfMetrics, TypesOfMetricsNext
<1>1. PICK x : x = InFlush(m)
  OBVIOUS
<1>2. PICK y : y = InFlush(m)'
  OBVIOUS
<1>3. \A h \in Flushers : x[h] = StillHeld(flushing[h], m) /\ y[h] = StillHeld(flushing'[h], m)
  BY <1>1, <1>2 DEF InFlush, StillHeld
<1>4. \A h \in Flushers : x[h] \in Nat /\ y[h] \in Nat /\ (h # f => y[h] = x[h])
  BY <1>3, StillHeldIsTyped
<1>5. IsFiniteSet(Flushers)
  BY FlushersAreFinite
<1>6. SumFunctionOnSet(y, Flushers) + x[f] = SumFunctionOnSet(x, Flushers) + y[f]
  BY <1>4, <1>5, SumChanges, SMTT(60)
<1>. QED
  BY <1>1, <1>2, <1>3, <1>6 DEF Swapped

\* A swap moves the counts; what the flusher had is nothing.
LEMMA SumShifts ==
    ASSUME NEW a \in Nat, NEW b \in Nat, NEW x \in Nat, NEW y, NEW k \in Nat,
           a + x = b + y, y = x + k
    PROVE  a = b + k
OBVIOUS

LEMMA SwapKeepsCounts ==
    ASSUME MetricTypeOK, MetricTypeOK', NEW f \in Flushers, SwapBuckets(f), NEW m \in Minutes
    PROVE  Waiting(m)' = Waiting(m)
<1>. USE TypesOfMetrics, TypesOfMetricsNext
<1>. DEFINE p == f[1]
<1>0. p \in Servers /\ flushing[f] \in Flushes /\ buckets[p][m] \in Nat
  BY FlushersAreServers
<1>1. Bucketed(m)' + buckets[p][m] = Bucketed(m) + buckets'[p][m]
  <2>1. \A q \in Servers : q # p => buckets'[q] = buckets[q]
    BY <1>0 DEF SwapBuckets
  <2>. QED
    BY <1>0, <2>1, BucketChanges
<1>2. Swapped(m)' + StillHeld(flushing[f], m) = Swapped(m) + StillHeld(flushing'[f], m)
  <2>1. \A h \in Flushers : h # f => flushing'[h] = flushing[h]
    BY DEF SwapBuckets
  <2>. QED
    BY <2>1, FlushChanges
<1>3. StillHeld(flushing[f], m) = 0
  BY DEF SwapBuckets, Busy, StillHeld
<1>4. StillHeld(flushing'[f], m) = buckets[p][m]
  <2>1. flushing'[f] = [rows |-> buckets[p], left |-> Counted(p)]
    BY DEF SwapBuckets
  <2>. QED
    BY <1>0, <2>1 DEF StillHeld, Counted
<1>5. buckets'[p][m] = 0
  BY <1>0, StillHeldIsTyped DEF SwapBuckets
<1>. HIDE DEF p
<1>. QED
  BY <1>0, <1>1, <1>2, <1>3, <1>4, <1>5, MemoryIsCounted, MemoryIsCountedNext

\* Each step changes the requests of a minute known to memory and table by those it
\* serves, unless it is a fault.
LEMMA TotalFollows ==
    ASSUME MetricTypeOK, MetricTypeOK', PurgedIsOld, TasksAreDue, MetricNext, NEW m \in Minutes
    PROVE  /\ served'[m] \in Nat /\ served[m] \in Nat
           /\ Total(m) \in Nat /\ Total(m)' \in Nat
           /\ \/ Total(m)' + served[m] = Total(m) + served'[m]
              \/ metricFaults'["db"] > 0 /\ Total(m)' >= Total(m) /\ served' = served
              \/ metricFaults'["crash"] > 0 /\ Total(m)' <= Total(m) /\ served' = served
<1>. USE TypesOfMetrics, TypesOfMetricsNext
<1>0. /\ served'[m] \in Nat /\ served[m] \in Nat /\ fine[m] \in Nat /\ fine'[m] \in Nat
      /\ purged[m] \in Nat /\ purged'[m] \in Nat
  OBVIOUS
<1>a. /\ Bucketed(m) \in Nat /\ Swapped(m) \in Nat
      /\ Bucketed(m)' \in Nat /\ Swapped(m)' \in Nat
      /\ Total(m) = Bucketed(m) + Swapped(m) + fine[m] + purged[m]
      /\ Total(m)' = Bucketed(m)' + Swapped(m)' + fine'[m] + purged'[m]
  BY MemoryIsCounted, MemoryIsCountedNext DEF Total
<1>b. Total(m) \in Nat /\ Total(m)' \in Nat
  BY <1>0, <1>a
<1>c. ASSUME UNCHANGED buckets PROVE Bucketed(m)' = Bucketed(m)
  BY <1>c DEF Bucketed, InBucket
<1>d. ASSUME UNCHANGED flushing PROVE Swapped(m)' = Swapped(m)
  BY <1>d DEF Swapped, InFlush
<1>. DEFINE Kept == Total(m)' + served[m] = Total(m) + served'[m]
            Raised == metricFaults'["db"] > 0 /\ Total(m)' >= Total(m) /\ served' = served
            Lowered == metricFaults'["crash"] > 0 /\ Total(m)' <= Total(m) /\ served' = served
<1>. SUFFICES Kept \/ Raised \/ Lowered
  BY <1>0, <1>b
<1>e. ASSUME NEW k \in MetricFaultKinds, Fault(k) PROVE metricFaults'[k] > 0
  BY <1>e DEF Fault
<1>1. ASSUME UNCHANGED <<buckets, flushing, fine, purged, served>>
      PROVE  Kept
  BY <1>0, <1>1, <1>a, <1>c, <1>d
<1>2. ASSUME NEW p \in Servers, RecordHTTP(p)
      PROVE  Kept
  <2>1. \A q \in Servers : q # p => buckets'[q] = buckets[q]
    BY <1>2 DEF RecordHTTP
  <2>2. Bucketed(m)' + buckets[p][m] = Bucketed(m) + buckets'[p][m]
    BY <2>1, BucketChanges
  <2>3. buckets[p][m] \in Nat /\ now \in Minutes
    OBVIOUS
  <2>4. buckets'[p][m] = IF m = now THEN buckets[p][m] + 1 ELSE buckets[p][m]
    <3>. DEFINE b == [buckets[p] EXCEPT ![now] = buckets[p][now] + 1]
    <3>1. buckets' = [buckets EXCEPT ![p] = b]
      BY <1>2 DEF RecordHTTP
    <3>2. b[m] = IF m = now THEN buckets[p][m] + 1 ELSE buckets[p][m]
      OBVIOUS
    <3>. HIDE DEF b
    <3>. QED
      BY <3>1, <3>2
  <2>5. served'[m] = IF m = now THEN served[m] + 1 ELSE served[m]
    BY <1>2 DEF RecordHTTP
  <2>6. UNCHANGED <<flushing, fine, purged>>
    BY <1>2 DEF RecordHTTP, rollup
  <2>7. Swapped(m)' = Swapped(m) /\ fine'[m] = fine[m] /\ purged'[m] = purged[m]
    BY <1>d, <2>6
  <2>8. CASE m = now
    <3>1. Bucketed(m)' = Bucketed(m) + 1
      BY <1>a, <2>2, <2>3, <2>4, <2>8, SumShifts
    <3>. QED
      BY <1>0, <1>a, <2>5, <2>7, <2>8, <3>1
  <2>9. CASE m # now
    <3>1. Bucketed(m)' = Bucketed(m)
      <4>1. PICK x \in Nat : x = buckets[p][m]
        BY <2>3
      <4>2. Bucketed(m)' + x = Bucketed(m) + x
        BY <2>2, <2>4, <2>9, <4>1
      <4>. QED
        BY <1>a, <4>2, SameSummand, Zenon
    <3>. QED
      BY <1>0, <1>a, <2>5, <2>7, <2>9, <3>1
  <2>. QED
    BY <2>8, <2>9
<1>3. ASSUME NEW f \in Flushers, SwapBuckets(f), UNCHANGED <<fine, purged, served>>
      PROVE  Kept
  <2>1. Waiting(m)' = Waiting(m)
    BY <1>3, SwapKeepsCounts
  <2>. QED
    BY <1>0, <1>3, <1>a, <2>1, MemoryIsCounted, MemoryIsCountedNext
<1>4. ASSUME NEW p \in Servers, TickerFlush(p)
      PROVE  Kept
  BY <1>3, <1>4, FlushersAreServers DEF TickerFlush, rollup
<1>5. ASSUME NEW p \in Servers, TaskFlush(p)
      PROVE  Kept
  <2>1. CASE Counted(p) = {}
    BY <1>1, <1>5, <2>1 DEF TaskFlush
  <2>2. CASE Counted(p) # {}
    BY <1>3, <1>5, <2>2, FlushersAreServers DEF TaskFlush
  <2>. QED
    BY <2>1, <2>2
<1>6. ASSUME NEW p \in Servers, DeleteFine(p)
      PROVE  Kept
  <2>1. fine'[m] + purged'[m] = fine[m] + purged[m]
    <3>1. PICK o \in Minutes :
             /\ purged[o] = 0 /\ fine'[o] = 0 /\ purged'[o] = fine[o]
             /\ \A x \in Minutes : x # o => fine'[x] = fine[x] /\ purged'[x] = purged[x]
      BY <1>6, DeletedRow
    <3>2. CASE m = o
      BY <1>0, <3>1, <3>2
    <3>3. CASE m # o
      BY <3>1, <3>3
    <3>. QED
      BY <3>2, <3>3
  <2>2. UNCHANGED <<buckets, flushing, served>>
    BY <1>6 DEF DeleteFine
  <2>. QED
    BY <1>0, <1>a, <1>c, <1>d, <2>1, <2>2
<1>7. ASSUME NEW f \in Flushers, NEW n \in Minutes, IncrementRow(f, n)
      PROVE  Kept
  <2>. DEFINE w == Without(n, flushing[f])
  <2>0. flushing[f] \in Flushes /\ w \in Flushes
    <3>1. flushing[f] \in Flushes
      OBVIOUS
    <3>2. Idle \in Flushes
      BY ZeroIsTyped DEF Flushes
    <3>. QED
      BY <3>1, <3>2 DEF Flushes, Without
  <2>1. flushing' = [flushing EXCEPT ![f] = w] /\ n \in flushing[f].left
    BY <1>7 DEF IncrementRow
  <2>2. UNCHANGED <<buckets, purged, served>>
    BY <1>7 DEF IncrementRow, rollup
  <2>3. fine'[m] = IF m = n THEN fine[m] + flushing[f].rows[m] ELSE fine[m]
    BY <1>7 DEF IncrementRow
  <2>4. StillHeld(w, m) = IF m = n THEN 0 ELSE StillHeld(flushing[f], m)
    BY <2>0, <2>1 DEF StillHeld, Without, Idle, Flushes
  <2>5. m = n => StillHeld(flushing[f], m) = flushing[f].rows[m]
    BY <2>1 DEF StillHeld
  <2>. HIDE DEF w
  <2>6. flushing'[f] = w /\ \A h \in Flushers : h # f => flushing'[h] = flushing[h]
    BY <2>1
  <2>7. Swapped(m)' + StillHeld(flushing[f], m) = Swapped(m) + StillHeld(w, m)
    BY <2>6, FlushChanges
  <2>8. StillHeld(flushing[f], m) \in Nat
    BY <2>0, StillHeldIsTyped
  <2>. QED
    <3>0. Bucketed(m)' = Bucketed(m) /\ purged'[m] = purged[m] /\ served'[m] = served[m]
      BY <1>c, <2>2
    <3>1. CASE m = n
      <4>1. fine'[m] = fine[m] + StillHeld(flushing[f], m) /\ StillHeld(w, m) = 0
        BY <2>3, <2>4, <2>5, <3>1
      <4>2. Swapped(m)' + StillHeld(flushing[f], m) = Swapped(m)
        BY <1>a, <2>7, <4>1
      <4>. QED
        BY <1>0, <1>a, <2>8, <3>0, <4>1, <4>2
    <3>2. CASE m # n
      <4>1. fine'[m] = fine[m] /\ StillHeld(w, m) = StillHeld(flushing[f], m)
        BY <2>3, <2>4, <3>2
      <4>2. Swapped(m)' = Swapped(m)
        <5>1. PICK x \in Nat : x = StillHeld(flushing[f], m)
          BY <2>8
        <5>2. Swapped(m)' + x = Swapped(m) + x
          BY <2>7, <4>1, <5>1
        <5>. QED
          BY <1>a, <5>2, SameSummand, Zenon
      <4>. QED
        BY <1>0, <1>a, <3>0, <4>1, <4>2
    <3>. QED
      BY <3>1, <3>2
<1>8. ASSUME NEW f \in Flushers, NEW n \in Minutes, IncrementError(f, n)
      PROVE  Raised
  <2>0. flushing[f] \in Flushes /\ f[1] \in Servers
    BY FlushersAreServers
  <2>1. flushing' = [flushing EXCEPT ![f] = Idle]
    BY <1>8 DEF IncrementError
  <2>2. UNCHANGED <<purged, served>> /\ metricFaults'["db"] > 0
    BY <1>8, <1>e DEF IncrementError, rollup, MetricFaultKinds
  <2>3. flushing[f].rows[m] \in Nat /\ flushing[f].rows[n] \in Nat
    BY <2>0 DEF Flushes
  <2>4. fine'[m] >= fine[m]
    BY <1>0, <1>8, <2>3 DEF IncrementError
  <2>5. Bucketed(m)' + buckets[f[1]][m] = Bucketed(m) + buckets'[f[1]][m]
    <3>1. \A q \in Servers : q # f[1] => buckets'[q] = buckets[q]
      BY <1>8 DEF IncrementError
    <3>. QED
      BY <2>0, <3>1, BucketChanges
  <2>6. buckets'[f[1]][m] = buckets[f[1]][m] + flushing[f].rows[m]
    BY <1>8, <2>0 DEF IncrementError, Plus
  <2>7. Swapped(m)' + StillHeld(flushing[f], m) = Swapped(m) + StillHeld(Idle, m)
    <3>1. flushing'[f] = Idle /\ \A h \in Flushers : h # f => flushing'[h] = flushing[h]
      BY <2>1
    <3>. QED
      BY <3>1, FlushChanges
  <2>8. StillHeld(flushing[f], m) \in Nat /\ StillHeld(flushing[f], m) <= flushing[f].rows[m]
        /\ StillHeld(Idle, m) = 0
    BY <2>0, <2>3, StillHeldIsTyped DEF StillHeld
  <2>9. buckets[f[1]][m] \in Nat
    BY <2>0
  <2>10. Bucketed(m)' = Bucketed(m) + flushing[f].rows[m]
    <3>1. PICK x \in Nat : x = buckets[f[1]][m]
      BY <2>9
    <3>2. PICK k \in Nat : k = flushing[f].rows[m]
      BY <2>3
    <3>3. PICK a \in Nat : a = Bucketed(m)'
      BY <1>a
    <3>4. PICK b \in Nat : b = Bucketed(m)
      BY <1>a
    <3>5. a + x = b + (x + k)
      BY <2>5, <2>6, <3>1, <3>2, <3>3, <3>4
    <3>6. a = b + k
      BY <3>5
    <3>. QED
      BY <3>2, <3>3, <3>4, <3>6
  <2>11. Swapped(m)' = Swapped(m) - StillHeld(flushing[f], m)
    BY <1>a, <2>7, <2>8
  <2>. QED
    BY <1>0, <1>a, <2>2, <2>3, <2>4, <2>8, <2>10, <2>11
<1>9. ASSUME NEW p \in Servers, Crash(p)
      PROVE  Lowered
  <2>1. UNCHANGED <<fine, purged, served>> /\ metricFaults'["crash"] > 0
    BY <1>9, <1>e DEF Crash, MetricFaultKinds
  <2>2. Bucketed(m)' <= Bucketed(m)
    <3>1. \A q \in Servers : q # p => buckets'[q] = buckets[q]
      BY <1>9 DEF Crash
    <3>2. Bucketed(m)' + buckets[p][m] = Bucketed(m) + buckets'[p][m]
      BY <3>1, BucketChanges
    <3>3. buckets[p][m] \in Nat /\ buckets'[p][m] = 0
      BY <1>9, StillHeldIsTyped DEF Crash
    <3>. QED
      BY <1>a, <3>2, <3>3
  <2>3. Swapped(m)' <= Swapped(m)
    <3>1. PICK x : x = InFlush(m)'
      OBVIOUS
    <3>2. PICK y : y = InFlush(m)
      OBVIOUS
    <3>3. \A h \in Flushers : y[h] = StillHeld(flushing[h], m) /\ x[h] = StillHeld(flushing'[h], m)
      BY <3>1, <3>2 DEF InFlush, StillHeld
    <3>4. \A h \in Flushers : flushing'[h] = flushing[h] \/ flushing'[h] = Idle
      BY <1>9 DEF Crash
    <3>5. \A h \in Flushers : x[h] \in Nat /\ y[h] \in Nat /\ x[h] <= y[h]
      <4>1. \A h \in Flushers : /\ StillHeld(flushing[h], m) \in Nat /\ StillHeld(flushing'[h], m) \in Nat
                                 /\ StillHeld(Idle, m) = 0
        BY StillHeldIsTyped
      <4>. QED
        BY <3>3, <3>4, <4>1
    <3>6. SumFunctionOnSet(x, Flushers) <= SumFunctionOnSet(y, Flushers)
      BY <3>5, FlushersAreFinite, SumsGrow, SMTT(60)
    <3>. QED
      BY <3>1, <3>2, <3>6 DEF Swapped
  <2>. QED
    BY <1>0, <1>a, <2>1, <2>2, <2>3
<1>. HIDE DEF Kept, Raised, Lowered
<1>. QED
  BY <1>1, <1>2, <1>4, <1>5, <1>6, <1>7, <1>8, <1>9 DEF MetricNext, Tick, LeaseLost, BeginTask,
     Aggregate, UpsertAbsolute, BeginDelete, EndTask, TaskError, rollup

LEMMA CountsStayOnce ==
    ASSUME MetricTypeOK, MetricTypeOK', PurgedIsOld, TasksAreDue, CountedOnce, MetricNext
    PROVE  CountedOnce'
<1>. USE TypesOfMetrics, TypesOfMetricsNext
<1>. SUFFICES ASSUME NEW m \in Minutes
              PROVE  /\ metricFaults'["crash"] = 0 => Total(m)' >= served'[m]
                     /\ metricFaults'["db"] = 0 => Total(m)' <= served'[m]
  BY DEF CountedOnce
<1>1. /\ metricFaults["crash"] = 0 => Total(m) >= served[m]
      /\ metricFaults["db"] = 0 => Total(m) <= served[m]
  BY DEF CountedOnce
<1>2. \A k \in {"crash", "db"} : metricFaults'[k] = 0 => metricFaults[k] = 0
  <2>1. \A k \in MetricFaultKinds : Fault(k) =>
          \A l \in MetricFaultKinds : metricFaults'[l] >= metricFaults[l]
    BY DEF Fault
  <2>2. NoFault => \A l \in MetricFaultKinds : metricFaults'[l] >= metricFaults[l]
    BY DEF NoFault
  <2>3. NoFault \/ \E k \in MetricFaultKinds : Fault(k)
    BY DEF MetricNext, Tick, LeaseLost, RecordHTTP, TickerFlush, BeginTask, TaskFlush,
       Aggregate, UpsertAbsolute, BeginDelete, DeleteFine, EndTask, TaskError, Crash,
       IncrementRow, IncrementError, MetricFaultKinds
  <2>4. \A l \in MetricFaultKinds : metricFaults'[l] >= metricFaults[l]
    BY <2>1, <2>2, <2>3
  <2>5. \A l \in MetricFaultKinds : metricFaults'[l] \in Nat /\ metricFaults[l] \in Nat
    OBVIOUS
  <2>6. "crash" \in MetricFaultKinds /\ "db" \in MetricFaultKinds
    BY DEF MetricFaultKinds
  <2>. QED
    BY <2>4, <2>5, <2>6
<1>3. /\ served'[m] \in Nat /\ served[m] \in Nat
      /\ Total(m) \in Nat /\ Total(m)' \in Nat
      /\ \/ Total(m)' + served[m] = Total(m) + served'[m]
         \/ metricFaults'["db"] > 0 /\ Total(m)' >= Total(m) /\ served' = served
         \/ metricFaults'["crash"] > 0 /\ Total(m)' <= Total(m) /\ served' = served
  BY TotalFollows
<1>4. CASE Total(m)' + served[m] = Total(m) + served'[m]
  BY <1>1, <1>2, <1>3, <1>4
<1>5. CASE metricFaults'["db"] > 0 /\ Total(m)' >= Total(m) /\ served' = served
  BY <1>1, <1>2, <1>3, <1>5
<1>6. CASE metricFaults'["crash"] > 0 /\ Total(m)' <= Total(m) /\ served' = served
  BY <1>1, <1>2, <1>3, <1>6
<1>. QED
  BY <1>3, <1>4, <1>5, <1>6

-----------------------------------------------------------------------------
(* The theorems.                                                               *)

LEMMA MetricInitIsGood == MetricInit => MetricIInv
<1>. SUFFICES ASSUME MetricInit PROVE MetricIInv
  OBVIOUS
<1>. USE TypesOfMetrics
<1>1. MetricTypeOK
  BY MetricInitIsTyped
<1>2. Zero[0] = 0 /\ \A m \in Minutes : Zero[m] = 0 /\ purged[m] = 0 /\ fine[m] = 0 /\ served[m] = 0
  <2>1. \A m \in Minutes : Zero[m] = 0
    BY DEF Zero
  <2>. QED
    BY <1>1, <2>1 DEF MetricInit
<1>3. MemoryIsYoung
  BY <1>2 DEF MetricInit, MemoryIsYoung, InMemory, Idle
<1>4. PurgedIsOld
  BY <1>2 DEF PurgedIsOld
<1>5. \A p \in Servers : task[p].pc = "idle"
  BY DEF MetricInit, NoTask
<1>6. TasksAreDue
  BY <1>5 DEF TasksAreDue
<1>7. CountedOnce
  <2>. SUFFICES ASSUME NEW m \in Minutes PROVE Total(m) = 0
    BY <1>2 DEF CountedOnce
  <2>1. \A f \in Flushers : InFlush(m)[f] = 0
    BY DEF MetricInit, InFlush, Idle
  <2>2. \A p \in Servers : InBucket(m)[p] = 0
    BY <1>2 DEF MetricInit, InBucket
  <2>3. Swapped(m) = 0
    BY <2>1, FlushersAreFinite, SumOfZeros DEF Swapped
  <2>4. Bucketed(m) = 0
    BY <2>2, MetricRollupAssumption, SumOfZeros DEF Bucketed
  <2>. QED
    BY <1>1, <1>2, <2>3, <2>4, MemoryIsCounted DEF Total
<1>8. DaysAreSummed
  <2>1. \A d \in Dates : ~SomePurged(d)
    BY <1>2, DaysAreMinutes DEF SomePurged
  <2>. QED
    BY <1>5, <2>1 DEF DaysAreSummed, DayFollows
<1>. QED
  BY <1>1, <1>3, <1>4, <1>6, <1>7, <1>8 DEF MetricIInv

LEMMA MetricStepIsGood ==
    ASSUME MetricIInv, [MetricNext]_metricVars
    PROVE  MetricIInv'
<1>1. CASE UNCHANGED metricVars
  <2>1. MetricTypeOK'
    BY MetricStepIsTyped DEF MetricIInv
  <2>2. MemoryIsYoung' /\ PurgedIsOld' /\ TasksAreDue'
    BY <1>1 DEF MetricIInv, metricVars, rollup, MemoryIsYoung, PurgedIsOld, TasksAreDue, InMemory
  <2>3. CountedOnce'
    BY <1>1 DEF MetricIInv, metricVars, rollup, CountedOnce, Total, Waiting, InBucket, InFlush
  <2>4. DaysAreSummed'
    BY <1>1 DEF MetricIInv, metricVars, rollup, DaysAreSummed, DayFollows, SomePurged, SumIsTrue,
       SumBelow, Below
  <2>. QED
    BY <2>1, <2>2, <2>3, <2>4 DEF MetricIInv
<1>2. CASE MetricNext
  <2>. USE <1>2 DEF MetricIInv
  <2>1. MetricTypeOK'
    BY MetricStepIsTyped
  <2>2. MemoryIsYoung'
    BY <2>1, MemoryStaysYoung
  <2>3. TasksAreDue'
    BY TasksStayDue
  <2>4. PurgedIsOld'
    BY <2>1, PurgedStaysOld
  <2>5. CountedOnce'
    BY <2>1, CountsStayOnce
  <2>6. DaysAreSummed'
    BY <2>1, <2>3, <2>4, DaysStaySummed
  <2>. QED
    BY <2>1, <2>2, <2>3, <2>4, <2>5, <2>6
<1>. QED
  BY <1>1, <1>2

LEMMA MetricsHold == MetricSpec => []MetricIInv
<1>1. MetricIInv /\ [MetricNext]_metricVars => MetricIInv'
  BY MetricStepIsGood
<1>. QED
  BY <1>1, MetricInitIsGood, PTL DEF MetricSpec

\* Type correctness of MetricRollup, and with it that the counts never go below zero.
THEOREM MetricsAreTyped == MetricSpec => []MetricTypeOK
<1>1. MetricIInv => MetricTypeOK
  BY DEF MetricIInv
<1>. QED
  BY <1>1, MetricsHold, PTL

\* backend.go, RecordHTTP, flush and mergeBack: no request is lost unless a process
\* dies, none is counted twice unless a statement failed.
THEOREM RequestsAreCountedOnce == MetricSpec => []CountedOnce
<1>1. MetricIInv => CountedOnce
  BY DEF MetricIInv
<1>. QED
  BY <1>1, MetricsHold, PTL

\* backend.go, RollupAndCleanup: a day whose minutes are gone has their sum, for any
\* number of processes, days and failures, unless it was summed up when some of its
\* minutes had been deleted.
THEOREM DaysStayWhole == MetricSpec => []DayIsWhole
<1>1. MetricIInv => DayIsWhole
  <2>. SUFFICES ASSUME MetricIInv, NEW d \in Dates \ split, Purged(d)
                PROVE  day[d] = SumFunctionOnSet(purged, MinutesOf(d))
    BY DEF DayIsWhole
  <2>1. DayFollows(d) /\ SomePurged(d)
    BY DEF MetricIInv, DaysAreSummed, Purged, SomePurged
  <2>2. PICK c \in Nat : /\ day[d] = SumBelow(d, c)
                         /\ \A m \in MinutesOf(d) : purged[m] > 0 => m < c
    BY <2>1 DEF DayFollows
  <2>3. MinutesOf(d) \in SUBSET Minutes /\ IsFiniteSet(MinutesOf(d))
    BY DaysAreMinutes
  <2>4. \A m \in MinutesOf(d) : purged[m] \in Nat /\ fine[m] = 0
    BY <2>3, TypesOfMetrics DEF MetricIInv, Purged
  <2>5. \A m \in MinutesOf(d) : Below(c)[m] = purged[m]
    BY <2>2, <2>3, <2>4 DEF Below
  <2>6. SumFunctionOnSet(Below(c), MinutesOf(d)) = SumFunctionOnSet(purged, MinutesOf(d))
    BY <2>3, <2>5, SumsAgree
  <2>. QED
    BY <2>2, <2>6 DEF SumBelow
<1>. QED
  BY <1>1, MetricsHold, PTL
================================================================================
