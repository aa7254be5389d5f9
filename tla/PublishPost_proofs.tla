------------------------ MODULE PublishPost_proofs ------------------------
(***************************************************************************)
(* The safety of PublishPost for every number of taps and of pictures.     *)
(***************************************************************************)
EXTENDS PublishPost, FiniteSetTheorems, SequenceTheorems, TLAPS

(* An injective list of n numbers of 1..n holds every one of them: the      *)
(* completion of saveToStorageDatas only counts URLs, and this is why the   *)
(* count is enough.                                                         *)
LEMMA InjectiveListIsOnto ==
  ASSUME NEW n \in Nat, NEW f \in [1..n -> 1..n],
         \A j, k \in 1..n : f[j] = f[k] => j = k
  PROVE  f \in Atomic!Orders(n)
<1>1. f \in Injection(1..n, 1..n)
  BY DEF Injection, IsInjective
<1>2. IsFiniteSet(1..n)
  BY FS_Interval
<1>3. f \in Surjection(1..n, 1..n)
  BY <1>1, <1>2, FS_Injection
<1>4. QED
  BY <1>3 DEF Surjection, Atomic!Orders

LEMMA InitIInv == Init => IInv
<1> SUFFICES ASSUME Init PROVE IInv
  OBVIOUS
<1> USE PublishAssumption DEF Init
<1>1. TypeOK /\ FormInv
  BY DEF TypeOK, FormInv, Slot, NoDoc, JobState
<1>2. JobsFit /\ SemaphoreInv /\ UrlsInv
  BY DEF JobsFit, SemaphoreInv, Holders, UrlsInv, Slot
<1>3. StageInv /\ PublishedComplete /\ CalmInv
  BY DEF StageInv, PublishedComplete, CalmInv
<1>4. QED
  BY <1>1, <1>2, <1>3 DEF IInv

(* Steps that touch neither the uploads nor the attempts. *)
FormStep ==
  \/ MessageFades \/ LateDismiss
  \/ EditForm \/ OpenPicker \/ ClosePicker \/ Leave
  \/ DidSelectImages \/ ResolveImage \/ AppStops \/ RefusePost

LEMMA FormStepFrame == FormStep => UNCHANGED <<upload, attempt>>
BY DEF FormStep, MessageFades, LateDismiss, EditForm, OpenPicker, ClosePicker,
       Leave, DidSelectImages, ResolveImage, AppStops, RefusePost, upload, attempt

LEMMA FormStepIInv == IInv /\ FormStep => IInv'
<1> SUFFICES ASSUME IInv, FormStep PROVE IInv'
  OBVIOUS
<1> USE PublishAssumption
<1>0. UNCHANGED <<semaphore, job, uploadCount, urls, stage, datas, tapped, doc, write, calm>>
  BY FormStepFrame DEF upload, attempt
<1>1. TypeOK' /\ FormInv'
  <2>0. /\ running \in BOOLEAN
        /\ screen \in {"form", "picker", "gone"}
        /\ draft \in Draft
        /\ imageList \in 0..MaxImages
        /\ resolving \in 0..MaxImages
        /\ hud \in {"off", "busy", "message"}
        /\ masking \in BOOLEAN
        /\ lateDismiss \in BOOLEAN
        /\ imageList + resolving <= MaxImages
    BY DEF IInv, TypeOK, FormInv
  <2> DEFINE Typed == /\ running' \in BOOLEAN
                      /\ screen' \in {"form", "picker", "gone"}
                      /\ draft' \in Draft
                      /\ imageList' \in 0..MaxImages
                      /\ resolving' \in 0..MaxImages
                      /\ hud' \in {"off", "busy", "message"}
                      /\ masking' \in BOOLEAN
                      /\ lateDismiss' \in BOOLEAN
                      /\ imageList' + resolving' <= MaxImages
  <2> SUFFICES Typed
    BY <1>0 DEF IInv, TypeOK, FormInv
  <2>1. CASE MessageFades \/ LateDismiss \/ AppStops \/ RefusePost
    BY <2>0, <2>1 DEF MessageFades, LateDismiss, AppStops, RefusePost, ShowMessage,
                      form, overlay
  <2>2. CASE EditForm \/ OpenPicker \/ ClosePicker \/ Leave
    BY <2>0, <2>2 DEF EditForm, OpenPicker, ClosePicker, Leave, overlay
  <2>3. CASE DidSelectImages
    BY <2>0, <2>3 DEF DidSelectImages, ShowBusy, Slot
  <2>4. CASE ResolveImage
    BY <2>0, <2>4 DEF ResolveImage
  <2>5. QED
    BY <2>1, <2>2, <2>3, <2>4 DEF FormStep
<1>2. JobsFit' /\ SemaphoreInv' /\ UrlsInv'
  BY <1>0 DEF IInv, JobsFit, SemaphoreInv, Holders, UrlsInv
<1>3. StageInv' /\ PublishedComplete'
  BY <1>0 DEF IInv, StageInv, PublishedComplete
<1>4. CalmInv'
  <2> SUFFICES ASSUME NEW a \in Attempt, calm[a],
                      stage[a] = "uploading"
               PROVE  /\ hud' = "busy" /\ masking' /\ ~lateDismiss' /\ resolving' = 0
                      /\ draft' = tapped[a]
    BY <1>0 DEF IInv, CalmInv, InFlight
  <2>1. hud = "busy" /\ masking /\ ~lateDismiss /\ resolving = 0 /\ draft = tapped[a]
    BY DEF IInv, CalmInv
  <2>2. ~UserCanAct /\ ~Unmasked
    BY <2>1 DEF UserCanAct, Unmasked
  <2>3. UNCHANGED <<hud, masking, lateDismiss, resolving, draft>>
    <3>1. ~(EditForm \/ OpenPicker \/ ClosePicker \/ Leave \/ DidSelectImages \/ RefusePost)
      BY <2>2 DEF EditForm, OpenPicker, ClosePicker, Leave, DidSelectImages, RefusePost
    <3>2. ~MessageFades /\ ~ResolveImage
      BY <2>1 DEF MessageFades, ResolveImage
    <3>3. ~LateDismiss
      BY <2>1 DEF LateDismiss
    <3>4. AppStops
      BY <3>1, <3>2, <3>3 DEF FormStep
    <3>5. QED
      BY <3>4 DEF AppStops, form, overlay
  <2>4. QED
    BY <2>1, <2>3
<1>5. QED
  BY <1>1, <1>2, <1>3, <1>4 DEF IInv
-----------------------------------------------------------------------------
LEMMA PostItIInv ==
  ASSUME IInv, NEW a \in Attempt, PostIt(a) PROVE IInv'
<1> USE PublishAssumption
<1>1. /\ UNCHANGED <<running, screen, draft, imageList, resolving, lateDismiss,
                     semaphore, uploadCount, urls, doc, write>>
      /\ Unmasked /\ hud' = "busy" /\ masking' = TRUE
      /\ stage[a] = "idle" /\ draft \in CompleteDraft /\ imageList > 0
      /\ stage' = [stage EXCEPT ![a] = "uploading"]
      /\ datas' = [datas EXCEPT ![a] = imageList]
      /\ tapped' = [tapped EXCEPT ![a] = draft]
      /\ calm' = [calm EXCEPT ![a] = /\ resolving = 0 /\ ~lateDismiss
                                     /\ \A b \in Attempt : ~InFlight(b)]
      /\ job' = [job EXCEPT ![a] = [i \in Slot |-> IF i <= imageList THEN "timer" ELSE "none"]]
  BY DEF PostIt, UserCanAct, MayPost, AnnounceUpload, ShowBusy, form
<1>2. /\ datas[a] = 0 /\ uploadCount[a] = 0 /\ write[a] = "none"
      /\ \A i \in Slot : job[a][i] = "none"
  <2>1. datas[a] = 0 /\ uploadCount[a] = 0 /\ write[a] = "none"
    BY <1>1 DEF IInv, StageInv
  <2>2. \A i \in Slot : job[a][i] = "none"
    BY <2>1 DEF IInv, JobsFit, Slot
  <2>3. QED
    BY <2>1, <2>2
<1>3. TypeOK' /\ FormInv'
  <2>1. [i \in Slot |-> IF i <= imageList THEN "timer" ELSE "none"] \in [Slot -> JobState]
    BY DEF JobState
  <2>2. /\ stage' \in [Attempt -> {"idle", "uploading", "writing", "posted", "refused", "dropped"}]
        /\ datas' \in [Attempt -> 0..MaxImages]
        /\ tapped' \in [Attempt -> Draft \cup {"none"}]
        /\ calm' \in [Attempt -> BOOLEAN]
        /\ job' \in [Attempt -> [Slot -> JobState]]
    BY <1>1, <2>1 DEF IInv, TypeOK
  <2>3. QED
    BY <1>1, <2>2 DEF IInv, TypeOK, FormInv
<1>4. JobsFit'
  BY <1>1 DEF IInv, TypeOK, JobsFit, Slot
<1>5. SemaphoreInv'
  BY <1>1, <1>2 DEF IInv, TypeOK, SemaphoreInv, Holders
<1>6. UrlsInv'
  <2>1. \A b \in Attempt : b # a => job'[b] = job[b]
    BY <1>1 DEF IInv, TypeOK
  <2>2. QED
    BY <1>1, <1>2, <2>1 DEF IInv, UrlsInv
<1>7. StageInv'
  <2>1. \A b \in Attempt : b # a => job'[b] = job[b] /\ datas'[b] = datas[b] /\ stage'[b] = stage[b]
    BY <1>1 DEF IInv, TypeOK
  <2>2. stage'[a] = "uploading" /\ datas'[a] = imageList
    BY <1>1 DEF IInv, TypeOK
  <2>3. QED
    BY <1>1, <1>2, <2>1, <2>2 DEF IInv, StageInv
<1>8. PublishedComplete'
  BY <1>1, <1>2 DEF IInv, TypeOK, PublishedComplete
<1>9. CalmInv'
  <2> SUFFICES ASSUME NEW c \in Attempt, calm'[c]
               PROVE  /\ stage'[c] = "uploading" =>
                           /\ ~lateDismiss /\ resolving = 0 /\ draft = tapped'[c]
                           /\ \A b \in Attempt \ {c} : ~InFlight(b)'
                      /\ write[c] # "none" => doc[c].live = doc[c].tapped
    BY <1>1 DEF CalmInv
  <2>1. CASE c = a
    BY <1>1, <1>2, <2>1 DEF IInv, TypeOK, InFlight
  <2>2. CASE c # a
    BY <1>1, <2>2 DEF IInv, TypeOK, CalmInv, Unmasked
  <2>3. QED
    BY <2>1, <2>2
<1>10. QED
  BY <1>3, <1>4, <1>5, <1>6, <1>7, <1>8, <1>9 DEF IInv

(* A picture moves on: it takes the semaphore, its bytes are stored, or it fails. *)
LEMMA UploadMoveIInv ==
  ASSUME IInv, NEW a \in Attempt, NEW i \in Slot,
         StartUpload(a, i) \/ PutDataDone(a, i) \/ UploadFails(a, i)
  PROVE  IInv'
<1> USE PublishAssumption
<1>1. /\ UNCHANGED <<running, screen, draft, imageList, resolving, hud, masking, lateDismiss,
                     uploadCount, urls, stage, datas, tapped, doc, write, calm>>
  BY DEF StartUpload, PutDataDone, UploadFails, form, overlay, attempt
<1>2. PICK s \in {"putData", "downloadURL", "failed"} : job' = [job EXCEPT ![a][i] = s]
  BY DEF StartUpload, PutDataDone, UploadFails
<1>3. job[a][i] \in {"timer", "putData", "downloadURL"}
  BY DEF StartUpload, PutDataDone, UploadFails
<1>4. /\ semaphore' \in [Attempt -> 0..1]
      /\ semaphore'[a] = 0
      /\ \A b \in Attempt : b # a => semaphore'[b] = semaphore[b]
      /\ \A j \in Slot : j \in Holders(a) => j = i
  <2>1. CASE StartUpload(a, i)
    BY <2>1 DEF StartUpload, IInv, TypeOK, SemaphoreInv
  <2>2. CASE PutDataDone(a, i) \/ UploadFails(a, i)
    BY <2>2 DEF PutDataDone, UploadFails, IInv, TypeOK, SemaphoreInv, Holders
  <2>3. QED
    BY <2>1, <2>2
<1>5. /\ job' \in [Attempt -> [Slot -> JobState]]
      /\ job'[a][i] = s
      /\ \A b \in Attempt, j \in Slot : <<b, j>> # <<a, i>> => job'[b][j] = job[b][j]
  BY <1>2 DEF IInv, TypeOK, JobState
<1>6. TypeOK' /\ FormInv'
  BY <1>1, <1>4, <1>5 DEF IInv, TypeOK, FormInv
<1>7. JobsFit'
  BY <1>1, <1>3, <1>5 DEF IInv, JobsFit
<1>8. SemaphoreInv'
  BY <1>4, <1>5 DEF IInv, SemaphoreInv, Holders
<1>9. \A b \in Attempt, j \in Slot : job[b][j] = "done" => job'[b][j] = "done"
  BY <1>3, <1>5
<1>10. UrlsInv'
  <2>1. \A b \in Attempt : \A k \in 1..uploadCount[b] : urls[b][k] \in Slot
    BY DEF IInv, TypeOK, UrlsInv
  <2>2. QED
    BY <1>1, <1>9, <2>1 DEF IInv, UrlsInv
<1>11. StageInv'
  <2>1. \A b \in Attempt : datas[b] \in 0..MaxImages /\ 1..datas[b] \subseteq Slot
    BY DEF IInv, TypeOK, Slot
  <2>2. QED
    BY <1>1, <1>9, <2>1 DEF IInv, StageInv
<1>12. PublishedComplete' /\ CalmInv'
  BY <1>1 DEF IInv, PublishedComplete, CalmInv, InFlight
<1>13. QED
  BY <1>6, <1>7, <1>8, <1>10, <1>11, <1>12 DEF IInv

LEMMA UploadProgressIInv ==
  ASSUME IInv, NEW a \in Attempt, NEW i \in Slot, UploadProgress(a, i) PROVE IInv'
<1>1. /\ UNCHANGED <<running, screen, draft, imageList, resolving, masking, lateDismiss>>
      /\ UNCHANGED <<semaphore, job, uploadCount, urls, stage, datas, tapped, doc, write, calm>>
      /\ hud' = "busy"
  BY DEF UploadProgress, form, upload, attempt
<1>2. TypeOK' /\ FormInv' /\ JobsFit' /\ SemaphoreInv' /\ UrlsInv' /\ StageInv' /\ PublishedComplete'
  BY <1>1 DEF IInv, TypeOK, FormInv, JobsFit, SemaphoreInv, Holders, UrlsInv, StageInv,
              PublishedComplete
<1>3. CalmInv'
  BY <1>1 DEF IInv, CalmInv, InFlight
<1>4. QED
  BY <1>2, <1>3 DEF IInv
(* A picture in transit belongs to an attempt that still counts. *)
LEMMA TransitMeansUploading ==
  ASSUME IInv, NEW a \in Attempt, NEW i \in Slot, job[a][i] = "downloadURL"
  PROVE  stage[a] = "uploading" /\ uploadCount[a] < datas[a] /\ write[a] = "none"
<1> USE PublishAssumption
<1>1. i \in 1..datas[a]
  BY DEF IInv, TypeOK, JobsFit, Slot
<1>2. stage[a] \notin {"idle", "writing", "posted", "refused", "dropped"}
  BY <1>1 DEF IInv, TypeOK, StageInv
<1>3. QED
  BY <1>2 DEF IInv, TypeOK, StageInv

(* A URL arrives. *)
LEMMA DownloadURLDoneIInv ==
  ASSUME IInv, NEW a \in Attempt, NEW i \in Slot, DownloadURLDone(a, i) PROVE IInv'
<1> USE PublishAssumption
<1> DEFINE list == Append(urls[a], i)
<1>1. /\ UNCHANGED <<running, screen, draft, imageList, resolving, datas, tapped, calm>>
      /\ job[a][i] = "downloadURL"
      /\ job' = [job EXCEPT ![a][i] = "done"]
      /\ urls' = [urls EXCEPT ![a] = list]
      /\ uploadCount' = [uploadCount EXCEPT ![a] = @ + 1]
      /\ semaphore' = [semaphore EXCEPT ![a] = @ + 1]
      /\ masking' = TRUE
  BY DEF DownloadURLDone, Signal, form
<1>2. i \in Holders(a) /\ semaphore[a] = 0 /\ \A j \in Holders(a) : j = i
  BY <1>1 DEF IInv, SemaphoreInv, Holders
<1>3. stage[a] = "uploading" /\ uploadCount[a] < datas[a] /\ write[a] = "none"
  BY <1>1, TransitMeansUploading
<1>4. /\ uploadCount[a] \in Nat /\ datas[a] \in 0..MaxImages
      /\ urls[a] \in Seq(Slot) /\ Len(urls[a]) = uploadCount[a]
  BY DEF IInv, TypeOK, UrlsInv
<1>5. /\ list \in Seq(Slot) /\ Len(list) = uploadCount[a] + 1
      /\ list \in [1..(uploadCount[a] + 1) -> Slot]
      /\ \A k \in 1..uploadCount[a] : list[k] = urls[a][k]
      /\ list[uploadCount[a] + 1] = i
  <2>1. /\ list \in Seq(Slot) /\ Len(list) = uploadCount[a] + 1
        /\ \A k \in 1..uploadCount[a] : list[k] = urls[a][k]
        /\ list[uploadCount[a] + 1] = i
    BY <1>4, AppendProperties
  <2>2. list \in [1..(uploadCount[a] + 1) -> Slot]
    BY <2>1, LenProperties
  <2>3. QED
    BY <2>1, <2>2
<1> HIDE DEF list
<1>6. /\ job'[a][i] = "done"
      /\ \A b \in Attempt, j \in Slot : <<b, j>> # <<a, i>> => job'[b][j] = job[b][j]
      /\ job' \in [Attempt -> [Slot -> JobState]]
  BY <1>1 DEF IInv, TypeOK, JobState
<1>7. \A j, k \in 1..(uploadCount[a] + 1) : list[j] = list[k] => j = k
  <2>1. \A k \in 1..uploadCount[a] : list[k] # i
    BY <1>1, <1>5 DEF IInv, UrlsInv
  <2>2. \A j, k \in 1..uploadCount[a] : list[j] = list[k] => j = k
    BY <1>5 DEF IInv, UrlsInv
  <2>3. \A k \in 1..(uploadCount[a] + 1) : k \in 1..uploadCount[a] \/ k = uploadCount[a] + 1
    BY <1>4
  <2>4. QED
    BY <1>5, <2>1, <2>2, <2>3
<1>8. \A k \in 1..(uploadCount[a] + 1) : job'[a][list[k]] = "done"
  <2>1. \A k \in 1..uploadCount[a] : job[a][list[k]] = "done" /\ list[k] \in Slot
    BY <1>4, <1>5 DEF IInv, UrlsInv
  <2>2. \A k \in 1..uploadCount[a] : job'[a][list[k]] = "done"
    BY <1>1, <1>6, <2>1
  <2>3. QED
    BY <1>4, <1>5, <1>6, <2>2
<1>9. AllUploaded(a) => /\ list \in Atomic!Orders(datas[a])
                        /\ \A j \in 1..datas[a] : job'[a][j] = "done"
  <2> SUFFICES ASSUME AllUploaded(a)
               PROVE  /\ list \in Atomic!Orders(datas[a])
                      /\ \A j \in 1..datas[a] : job'[a][j] = "done"
    OBVIOUS
  <2>1. uploadCount[a] + 1 = datas[a]
    BY DEF AllUploaded
  <2>2. \A k \in 1..datas[a] : list[k] \in 1..datas[a]
    <3>1. \A k \in 1..datas[a] : list[k] \in Slot /\ job'[a][list[k]] # "none"
      BY <1>5, <1>8, <2>1
    <3>2. \A j \in Slot : job'[a][j] # "none" => job[a][j] # "none"
      BY <1>1, <1>6
    <3>3. \A j \in Slot : job[a][j] # "none" => j \in 1..datas[a]
      <4>1. JobsFit
        BY DEF IInv
      <4>2. \A j \in Slot : job[a][j] # "none" => j <= datas[a]
        BY <4>1 DEF JobsFit
      <4>3. \A j \in Slot : j <= datas[a] => j \in 1..datas[a]
        BY <1>4, PublishAssumption DEF Slot
      <4>4. QED
        BY <4>2, <4>3
    <3>4. QED
      BY <3>1, <3>2, <3>3
  <2>3. list \in [1..datas[a] -> 1..datas[a]]
    BY <1>5, <2>1, <2>2
  <2>4. list \in Atomic!Orders(datas[a])
    <3>1. datas[a] \in Nat /\ \A j, k \in 1..datas[a] : list[j] = list[k] => j = k
      BY <1>4, <1>7, <2>1
    <3>2. QED
      BY <2>3, <3>1, InjectiveListIsOnto
  <2>5. \A j \in 1..datas[a] : \E k \in 1..datas[a] : list[k] = j
    BY <2>4 DEF Atomic!Orders
  <2>6. \A k \in 1..datas[a] : job'[a][list[k]] = "done"
    BY <1>8, <2>1
  <2>7. QED
    BY <2>4, <2>5, <2>6
(* What the step does to the attempts. *)
<1>10. \/ /\ AllUploaded(a) /\ ScreenAlive
          /\ stage' = [stage EXCEPT ![a] = "writing"]
          /\ write' = [write EXCEPT ![a] = "queued"]
          /\ doc' = [doc EXCEPT ![a] =
                        [tapped |-> tapped[a], live |-> draft, imageList |-> list]]
          /\ hud' = "message" /\ lateDismiss' = TRUE
       \/ /\ AllUploaded(a)
          /\ stage' = [stage EXCEPT ![a] = "dropped"]
          /\ UNCHANGED <<write, doc>>
          /\ hud' = "message" /\ lateDismiss' = TRUE
       \/ /\ ~AllUploaded(a)
          /\ UNCHANGED <<lateDismiss, stage, write, doc>>
          /\ hud' = "busy"
  BY DEF DownloadURLDone, WriteDocument, ShowMessage, ShowBusy, list
<1>11. TypeOK' /\ FormInv'
  <2>1. /\ semaphore' \in [Attempt -> 0..1]
        /\ urls' \in [Attempt -> Seq(Slot)]
    BY <1>1, <1>2, <1>5 DEF IInv, TypeOK
  <2>2. uploadCount' \in [Attempt -> 0..MaxImages]
    <3>1. uploadCount[a] + 1 \in 0..MaxImages
      BY <1>3, <1>4
    <3>2. QED
      BY <1>1, <3>1 DEF IInv, TypeOK
  <2>3. [tapped |-> tapped[a], live |-> draft, imageList |-> list] \in
           [tapped : Draft \cup {"none"}, live : Draft \cup {"none"}, imageList : Seq(Slot)]
    BY <1>5 DEF IInv, TypeOK
  <2>4. /\ stage' \in [Attempt -> {"idle", "uploading", "writing", "posted", "refused", "dropped"}]
        /\ write' \in [Attempt -> {"none", "queued", "committed", "rejected"}]
    BY <1>10 DEF IInv, TypeOK
  <2>5. doc' \in [Attempt -> [tapped : Draft \cup {"none"},
                              live : Draft \cup {"none"}, imageList : Seq(Slot)]]
    <3>1. \/ UNCHANGED doc
          \/ doc' = [doc EXCEPT ![a] =
                        [tapped |-> tapped[a], live |-> draft, imageList |-> list]]
      BY <1>10
    <3>2. QED
      BY <2>3, <3>1 DEF IInv, TypeOK
  <2>6. hud' \in {"off", "busy", "message"} /\ lateDismiss' \in BOOLEAN
    BY <1>10 DEF IInv, TypeOK
  <2>7. masking' \in BOOLEAN
    BY <1>1
  <2>8. QED
    BY <1>1, <1>6, <2>1, <2>2, <2>4, <2>5, <2>6, <2>7 DEF IInv, TypeOK, FormInv
<1>12. JobsFit'
  BY <1>1, <1>6 DEF IInv, JobsFit
<1>13. SemaphoreInv'
  <2>1. \A j \in Slot : job'[a][j] \notin {"putData", "downloadURL", "failed"}
    BY <1>2, <1>6 DEF Holders
  <2>2. \A b \in Attempt : b # a => semaphore'[b] = semaphore[b] /\ job'[b] = job[b]
    BY <1>1 DEF IInv, TypeOK
  <2>3. QED
    BY <2>1, <2>2 DEF IInv, SemaphoreInv, Holders
<1>14. UrlsInv'
  <2>1. /\ urls'[a] = list /\ uploadCount'[a] = uploadCount[a] + 1
        /\ \A b \in Attempt : b # a => /\ urls'[b] = urls[b]
                                       /\ uploadCount'[b] = uploadCount[b]
                                       /\ job'[b] = job[b]
    BY <1>1 DEF IInv, TypeOK
  <2>2. \A b \in Attempt : b # a =>
          /\ Len(urls'[b]) = uploadCount'[b]
          /\ \A k \in 1..uploadCount'[b] : job'[b][urls'[b][k]] = "done"
          /\ \A j, k \in 1..uploadCount'[b] : urls'[b][j] = urls'[b][k] => j = k
    BY <2>1 DEF IInv, UrlsInv
  <2>3. /\ Len(urls'[a]) = uploadCount'[a]
        /\ \A k \in 1..uploadCount'[a] : job'[a][urls'[a][k]] = "done"
        /\ \A j, k \in 1..uploadCount'[a] : urls'[a][j] = urls'[a][k] => j = k
    BY <1>5, <1>7, <1>8, <2>1
  <2>4. QED
    BY <2>2, <2>3 DEF UrlsInv
<1>15. StageInv'
  <2>1. \A b \in Attempt : b # a => /\ stage'[b] = stage[b] /\ write'[b] = write[b]
                                   /\ uploadCount'[b] = uploadCount[b]
                                   /\ job'[b] = job[b]
    BY <1>1, <1>10 DEF IInv, TypeOK
  <2>2. uploadCount'[a] = uploadCount[a] + 1
    BY <1>1 DEF IInv, TypeOK
  <2>3. CASE AllUploaded(a)
    <3>1. \/ stage'[a] = "writing"
          \/ stage'[a] = "dropped" /\ write'[a] = "none"
      BY <1>3, <1>10, <2>3 DEF IInv, TypeOK
    <3>2. datas[a] > 0 /\ \A j \in 1..datas[a] : job'[a][j] = "done"
      BY <1>3, <1>4, <1>9, <2>3
    <3>3. QED
      BY <1>1, <2>1, <3>1, <3>2 DEF IInv, StageInv
  <2>4. CASE ~AllUploaded(a)
    <3>1. uploadCount'[a] < datas[a]
      BY <1>3, <1>4, <2>2, <2>4 DEF AllUploaded
    <3>2. stage'[a] = "uploading" /\ write'[a] = "none"
      BY <1>3, <1>10, <2>4
    <3>3. QED
      BY <1>1, <2>1, <3>1, <3>2 DEF IInv, StageInv
  <2>5. QED
    BY <2>3, <2>4
<1>16. PublishedComplete'
  <2> SUFFICES ASSUME NEW b \in Attempt, write'[b] # "none"
               PROVE  doc'[b].imageList \in Atomic!Orders(datas[b])
    BY <1>1 DEF PublishedComplete
  <2>1. CASE b # a
    BY <1>10, <2>1 DEF IInv, TypeOK, PublishedComplete
  <2>2. CASE b = a
    <3>1. AllUploaded(a) /\ doc'[a].imageList = list
      BY <1>3, <1>10, <2>2 DEF IInv, TypeOK
    <3>2. QED
      BY <1>9, <2>2, <3>1
  <2>3. QED
    BY <2>1, <2>2
<1>17. CalmInv'
  <2> SUFFICES ASSUME NEW c \in Attempt, calm[c]
               PROVE  /\ stage'[c] = "uploading" =>
                           /\ hud' = "busy" /\ masking' /\ ~lateDismiss' /\ resolving = 0
                           /\ draft = tapped[c]
                           /\ \A b \in Attempt \ {c} : ~InFlight(b)'
                      /\ write'[c] # "none" => doc'[c].live = doc'[c].tapped
    BY <1>1 DEF CalmInv
  <2>1. CASE c = a
    <3>1. draft = tapped[a] /\ ~lateDismiss /\ resolving = 0
          /\ \A b \in Attempt \ {a} : ~InFlight(b)
      BY <1>3, <2>1 DEF IInv, CalmInv
    <3>2. \A b \in Attempt \ {a} : ~InFlight(b)'
      BY <1>10, <3>1 DEF IInv, TypeOK, InFlight
    <3>3. stage'[a] = "uploading" => hud' = "busy" /\ masking' /\ ~lateDismiss'
      BY <1>1, <1>10, <3>1 DEF IInv, TypeOK
    <3>4. write'[a] # "none" => doc'[a].live = doc'[a].tapped
      BY <1>3, <1>10, <3>1 DEF IInv, TypeOK
    <3>5. QED
      BY <2>1, <3>1, <3>2, <3>3, <3>4
  <2>2. CASE c # a
    <3>1. stage'[c] = stage[c] /\ write'[c] = write[c] /\ doc'[c] = doc[c]
      BY <1>10, <2>2 DEF IInv, TypeOK
    <3>2. stage[c] # "uploading"
      BY <1>3, <2>2 DEF IInv, CalmInv, InFlight
    <3>3. QED
      BY <3>1, <3>2 DEF IInv, CalmInv
  <2>3. QED
    BY <2>1, <2>2
<1>18. QED
  BY <1>11, <1>12, <1>13, <1>14, <1>15, <1>16, <1>17 DEF IInv
LEMMA ServerDecidesIInv ==
  ASSUME IInv, NEW a \in Attempt, ServerDecides(a) PROVE IInv'
<1>1. /\ UNCHANGED <<running, screen, draft, imageList, resolving, hud, masking, lateDismiss>>
      /\ UNCHANGED <<semaphore, job, uploadCount, urls, stage, datas, tapped, doc, calm>>
      /\ write[a] = "queued"
  BY DEF ServerDecides, form, overlay, upload
<1>2. PICK v \in {"committed", "rejected"} : write' = [write EXCEPT ![a] = v]
  BY DEF ServerDecides
<1>3. /\ write' \in [Attempt -> {"none", "queued", "committed", "rejected"}]
      /\ \A b \in Attempt : write'[b] = "none" <=> write[b] = "none"
  BY <1>1, <1>2 DEF IInv, TypeOK
<1>4. TypeOK' /\ FormInv' /\ JobsFit' /\ SemaphoreInv' /\ UrlsInv'
  BY <1>1, <1>3 DEF IInv, TypeOK, FormInv, JobsFit, SemaphoreInv, Holders, UrlsInv
<1>5. StageInv' /\ PublishedComplete' /\ CalmInv'
  BY <1>1, <1>3 DEF IInv, StageInv, PublishedComplete, CalmInv, InFlight
<1>6. QED
  BY <1>4, <1>5 DEF IInv

LEMMA PostAcknowledgedIInv ==
  ASSUME IInv, NEW a \in Attempt, PostAcknowledged(a) PROVE IInv'
<1>1. /\ UNCHANGED <<running, draft, imageList, resolving, masking>>
      /\ UNCHANGED <<semaphore, job, uploadCount, urls, datas, tapped, doc, write, calm>>
      /\ stage[a] = "writing"
      /\ hud' = "message" /\ lateDismiss' = TRUE
  BY DEF PostAcknowledged, ShowMessage, upload
<1>2. PICK s \in {"posted", "refused"} : stage' = [stage EXCEPT ![a] = s]
  BY DEF PostAcknowledged
<1>3. screen' \in {"form", "picker", "gone"}
  BY DEF PostAcknowledged, Popped, IInv, TypeOK
<1>4. /\ stage' \in [Attempt -> {"idle", "uploading", "writing", "posted", "refused", "dropped"}]
      /\ stage'[a] = s /\ \A b \in Attempt : b # a => stage'[b] = stage[b]
  BY <1>2 DEF IInv, TypeOK
<1>5. TypeOK' /\ FormInv'
  BY <1>1, <1>3, <1>4 DEF IInv, TypeOK, FormInv
<1>6. JobsFit' /\ SemaphoreInv' /\ UrlsInv' /\ PublishedComplete'
  BY <1>1 DEF IInv, JobsFit, SemaphoreInv, Holders, UrlsInv, PublishedComplete
<1>7. StageInv'
  BY <1>1, <1>4 DEF IInv, StageInv
<1>8. CalmInv'
  <2> SUFFICES ASSUME NEW c \in Attempt, calm[c], stage'[c] = "uploading" PROVE FALSE
    BY <1>1 DEF IInv, CalmInv
  <2>1. c # a /\ stage[c] = "uploading"
    BY <1>4
  <2>2. QED
    BY <1>1, <2>1 DEF IInv, CalmInv, InFlight
<1>9. QED
  BY <1>5, <1>6, <1>7, <1>8 DEF IInv

LEMMA NextIInv == IInv /\ [Next]_vars => IInv'
<1> SUFFICES ASSUME IInv, [Next]_vars PROVE IInv'
  OBVIOUS
<1>1. CASE FormStep
  BY <1>1, FormStepIInv
<1>2. ASSUME NEW a \in Attempt, PostIt(a) PROVE IInv'
  BY <1>2, PostItIInv
<1>3. ASSUME NEW a \in Attempt, NEW i \in Slot, UploadStep(a, i) PROVE IInv'
  BY <1>3, UploadMoveIInv, UploadProgressIInv, DownloadURLDoneIInv DEF UploadStep
<1>4. ASSUME NEW a \in Attempt, ServerDecides(a) \/ PostAcknowledged(a) PROVE IInv'
  BY <1>4, ServerDecidesIInv, PostAcknowledgedIInv
<1>5. CASE UNCHANGED vars
  BY <1>5 DEF vars, form, overlay, upload, attempt, IInv, TypeOK, FormInv, JobsFit,
              SemaphoreInv, Holders, UrlsInv, StageInv, PublishedComplete, CalmInv, InFlight
<1>6. QED
  BY <1>1, <1>2, <1>3, <1>4, <1>5 DEF Next, FormStep

(* IInv holds in every reachable state. *)
THEOREM Invariance == Spec => []IInv
<1>1. QED
  BY InitIInv, NextIInv, PTL DEF Spec

(* Every variable of the publishing protocol keeps its type. *)
THEOREM TypeCorrect == Spec => []TypeOK
<1>1. IInv => TypeOK
  BY DEF IInv
<1>2. QED
  BY <1>1, Invariance, PTL

(* The semaphore of saveToStorageDatas admits one upload of an attempt at a *)
(* time, however many closures the concurrent queue starts.                 *)
THEOREM MutualExclusion == Spec => []OneUploadAtATime
<1>1. IInv => OneUploadAtATime
  BY DEF IInv, SemaphoreInv, OneUploadAtATime, Uploading, Holders
<1>2. QED
  BY <1>1, Invariance, PTL

(* What reaches setNewPost lists every picture of the tap exactly once. *)
THEOREM Completeness == Spec => []PublishedComplete
<1>1. IInv => PublishedComplete
  BY DEF IInv
<1>2. QED
  BY <1>1, Invariance, PTL

(* After a failed upload the attempt publishes nothing. *)
THEOREM AllOrNothing == Spec => []FailureNeverPublishes
<1>1. ASSUME IInv, NEW a \in Attempt, Wedged(a) PROVE write[a] = "none"
  <2>1. PICK i \in Slot : job[a][i] = "failed"
    BY <1>1 DEF Wedged
  <2>2. i \in 1..datas[a]
    BY <1>1, <2>1 DEF IInv, TypeOK, JobsFit, Slot
  <2>3. stage[a] \notin {"writing", "posted", "refused", "dropped"}
    BY <1>1, <2>1, <2>2 DEF IInv, StageInv
  <2>4. QED
    BY <1>1, <2>3 DEF IInv, TypeOK, StageInv
<1>2. IInv => FailureNeverPublishes
  BY <1>1 DEF FailureNeverPublishes
<1>3. QED
  BY <1>2, Invariance, PTL

(* A tap made while nothing else is going on publishes the form it saw. *)
THEOREM CalmTap == Spec => []CalmTapPostsWhatItShows
<1>1. IInv => CalmTapPostsWhatItShows
  BY DEF IInv, CalmInv, CalmTapPostsWhatItShows
<1>2. QED
  BY <1>1, Invariance, PTL

-----------------------------------------------------------------------------
LEMMA PublishedFrame ==
  UNCHANGED <<doc, write>> => UNCHANGED Published
BY DEF Published

LEMMA RefinesStep == IInv /\ IInv' /\ [Next]_vars => [Atomic!Next]_(Atomic!vars)
<1> SUFFICES ASSUME IInv, IInv', [Next]_vars PROVE [Atomic!Next]_(Atomic!vars)
  OBVIOUS
<1> USE PublishAssumption
<1>1. CASE FormStep \/ UNCHANGED vars
  <2>1. UNCHANGED <<datas, doc, write>>
    BY <1>1, FormStepFrame DEF vars, attempt
  <2>2. QED
    BY <2>1, PublishedFrame DEF Atomic!vars
<1>2. ASSUME NEW a \in Attempt, PostIt(a) PROVE Atomic!Next
  <2>1. datas[a] = 0
    BY <1>2 DEF PostIt, IInv, StageInv
  <2>2. imageList \in 1..MaxImages
    BY <1>2 DEF PostIt, MayPost, IInv, TypeOK
  <2>3. datas' = [datas EXCEPT ![a] = imageList] /\ UNCHANGED <<doc, write>>
    BY <1>2 DEF PostIt
  <2>4. QED
    BY <2>1, <2>2, <2>3, PublishedFrame DEF Atomic!Next, Atomic!Choose
<1>3. ASSUME NEW a \in Attempt, NEW i \in Slot, UploadStep(a, i)
      PROVE  UNCHANGED Atomic!vars
  <2>1. UNCHANGED datas
    BY <1>3 DEF UploadStep, StartUpload, UploadProgress, PutDataDone, UploadFails,
                DownloadURLDone, attempt
  <2>2. CASE UNCHANGED <<doc, write>>
    BY <2>1, <2>2, PublishedFrame DEF Atomic!vars
  <2>3. CASE DownloadURLDone(a, i) /\ ~UNCHANGED <<doc, write>>
    <3>1. /\ write' = [write EXCEPT ![a] = "queued"]
          /\ \A b \in Attempt : b # a => doc'[b] = doc[b]
      <4>1. WriteDocument(a, Append(urls[a], i)) /\ ~UNCHANGED <<doc, write>>
        BY <2>3 DEF DownloadURLDone
      <4>2. /\ write' = [write EXCEPT ![a] = "queued"]
            /\ doc' = [doc EXCEPT ![a] = [tapped |-> tapped[a], live |-> draft,
                                         imageList |-> Append(urls[a], i)]]
        BY <4>1 DEF WriteDocument
      <4>3. DOMAIN doc = Attempt
        BY DEF IInv, TypeOK
      <4>4. QED
        BY <4>2, <4>3
    <3>2. write[a] = "none"
      BY <2>3, TransitMeansUploading DEF DownloadURLDone
    <3>3. Published' = Published
      BY <3>1, <3>2 DEF Published, IInv, TypeOK
    <3>4. QED
      BY <2>1, <3>3 DEF Atomic!vars
  <2>4. QED
    BY <1>3, <2>2, <2>3 DEF UploadStep, StartUpload, UploadProgress, PutDataDone,
                            UploadFails, attempt
<1>4. ASSUME NEW a \in Attempt, ServerDecides(a) PROVE [Atomic!Next]_(Atomic!vars)
  <2>1. UNCHANGED <<datas, doc, stage>> /\ write[a] = "queued"
    BY <1>4 DEF ServerDecides
  <2>2. PICK v \in {"committed", "rejected"} : write' = [write EXCEPT ![a] = v]
    BY <1>4 DEF ServerDecides
  <2>3. CASE v = "rejected"
    <3>1. Published' = Published
      BY <2>1, <2>2, <2>3 DEF Published, IInv, TypeOK
    <3>2. QED
      BY <2>1, <3>1 DEF Atomic!vars
  <2>4. CASE v = "committed"
    <3>1. doc[a].imageList \in Atomic!Orders(datas[a])
      BY <2>1 DEF IInv, PublishedComplete
    <3>2. datas[a] > 0
      BY <2>1 DEF IInv, TypeOK, StageInv
    <3>3. Published[a] = <<>> /\ Published' = [Published EXCEPT ![a] = doc[a].imageList]
      BY <2>1, <2>2, <2>4 DEF Published, IInv, TypeOK
    <3>4. Atomic!Publish(a)
      BY <2>1, <3>1, <3>2, <3>3 DEF Atomic!Publish
    <3>5. QED
      BY <3>4 DEF Atomic!Next
  <2>5. QED
    BY <2>3, <2>4
<1>5. ASSUME NEW a \in Attempt, PostAcknowledged(a) PROVE UNCHANGED Atomic!vars
  BY <1>5, PublishedFrame DEF PostAcknowledged, Atomic!vars
<1>6. QED
  BY <1>1, <1>2, <1>3, <1>4, <1>5 DEF Next, FormStep

(* The timers, the semaphore and the remote answers implement the atomic    *)
(* publication of AtomicPublish.                                            *)
THEOREM Refinement == Spec => ImplementsAtomicPublish
<1>1. Init => Atomic!Init
  BY DEF Init, Atomic!Init, Published
<1>2. QED
  BY <1>1, RefinesStep, Invariance, PTL DEF Spec, Atomic!Spec, ImplementsAtomicPublish
=============================================================================
