---------------------------- MODULE PublishPost ----------------------------
(***************************************************************************)
(* Publishing a car: NewPostController.postIt hands the chosen pictures to *)
(* UploadSerivce.saveToStorageDatas, which uploads them one at a time      *)
(* behind a semaphore, and writes the feed document once every picture has *)
(* a URL.  Each remote answer is an action of its own.                     *)
(*                                                                         *)
(* One instance of the form screen is modelled, from the moment it is      *)
(* pushed.  A picture is its position in imageList, so imageList is its    *)
(* length; the other fields of the form are a member of Draft.             *)
(***************************************************************************)
EXTENDS Naturals, Sequences

CONSTANTS Attempt,        \* accepted taps on the Post button
          Draft,          \* contents of the form's fields
          CompleteDraft,  \* those that pass the guards of postIt
          MaxImages       \* bound on the length of imageList

ASSUME PublishAssumption == CompleteDraft \subseteq Draft /\ MaxImages \in Nat

VARIABLES
  running,       \* the app process is alive
  screen,        \* "form", "picker" (LocationPicker pushed over it) or "gone"
  draft,         \* the form's fields
  imageList,     \* how many pictures the form holds
  resolving,     \* pictures picked in the gallery and not yet resolved
  hud,           \* SVProgressHUD: "off", "busy" or "message"
  masking,       \* some waitProgress has made the HUD mask all input
  lateDismiss,   \* some dismiss(withDelay: 500) has not fired yet
  stage,         \* how far each attempt is
  datas,         \* how many pictures each attempt took
  tapped,        \* the fields each attempt captured when Post was tapped
  semaphore,     \* the DispatchSemaphore of each attempt
  job,           \* job[a][i]: the upload of picture i
  uploadCount,   \* pictures uploaded
  urls,          \* uploadedImageUrlsArray, in the order of completion
  doc,           \* the feed document handed to setNewPost
  write,         \* what became of that write on the server
  calm           \* history: nothing else was going on when Post was tapped

form    == <<screen, draft, imageList, resolving>>
overlay == <<hud, masking, lateDismiss>>
upload  == <<semaphore, job, uploadCount, urls>>
attempt == <<stage, datas, tapped, doc, write, calm>>
vars    == <<running, form, overlay, upload, attempt>>

Slot == 1..MaxImages
NoDoc == [tapped |-> "none", live |-> "none", imageList |-> <<>>]

Init ==
  /\ running = TRUE
  /\ screen = "form"
  /\ draft \in Draft \ CompleteDraft
  /\ imageList = 0
  /\ resolving = 0
  /\ hud = "off"
  /\ masking \in BOOLEAN
  /\ lateDismiss \in BOOLEAN
  /\ stage = [a \in Attempt |-> "idle"]
  /\ datas = [a \in Attempt |-> 0]
  /\ tapped = [a \in Attempt |-> "none"]
  /\ semaphore = [a \in Attempt |-> 1]
  /\ job = [a \in Attempt |-> [i \in Slot |-> "none"]]
  /\ uploadCount = [a \in Attempt |-> 0]
  /\ urls = [a \in Attempt |-> <<>>]
  /\ doc = [a \in Attempt |-> NoDoc]
  /\ write = [a \in Attempt |-> "none"]
  /\ calm = [a \in Attempt |-> FALSE]

-----------------------------------------------------------------------------
(* The progress HUD *)

(* Utils.succesProgress and errorProgress show a message that fades after a *)
(* few seconds and schedule a dismissal 500 seconds later that nothing      *)
(* cancels.                                                                 *)
ShowMessage == hud' = "message" /\ lateDismiss' = TRUE

MessageFades ==
  /\ running /\ hud = "message"
  /\ hud' = "off"
  /\ UNCHANGED <<running, form, masking, lateDismiss, upload, attempt>>

(* The dismissal closes whatever HUD is up by then; others may be pending.  *)
LateDismiss ==
  /\ running /\ lateDismiss
  /\ hud' = "off"
  /\ lateDismiss' \in BOOLEAN
  /\ UNCHANGED <<running, form, masking, upload, attempt>>

(* Utils.waitProgress; the mask type it sets stays set. *)
ShowBusy == hud' = "busy" /\ masking' = TRUE

(* A visible HUD lets touches through only until then. *)
Unmasked == hud = "off" \/ ~masking
UserCanAct == running /\ screen = "form" /\ Unmasked

-----------------------------------------------------------------------------
(* Filling the form *)

EditForm ==
  /\ UserCanAct
  /\ draft' \in Draft \ {draft}
  /\ UNCHANGED <<running, screen, imageList, resolving, overlay, upload, attempt>>

(* _addLocaiton pushes the picker, which hands a location back or not. *)
OpenPicker ==
  /\ UserCanAct
  /\ screen' = "picker"
  /\ UNCHANGED <<running, draft, imageList, resolving, overlay, upload, attempt>>

ClosePicker ==
  /\ running /\ screen = "picker" /\ Unmasked
  /\ screen' = "form"
  /\ draft' \in Draft
  /\ UNCHANGED <<running, imageList, resolving, overlay, upload, attempt>>

Leave ==
  /\ UserCanAct
  /\ screen' = "gone"
  /\ UNCHANGED <<running, draft, imageList, resolving, overlay, upload, attempt>>

(* galleryController(_:didSelectImages:) raises the HUD and resolves each picture. *)
DidSelectImages ==
  /\ UserCanAct
  /\ \E n \in Slot : /\ imageList + resolving + n <= MaxImages
                     /\ resolving' = resolving + n
  /\ ShowBusy
  /\ UNCHANGED <<running, screen, draft, imageList, lateDismiss, upload, attempt>>

(* One picture resolves: every one that can be encoded closes the HUD. *)
ResolveImage ==
  /\ running /\ resolving > 0
  /\ resolving' = resolving - 1
  /\ \/ imageList' = imageList + 1 /\ hud' = "off"
     \/ UNCHANGED <<imageList, hud>>             \* jpegData is nil
  /\ UNCHANGED <<running, screen, draft, masking, lateDismiss, upload, attempt>>

(* The user or the system kills the app, or img! unwraps a picture the      *)
(* gallery could not resolve.                                               *)
AppStops ==
  /\ running
  /\ running' = FALSE
  /\ UNCHANGED <<form, overlay, upload, attempt>>

-----------------------------------------------------------------------------
(* Tapping Post *)

MayPost == draft \in CompleteDraft /\ imageList > 0

RefusePost ==
  /\ UserCanAct
  /\ ~MayPost
  /\ ShowMessage
  /\ UNCHANGED <<running, form, masking, upload, attempt>>

InFlight(a) == stage[a] \in {"uploading", "writing"}

(* Slip: the HUD goes up only with the first progress event. *)
AnnounceUploadLate == UNCHANGED <<hud, masking>>

(* Utils.waitProgress for each picture, before the first timer fires. *)
AnnounceUpload == ShowBusy

PostIt(a) ==
  /\ UserCanAct
  /\ stage[a] = "idle"
  /\ MayPost
  /\ stage' = [stage EXCEPT ![a] = "uploading"]
  /\ datas' = [datas EXCEPT ![a] = imageList]
  /\ tapped' = [tapped EXCEPT ![a] = draft]
  /\ calm' = [calm EXCEPT ![a] = /\ resolving = 0
                                 /\ ~lateDismiss
                                 /\ \A b \in Attempt : ~InFlight(b)]
  /\ job' = [job EXCEPT ![a] = [i \in Slot |-> IF i <= imageList THEN "timer" ELSE "none"]]
  /\ AnnounceUpload
  /\ UNCHANGED <<running, form, lateDismiss, semaphore, uploadCount, urls, doc, write>>

-----------------------------------------------------------------------------
(* Uploading: saveToStorageDatas and uploadDataBase *)

(* A timer has fired on the concurrent queue and semaphore.wait returned. *)
StartUpload(a, i) ==
  /\ running
  /\ job[a][i] = "timer"
  /\ semaphore[a] > 0
  /\ semaphore' = [semaphore EXCEPT ![a] = @ - 1]
  /\ job' = [job EXCEPT ![a][i] = "putData"]
  /\ UNCHANGED <<running, form, overlay, uploadCount, urls, attempt>>

(* uploadFiles: each progress event shows the HUD again. *)
UploadProgress(a, i) ==
  /\ running
  /\ job[a][i] = "putData"
  /\ hud' = "busy"
  /\ UNCHANGED <<running, form, masking, lateDismiss, upload, attempt>>

(* Slip: the semaphore is released as soon as the bytes are stored. *)
PutDataDoneSignals(a, i) ==
  /\ running
  /\ job[a][i] = "putData"
  /\ job' = [job EXCEPT ![a][i] = "downloadURL"]
  /\ semaphore' = [semaphore EXCEPT ![a] = @ + 1]
  /\ UNCHANGED <<running, form, overlay, uploadCount, urls, attempt>>

PutDataDone(a, i) ==
  /\ running
  /\ job[a][i] = "putData"
  /\ job' = [job EXCEPT ![a][i] = "downloadURL"]
  /\ UNCHANGED <<running, form, overlay, semaphore, uploadCount, urls, attempt>>

(* An error of putData or downloadURL is printed; completion is not called, *)
(* so the semaphore is not signalled.                                       *)
UploadFails(a, i) ==
  /\ running
  /\ job[a][i] \in {"putData", "downloadURL"}
  /\ job' = [job EXCEPT ![a][i] = "failed"]
  /\ UNCHANGED <<running, form, overlay, semaphore, uploadCount, urls, attempt>>

(* What may still hold a strong reference to the form screen: the           *)
(* navigation stack, a picture being resolved, a document being written.    *)
ScreenAlive ==
  \/ screen # "gone"
  \/ resolving > 0
  \/ \E b \in Attempt : stage[b] = "writing"

(* Slip: the comparison is made against the count of the picture before.    *)
AllUploadedEarly(a) == uploadCount[a] + 2 >= datas[a]

AllUploaded(a) == uploadCount[a] + 1 = datas[a]

(* Slip: only the branch of the last picture signals. *)
SignalAtEnd(a) == semaphore' = [semaphore EXCEPT ![a] = IF AllUploaded(a) THEN @ + 1 ELSE @]

(* Both branches of the completion signal. *)
Signal(a) == semaphore' = [semaphore EXCEPT ![a] = @ + 1]

(* The completion of postIt: the fields captured at the tap, the rest of    *)
(* the form as it is now, and the URLs in the order they arrived.           *)
WriteDocument(a, list) ==
  IF ScreenAlive
  THEN /\ stage' = [stage EXCEPT ![a] = "writing"]
       /\ write' = [write EXCEPT ![a] = "queued"]
       /\ doc' = [doc EXCEPT ![a] = [tapped |-> tapped[a], live |-> draft, imageList |-> list]]
  ELSE /\ stage' = [stage EXCEPT ![a] = "dropped"]
       /\ UNCHANGED <<write, doc>>

DownloadURLDone(a, i) ==
  /\ running
  /\ job[a][i] = "downloadURL"
  /\ job' = [job EXCEPT ![a][i] = "done"]
  /\ urls' = [urls EXCEPT ![a] = Append(@, i)]
  /\ uploadCount' = [uploadCount EXCEPT ![a] = @ + 1]
  /\ Signal(a)
  /\ masking' = TRUE
  /\ IF AllUploaded(a)
     THEN ShowMessage /\ WriteDocument(a, Append(urls[a], i))
     ELSE ShowBusy /\ UNCHANGED <<lateDismiss, stage, write, doc>>
  /\ UNCHANGED <<running, form, datas, tapped, calm>>

-----------------------------------------------------------------------------
(* Writing the feed document: setNewPost *)

(* The server's verdict on a queued write; the queue outlives the process. *)
ServerDecides(a) ==
  /\ write[a] = "queued"
  /\ \E verdict \in {"committed", "rejected"} : write' = [write EXCEPT ![a] = verdict]
  /\ UNCHANGED <<running, form, overlay, upload, stage, datas, tapped, doc, calm>>

(* popViewController takes away the top screen. *)
Popped == CASE screen = "picker" -> "form" [] OTHER -> "gone"

PostAcknowledged(a) ==
  /\ running
  /\ stage[a] = "writing"
  /\ write[a] # "queued"
  /\ ShowMessage
  /\ IF write[a] = "committed"
     THEN stage' = [stage EXCEPT ![a] = "posted"] /\ screen' = Popped
     ELSE stage' = [stage EXCEPT ![a] = "refused"] /\ UNCHANGED screen
  /\ UNCHANGED <<running, draft, imageList, resolving, masking, upload,
                 datas, tapped, doc, write, calm>>

-----------------------------------------------------------------------------
UploadStep(a, i) ==
  \/ StartUpload(a, i)
  \/ UploadProgress(a, i)
  \/ PutDataDone(a, i)
  \/ UploadFails(a, i)
  \/ DownloadURLDone(a, i)

Next ==
  \/ MessageFades \/ LateDismiss
  \/ EditForm \/ OpenPicker \/ ClosePicker \/ Leave
  \/ DidSelectImages \/ ResolveImage
  \/ AppStops
  \/ RefusePost
  \/ \E a \in Attempt :
        \/ PostIt(a)
        \/ \E i \in Slot : UploadStep(a, i)
        \/ ServerDecides(a)
        \/ PostAcknowledged(a)

Spec == Init /\ [][Next]_vars

(* Timers fire, a waiting closure gets a free semaphore, and Firebase       *)
(* answers every call in the end, with success or failure.                  *)
Fairness ==
  \A a \in Attempt :
    /\ WF_vars(\E i \in Slot : StartUpload(a, i))
    /\ WF_vars(\E i \in Slot : PutDataDone(a, i) \/ UploadFails(a, i) \/ DownloadURLDone(a, i))
    /\ WF_vars(ServerDecides(a))
    /\ WF_vars(PostAcknowledged(a))

FairSpec == Spec /\ Fairness

-----------------------------------------------------------------------------
JobState == {"none", "timer", "putData", "downloadURL", "done", "failed"}

TypeOK ==
  /\ running \in BOOLEAN
  /\ screen \in {"form", "picker", "gone"}
  /\ draft \in Draft
  /\ imageList \in 0..MaxImages
  /\ resolving \in 0..MaxImages
  /\ hud \in {"off", "busy", "message"}
  /\ masking \in BOOLEAN
  /\ lateDismiss \in BOOLEAN
  /\ stage \in [Attempt -> {"idle", "uploading", "writing", "posted", "refused", "dropped"}]
  /\ datas \in [Attempt -> 0..MaxImages]
  /\ tapped \in [Attempt -> Draft \cup {"none"}]
  /\ semaphore \in [Attempt -> 0..1]
  /\ job \in [Attempt -> [Slot -> JobState]]
  /\ uploadCount \in [Attempt -> 0..MaxImages]
  /\ urls \in [Attempt -> Seq(Slot)]
  /\ doc \in [Attempt -> [tapped : Draft \cup {"none"},
                          live : Draft \cup {"none"}, imageList : Seq(Slot)]]
  /\ write \in [Attempt -> {"none", "queued", "committed", "rejected"}]
  /\ calm \in [Attempt -> BOOLEAN]
Published == [a \in Attempt |-> IF write[a] = "committed" THEN doc[a].imageList ELSE <<>>]
Atomic == INSTANCE AtomicPublish WITH chosen <- datas, feed <- Published

Uploading(a) == {i \in Slot : job[a][i] \in {"putData", "downloadURL"}}
Wedged(a) == \E i \in Slot : job[a][i] = "failed"

(* The semaphore of saveToStorageDatas: the closures run on a concurrent    *)
(* queue in any order, yet two pictures of one attempt are never in transit *)
(* together.                                                                *)
OneUploadAtATime ==
  \A a \in Attempt : \A i, j \in Uploading(a) : i = j

(* All or nothing: a document reaches setNewPost, and so the feed, only     *)
(* with every picture the tap took, each exactly once.                      *)
PublishedComplete ==
  \A a \in Attempt : write[a] # "none" => doc[a].imageList \in Atomic!Orders(datas[a])

(* An attempt one of whose uploads failed never writes a feed document,     *)
(* whichever of the other pictures got through before it.                   *)
FailureNeverPublishes ==
  \A a \in Attempt : Wedged(a) => write[a] = "none"

(* postIt reads half of the fields at the tap and half when the last URL    *)
(* arrives.  The two halves agree for a tap made while no picture was being *)
(* resolved, no HUD dismissal was outstanding and no attempt was running:   *)
(* the HUD then masks the form until the document is built.                 *)
CalmTapPostsWhatItShows ==
  \A a \in Attempt : calm[a] /\ write[a] # "none" => doc[a].live = doc[a].tapped

(* An accepted tap is answered (posted, refused by the server, or dropped   *)
(* with its screen) unless an upload failed or the app stopped: waiting for *)
(* the semaphore is never what blocks it.                                   *)
AttemptSettles ==
  \A a \in Attempt :
    InFlight(a) ~> \/ stage[a] \in {"posted", "refused", "dropped"}
                  \/ Wedged(a)
                  \/ ~running

(* The protocol implements the atomic publication of AtomicPublish.         *)
ImplementsAtomicPublish == Atomic!Spec
-----------------------------------------------------------------------------
(* The inductive invariant behind the properties above. *)

FormInv == imageList + resolving <= MaxImages

JobsFit == \A a \in Attempt, i \in Slot : job[a][i] # "none" <=> i <= datas[a]

(* Whoever got past semaphore.wait and has not signalled; a failed upload stays. *)
Holders(a) == {i \in Slot : job[a][i] \in {"putData", "downloadURL", "failed"}}

SemaphoreInv ==
  \A a \in Attempt : /\ \A i, j \in Holders(a) : i = j
                     /\ \A i \in Holders(a) : semaphore[a] = 0

UrlsInv ==
  \A a \in Attempt :
    /\ Len(urls[a]) = uploadCount[a]
    /\ \A k \in 1..uploadCount[a] : job[a][urls[a][k]] = "done"
    /\ \A j, k \in 1..uploadCount[a] : urls[a][j] = urls[a][k] => j = k

StageInv ==
  \A a \in Attempt :
    /\ stage[a] = "idle" => datas[a] = 0 /\ uploadCount[a] = 0
    /\ stage[a] = "uploading" => uploadCount[a] < datas[a]
    /\ stage[a] \in {"writing", "posted", "refused", "dropped"} =>
         datas[a] > 0 /\ \A i \in 1..datas[a] : job[a][i] = "done"
    /\ stage[a] \in {"idle", "uploading", "dropped"} => write[a] = "none"

CalmInv ==
  \A a \in Attempt : calm[a] =>
    /\ stage[a] = "uploading" => /\ hud = "busy" /\ masking /\ ~lateDismiss /\ resolving = 0
                                /\ draft = tapped[a]
                                /\ \A b \in Attempt \ {a} : ~InFlight(b)
    /\ write[a] # "none" => doc[a].live = doc[a].tapped

IInv == /\ TypeOK /\ FormInv /\ JobsFit /\ SemaphoreInv /\ UrlsInv
        /\ StageInv /\ PublishedComplete /\ CalmInv
=============================================================================
