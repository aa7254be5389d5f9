----------------------------- MODULE ImageSender -----------------------------
(***************************************************************************)
(* Sending pictures from a conversation, ConservationController.  Each     *)
(* picture of a selection is resolved, waits five seconds and then for the *)
(* semaphore of the screen, which lets one upload pass at a time; when its *)
(* URL is known the message is sent and the semaphore signalled.  A        *)
(* progress bar is shown from the selection until succesCount says that    *)
(* all is sent.  The closures keep the screen alive after it is left;      *)
(* libdispatch traps when a semaphore is freed below its initial value.    *)
(* What becomes of the message is Messaging's matter.                      *)
(***************************************************************************)
EXTENDS Naturals, FiniteSets

CONSTANTS MaxSelections,  \* bound: selections made on one screen
          MaxPictures,    \* bound: pictures of a selection
          MaxFailures     \* bound: uploads and URL queries that fail

ASSUME ImageSenderAssumption ==
  MaxSelections \in Nat /\ MaxPictures \in Nat /\ MaxFailures \in Nat

VARIABLES
  count,         \* count[s]: images.count of selection s
  stage,         \* stage[p]: how far the picture p = <<selection, index>> is
  semaphore,
  succesCount, progressBar,   \* progressBar: it is shown
  alive,         \* the screen is on, or some closure keeps it
  left,          \* the user has left the screen
  stopped,       \* the app has stopped: a picture could not be resolved, or a trap
  sent,          \* sent[p]: messages sent for p
  failures

senderVars == <<count, stage, semaphore, succesCount, progressBar, alive, left, stopped, sent, failures>>

Selection == 1..MaxSelections
Picture == Selection \X (1..MaxPictures)
Stages == {"none", "resolving", "delayed", "uploading", "asking", "sent", "skipped", "failed", "unlinked"}

Selected == {p \in Picture : stage[p] # "none"}
Made == {s \in Selection : count[s] > 0}

SenderInit ==
  /\ count = [s \in Selection |-> 0]
  /\ stage = [p \in Picture |-> "none"]
  /\ semaphore = 1
  /\ succesCount = 0 /\ progressBar = FALSE
  /\ alive = TRUE /\ left = FALSE /\ stopped = FALSE
  /\ sent = [p \in Picture |-> 0]
  /\ failures = 0

Move(p, to) == stage' = [stage EXCEPT ![p] = to]

(* The gallery closes with a selection. *)
DidSelectImages(n) ==
  /\ ~left
  /\ \E s \in Selection :
       /\ count[s] = 0 /\ \A r \in Selection : r < s => count[r] > 0
       /\ count' = [count EXCEPT ![s] = n]
       /\ stage' = [p \in Picture |-> IF p[1] = s /\ p[2] <= n THEN "resolving" ELSE stage[p]]
  /\ progressBar' = TRUE
  /\ UNCHANGED <<semaphore, succesCount, alive, left, stopped, sent, failures>>

(* The picture is resolved and uploadImage called, unless jpegData cannot    *)
(* encode it: nothing happens then.  One that is not there is unwrapped.     *)
Resolve(p) ==
  /\ stage[p] = "resolving"
  /\ \/ Move(p, "delayed") /\ UNCHANGED <<stopped, failures>>
     \/ Move(p, "skipped") /\ UNCHANGED <<stopped, failures>>
     \/ failures < MaxFailures /\ failures' = failures + 1 /\ stopped' = TRUE /\ UNCHANGED stage
  /\ UNCHANGED <<count, semaphore, succesCount, progressBar, alive, left, sent>>

(* The five seconds are over and the semaphore lets the closure pass. *)
StartUpload(p) ==
  /\ stage[p] = "delayed"
  /\ semaphore > 0
  /\ semaphore' = semaphore - 1
  /\ Move(p, "uploading")
  /\ UNCHANGED <<count, succesCount, progressBar, alive, left, stopped, sent, failures>>

(* Slip: the count is compared before it is raised. *)
CountSuccessLate(n) ==
  /\ succesCount' = IF n > 1 THEN succesCount + 1 ELSE succesCount
  /\ progressBar' = (progressBar /\ ~(n = 1 \/ succesCount = n))

(* The success observer of uploadFiles.  succesCount is never reset. *)
CountSuccess(n) ==
  /\ succesCount' = IF n > 1 THEN succesCount + 1 ELSE succesCount
  /\ progressBar' = (progressBar /\ ~(n = 1 \/ succesCount' = n))

(* The upload ends: the observer, then the completion, which asks for the URL. *)
PutDataDone(p) ==
  /\ stage[p] = "uploading"
  /\ CountSuccess(count[p[1]])
  /\ Move(p, "asking")
  /\ UNCHANGED <<count, semaphore, alive, left, stopped, sent, failures>>

(* The upload fails, or the query for the URL of what is uploaded: nobody    *)
(* signals.                                                                  *)
UploadFails(p) ==
  /\ stage[p] \in {"uploading", "asking"}
  /\ failures < MaxFailures
  /\ failures' = failures + 1
  /\ Move(p, IF stage[p] = "asking" THEN "unlinked" ELSE "failed")
  /\ UNCHANGED <<count, semaphore, succesCount, progressBar, alive, left, stopped, sent>>

(* Slip: the closure does not keep the screen, and does nothing without it. *)
DownloadURLDoneWeak(p) ==
  /\ stage[p] = "asking"
  /\ IF left THEN UNCHANGED <<sent, semaphore>>
     ELSE sent' = [sent EXCEPT ![p] = @ + 1] /\ semaphore' = semaphore + 1
  /\ Move(p, "sent")
  /\ UNCHANGED <<count, succesCount, progressBar, alive, left, stopped, failures>>

(* The URL is known: the message is sent, and the next upload may start. *)
DownloadURLDone(p) ==
  /\ stage[p] = "asking"
  /\ sent' = [sent EXCEPT ![p] = @ + 1]
  /\ semaphore' = semaphore + 1
  /\ Move(p, "sent")
  /\ UNCHANGED <<count, succesCount, progressBar, alive, left, stopped, failures>>

Leave ==
  /\ ~left
  /\ left' = TRUE
  /\ UNCHANGED <<count, stage, semaphore, succesCount, progressBar, alive, stopped, sent, failures>>

(* The last reference to the screen goes, and the semaphore with it. *)
Free ==
  /\ alive /\ left
  /\ \A p \in Picture : stage[p] \in {"none", "sent", "skipped", "failed", "unlinked"}
  /\ alive' = FALSE
  /\ stopped' = (semaphore < 1)
  /\ UNCHANGED <<count, stage, semaphore, succesCount, progressBar, left, sent, failures>>

Steps(p) == Resolve(p) \/ StartUpload(p) \/ PutDataDone(p) \/ DownloadURLDone(p)

SenderNext ==
  /\ ~stopped
  /\ \/ \E n \in 1..MaxPictures : DidSelectImages(n)
     \/ \E p \in Picture : Steps(p) \/ UploadFails(p)
     \/ Leave \/ Free

SenderSpec == SenderInit /\ [][SenderNext]_senderVars

(* Timers fire, remote calls are answered, and libdispatch wakes who waits. *)
FairSenderSpec == SenderSpec /\ \A p \in Picture : WF_senderVars(~stopped /\ Steps(p))

-----------------------------------------------------------------------------
(* Properties *)

Uploaded(s) == {p \in Picture : p[1] = s /\ stage[p] \in {"asking", "sent", "unlinked"}}

(* Type correctness; the semaphore counts the uploads under way and those    *)
(* that failed.                                                              *)
SenderTypeOK ==
  /\ count \in [Selection -> 0..MaxPictures]
  /\ stage \in [Picture -> Stages]
  /\ semaphore \in {0, 1}
  /\ semaphore + Cardinality({p \in Picture : stage[p] \in {"uploading", "asking", "failed", "unlinked"}}) = 1
  /\ succesCount \in Nat /\ failures \in Nat
  /\ progressBar \in BOOLEAN /\ alive \in BOOLEAN /\ left \in BOOLEAN /\ stopped \in BOOLEAN
  /\ sent \in [Picture -> 0..1]

(* After the first selection of a screen the bar is shown exactly while a    *)
(* picture of it is not uploaded yet, in whatever order they are: for ever   *)
(* if one is skipped, for images.count counts it too.  After a second        *)
(* selection succesCount, which is never reset, says nothing any more.       *)
BarTellsOfFirstSelection ==
  Made = {1} => progressBar = (Cardinality(Uploaded(1)) < count[1])

(* The app stops only after something failed: every upload that ends well    *)
(* gives back the semaphore before the screen is freed, also when it was     *)
(* left meanwhile.                                                           *)
StopsOnlyAfterFailure == stopped => failures > 0

(* The semaphore and those it counts. *)
SenderInv == SenderTypeOK /\ StopsOnlyAfterFailure

(* Every picture of every selection is sent, and the screen may be left.     *)
(* Excepted are one that jpegData cannot encode, which is skipped without a  *)
(* word, and what waits behind an upload that failed: that is for ever.      *)
AllSent ==
  \A p \in Picture :
    stage[p] # "none" ~> (sent[p] = 1 \/ stage[p] = "skipped" \/ failures > 0)
=============================================================================
