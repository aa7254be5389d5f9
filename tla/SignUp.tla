------------------------------- MODULE SignUp -------------------------------
(***************************************************************************)
(* The documents of one account: status, task-user (a profile that is not  *)
(* complete) and user (a complete one).  RegisterController creates the    *)
(* first two, LoginController and RegisterController do so for Google      *)
(* accounts, CompleteSignUpVC turns task-user into user, and SplashScreen  *)
(* decides from status where a start of the app leads.                     *)
(*                                                                         *)
(* Every step is a remote call whose answer starts the next one: place     *)
(* says which answer a device waits for.  Writes go through Firestore's    *)
(* queue (see WriteQueue): persistent, applied and answered in order, and  *)
(* served while the account is signed in.  A document is the set of its    *)
(* fields that are filled in; {} is a document that does not exist.        *)
(***************************************************************************)
EXTENDS Naturals, Sequences, FiniteSets

CONSTANTS Device,
          MaxFaults      \* bound: how often something goes wrong, see faults

ASSUME SignUpAssumption == MaxFaults \in Nat

VARIABLES
  account,    \* how the account was created: "none", "mail" or "google"
  docs,       \* the documents at the server
  auth,       \* auth[d]: the account is signed in on device d; persistent
  place,      \* place[d]: the screen of d, or the answer its screen waits for
  profile,    \* profile[d]: the task-user document the completion holds
  queue,      \* queue[d]: writes that are not answered; persistent
  answers,    \* answers[d]: the server's verdicts on a prefix of the queue
  crashes,    \* how often the app died and was started again
  breaks,     \* how often the connection broke
  refusals,   \* writes the server refused
  errors,     \* queries and uploads that failed
  raced       \* history: two devices were at work at the same time

device == <<auth, place, profile>>
faults == <<crashes, breaks, refusals, errors>>
MayFail == crashes + breaks + refusals + errors < MaxFaults
vars   == <<account, docs, device, queue, answers, faults, raced>>

Doc == {"status", "task-user", "user"}
Field == {"false", "true", "mail", "name", "picture"}
Docs == [Doc -> SUBSET Field]

Resting  == {"login", "feed", "stuck"}
Waiting  == {"askStatus", "askTask", "askUser", "created", "checkUser", "checkTask", "rereading",
             "uploading", "thumb"}
Writing  == {"registerTask", "registerStatus", "googleStatus", "googleTask", "picture",
             "thumbWritten", "named", "finishing", "deleting", "saving"}
Place == Resting \cup Waiting \cup Writing \cup {"form"}

Write == [op : {"set", "merge", "delete"}, doc : Doc, fields : SUBSET Field, heard : BOOLEAN]

Apply(ds, w) ==
  [ds EXCEPT ![w.doc] = IF w.op = "merge" THEN @ \cup w.fields ELSE w.fields]

(* What a query on d finds: the server's documents under the queued writes. *)
View(d) ==
  LET after[n \in 0..Len(queue[d])] ==
        IF n = 0 THEN docs ELSE Apply(after[n - 1], queue[d][n])
  IN after[Len(queue[d])]

Busy(d) == place[d] \notin Resting \/ queue[d] # <<>>

Init ==
  /\ account = "none"
  /\ docs = [x \in Doc |-> {}]
  /\ auth = [d \in Device |-> FALSE]
  /\ place = [d \in Device |-> "login"]
  /\ profile = [d \in Device |-> {}]
  /\ queue = [d \in Device |-> <<>>]
  /\ answers = [d \in Device |-> <<>>]
  /\ crashes = 0 /\ breaks = 0 /\ refusals = 0 /\ errors = 0
  /\ raced = FALSE

-----------------------------------------------------------------------------
(* Steps of a screen *)

Go(d, p) == place' = [place EXCEPT ![d] = p]

(* Write, and wait for the answer. *)
Enqueue(d, op, doc, fields) ==
  queue' = [queue EXCEPT ![d] =
              Append(@, [op |-> op, doc |-> doc, fields |-> fields, heard |-> TRUE])]

(* A step that only leads to another screen or query. *)
Moves(d, p) == Go(d, p) /\ UNCHANGED <<account, docs, auth, profile, queue>>

(* The query fails. *)
Fails(d, p) ==
  /\ MayFail
  /\ errors' = errors + 1
  /\ Moves(d, p)

-----------------------------------------------------------------------------
(* Registering and signing in *)

(* createUser; the answer may never be seen. *)
Register(d) ==
  /\ place[d] = "login" /\ account = "none"
  /\ account' = "mail"
  /\ Go(d, "created")
  /\ UNCHANGED <<docs, auth, profile, queue, answers, faults>>

Created(d) ==
  /\ place[d] = "created"
  /\ auth' = [auth EXCEPT ![d] = TRUE]
  /\ Enqueue(d, "merge", "task-user", {"mail"})
  /\ Go(d, "registerTask")
  /\ UNCHANGED <<account, docs, profile, answers, faults>>

SignInMail(d) ==
  /\ place[d] = "login" /\ account = "mail"
  /\ auth' = [auth EXCEPT ![d] = TRUE]
  /\ Go(d, "askStatus")
  /\ UNCHANGED <<account, docs, profile, queue, answers, faults>>

SignInGoogle(d) ==
  /\ place[d] = "login" /\ account # "mail"
  /\ account' = "google"
  /\ auth' = [auth EXCEPT ![d] = TRUE]
  /\ Go(d, "checkUser")
  /\ UNCHANGED <<docs, profile, queue, answers, faults>>

(* Slip: only an unfinished account is looked for. *)
CheckUserSkipped(d) ==
  /\ place[d] = "checkUser"
  /\ Moves(d, "checkTask")
  /\ UNCHANGED <<answers, faults>>

(* checkUserAlreadyHaveAnAccount: an error counts as "no". *)
CheckUser(d) ==
  /\ place[d] = "checkUser"
  /\ \/ Moves(d, IF View(d)["user"] # {} THEN "askStatus" ELSE "checkTask") /\ UNCHANGED errors
     \/ Fails(d, "checkTask")
  /\ UNCHANGED <<answers, crashes, breaks, refusals>>

(* Slip: a Google account gets no status. *)
StartGoogleNoStatus(d) ==
  /\ Enqueue(d, "merge", "task-user", {"mail", "name", "picture"})
  /\ Go(d, "googleTask")
  /\ UNCHANGED <<account, docs, auth, profile>>

(* setGoogleSingUpTaskUser begins with the status. *)
StartGoogle(d) ==
  /\ Enqueue(d, "set", "status", {"false"})
  /\ Go(d, "googleStatus")
  /\ UNCHANGED <<account, docs, auth, profile>>

(* checkTaskUser: an error counts as "no" again. *)
CheckTask(d) ==
  /\ place[d] = "checkTask"
  /\ \/ View(d)["task-user"] # {} /\ Moves(d, "askStatus") /\ UNCHANGED errors
     \/ View(d)["task-user"] = {} /\ StartGoogle(d) /\ UNCHANGED errors
     \/ MayFail /\ errors' = errors + 1 /\ StartGoogle(d)
  /\ UNCHANGED <<answers, crashes, breaks, refusals>>

-----------------------------------------------------------------------------
(* SplashScreen *)

(* What is wrong with the status is seen as a missing sign-in; a status     *)
(* that does not exist leads nowhere.                                       *)
AskStatus(d) ==
  /\ place[d] = "askStatus"
  /\ \/ /\ Moves(d, CASE ~auth[d]                         -> "login"
                      [] auth[d] /\ View(d)["status"] = {} -> "stuck"
                      [] auth[d] /\ View(d)["status"] = {"true"}  -> "askUser"
                      [] auth[d] /\ View(d)["status"] = {"false"} -> "askTask")
        /\ UNCHANGED errors
     \/ auth[d] /\ Fails(d, "login")
  /\ UNCHANGED <<answers, crashes, breaks, refusals>>

(* getCurrentUser and getTaskUser call nobody when there is no document,    *)
(* and an error is passed on as a missing user, which leads nowhere either. *)
AskUser(d) ==
  /\ place[d] = "askUser"
  /\ \/ Moves(d, IF View(d)["user"] # {} THEN "feed" ELSE "stuck") /\ UNCHANGED errors
     \/ Fails(d, "stuck")
  /\ UNCHANGED <<answers, crashes, breaks, refusals>>

AskTask(d) ==
  /\ place[d] = "askTask"
  /\ \/ Moves(d, IF View(d)["task-user"] # {} THEN "form" ELSE "stuck") /\ UNCHANGED errors
     \/ Fails(d, "stuck")
  /\ UNCHANGED <<answers, crashes, breaks, refusals>>

SignOut(d) ==
  /\ place[d] = "feed"
  /\ auth' = [auth EXCEPT ![d] = FALSE]
  /\ Go(d, "askStatus")
  /\ answers' = [answers EXCEPT ![d] = <<>>]
  /\ UNCHANGED <<account, docs, profile, queue, faults>>

-----------------------------------------------------------------------------
(* CompleteSignUpVC *)

(* The button, without a new picture. *)
FillIn(d) ==
  /\ place[d] = "form"
  /\ Enqueue(d, "merge", "task-user", {"name"})
  /\ Go(d, "named")
  /\ UNCHANGED <<account, docs, auth, profile, answers, faults>>

(* The button, with a picture: uploadTaskUserProfileImage. *)
FillInPicture(d) ==
  /\ place[d] = "form"
  /\ Moves(d, "uploading")
  /\ UNCHANGED <<answers, faults>>

(* A failed upload returns to the form; one without a URL keeps the HUD up. *)
Uploaded(d) ==
  /\ place[d] = "uploading"
  /\ \/ /\ Enqueue(d, "merge", "task-user", {"picture"})
        /\ Go(d, "picture")
        /\ UNCHANGED <<account, docs, auth, profile, errors>>
     \/ Fails(d, "form")
     \/ Fails(d, "stuck")
  /\ UNCHANGED <<answers, crashes, breaks, refusals>>

(* getTaskUserThumbUrl; the thumbnail's URL is not told from the picture's. *)
(* When the upload fails the URL is asked for all the same, and that of an  *)
(* earlier thumbnail may be found.                                          *)
ThumbUploaded(d) ==
  /\ place[d] = "thumb"
  /\ \/ /\ errors' \in IF MayFail THEN {errors, errors + 1} ELSE {errors}
        /\ Enqueue(d, "merge", "task-user", {"picture"})
        /\ Go(d, "thumbWritten")
        /\ UNCHANGED <<account, docs, auth, profile>>
     \/ Fails(d, "stuck")
  /\ UNCHANGED <<answers, crashes, breaks, refusals>>

(* Slip: the document is not deleted. *)
RereadKeeps(d) ==
  /\ place[d] = "rereading"
  /\ View(d)["task-user"] # {}
  /\ profile' = [profile EXCEPT ![d] = View(d)["task-user"]]
  /\ Enqueue(d, "set", "user", profile'[d])
  /\ Go(d, "saving")
  /\ UNCHANGED <<account, docs, auth, answers, faults>>

(* The document is read once more, and deleted. *)
Reread(d) ==
  /\ place[d] = "rereading"
  /\ \/ /\ View(d)["task-user"] # {}
        /\ profile' = [profile EXCEPT ![d] = View(d)["task-user"]]
        /\ Enqueue(d, "delete", "task-user", {})
        /\ Go(d, "deleting")
        /\ UNCHANGED <<account, docs, auth, errors>>
     \/ View(d)["task-user"] = {} /\ Moves(d, "stuck") /\ UNCHANGED errors
     \/ Fails(d, "stuck")
  /\ UNCHANGED <<answers, crashes, breaks, refusals>>

-----------------------------------------------------------------------------
(* The answer to a write, by the place that waits for it: the next place,   *)
(* and the write it begins with, if any.                                    *)

(* The completions of the profile's own writes ignore the error; those of   *)
(* registering show it and stay; those of Google and of the picture stop.   *)
NextStep(d, p, ok) ==
  CASE p \in {"registerTask", "registerStatus"} /\ ~ok -> [to |-> "login", write |-> <<>>]
    [] p = "registerTask" /\ ok -> [to |-> "registerStatus", write |-> <<"set", "status", {"false"}>>]
    [] p \in {"googleStatus", "googleTask", "picture"} /\ ~ok -> [to |-> "stuck", write |-> <<>>]
    [] p = "googleStatus" /\ ok ->
         [to |-> "googleTask", write |-> <<"merge", "task-user", {"mail", "name", "picture"}>>]
    [] p = "picture" /\ ok   -> [to |-> "thumb", write |-> <<>>]
    [] p = "thumbWritten"    -> [to |-> "named", write |-> <<"merge", "task-user", {"name"}>>]
    [] p = "named"           -> [to |-> "finishing", write |-> <<"set", "status", {"true"}>>]
    [] p = "finishing"       -> [to |-> "rereading", write |-> <<>>]
    [] p = "deleting"        -> [to |-> "saving", write |-> <<"set", "user", profile[d]>>]
    [] OTHER                 -> [to |-> "askStatus", write |-> <<>>]

(* The first write of the queue is settled. *)
Settle(d, ok) ==
  LET step == NextStep(d, place[d], ok) IN
  /\ IF Head(queue[d]).heard
       THEN /\ Go(d, step.to)
            /\ queue' = [queue EXCEPT ![d] =
                 IF step.write = <<>> THEN Tail(@)
                 ELSE Append(Tail(@), [op |-> step.write[1], doc |-> step.write[2],
                                       fields |-> step.write[3], heard |-> TRUE])]
       ELSE /\ UNCHANGED place
            /\ queue' = [queue EXCEPT ![d] = Tail(@)]
  /\ UNCHANGED <<account, docs, auth, profile, faults>>

-----------------------------------------------------------------------------
(* Firestore *)

Refusing(d) == \E i \in DOMAIN answers[d] : ~answers[d][i]
CanAnswer(d) == auth[d] /\ ~Refusing(d) /\ Len(answers[d]) < Len(queue[d])
NextWrite(d) == queue[d][Len(answers[d]) + 1]

Commit(d) ==
  /\ CanAnswer(d)
  /\ docs' = Apply(docs, NextWrite(d))
  /\ answers' = [answers EXCEPT ![d] = Append(@, TRUE)]
  /\ UNCHANGED <<account, device, queue, faults>>

Refuse(d) ==
  /\ CanAnswer(d)
  /\ MayFail
  /\ refusals' = refusals + 1
  /\ answers' = [answers EXCEPT ![d] = Append(@, FALSE)]
  /\ UNCHANGED <<account, docs, device, queue, crashes, breaks, errors>>

Acknowledge(d) ==
  /\ answers[d] # <<>> /\ Head(answers[d])
  /\ answers' = [answers EXCEPT ![d] = Tail(@)]
  /\ Settle(d, TRUE)

Reject(d) ==
  /\ Refusing(d)
  /\ answers' = [answers EXCEPT ![d] = <<>>]
  /\ Settle(d, FALSE)

Break(d) ==
  /\ MayFail
  /\ breaks' = breaks + 1
  /\ answers' = [answers EXCEPT ![d] = <<>>]
  /\ UNCHANGED <<account, docs, device, queue, crashes, refusals, errors>>

(* The app dies and is started again. *)
Crash(d) ==
  /\ MayFail
  /\ crashes' = crashes + 1
  /\ Go(d, "askStatus")
  /\ profile' = [profile EXCEPT ![d] = {}]
  /\ queue' = [queue EXCEPT ![d] = [i \in DOMAIN @ |-> [@[i] EXCEPT !.heard = FALSE]]]
  /\ answers' = [answers EXCEPT ![d] = <<>>]
  /\ UNCHANGED <<account, docs, auth, breaks, refusals, errors>>

-----------------------------------------------------------------------------
(* Two devices are at work: the chains of writes are not made for that, and  *)
(* such a history is not followed any further.                              *)
Race == ~raced /\ raced' = (\E d, e \in Device : d # e /\ Busy(d)' /\ Busy(e)')

App(d) ==
  /\ \/ Created(d) \/ CheckUser(d) \/ CheckTask(d)
     \/ AskStatus(d) \/ AskUser(d) \/ AskTask(d)
     \/ Uploaded(d) \/ ThumbUploaded(d) \/ Reread(d)
  /\ Race

Owner(d) == (Register(d) \/ SignInMail(d) \/ SignInGoogle(d) \/ SignOut(d)) /\ Race

Completes(d) == (FillIn(d) \/ FillInPicture(d)) /\ Race

Server(d) == (Commit(d) \/ Acknowledge(d) \/ Reject(d)) /\ Race

Faults(d) == (Refuse(d) \/ Break(d) \/ Crash(d)) /\ Race

Next == \E d \in Device : Owner(d) \/ Completes(d) \/ App(d) \/ Server(d) \/ Faults(d)

Spec == Init /\ [][Next]_vars

(* Queries and writes are answered, and who is shown the form fills it in. *)
FairSpec ==
  Spec /\ \A d \in Device : WF_vars(App(d)) /\ WF_vars(Completes(d)) /\ WF_vars(Server(d))

-----------------------------------------------------------------------------
(* Properties *)

(* Type correctness: a screen that waits for a write has it at the end of   *)
(* its queue, and it is the only write with a completion.                   *)
TypeOK ==
  /\ account \in {"none", "mail", "google"}
  /\ docs \in Docs
  /\ auth \in [Device -> BOOLEAN]
  /\ place \in [Device -> Place]
  /\ profile \in [Device -> SUBSET Field]
  /\ queue \in [Device -> Seq(Write)]
  /\ answers \in [Device -> Seq(BOOLEAN)]
  /\ \A d \in Device :
       /\ Len(answers[d]) <= Len(queue[d])
       /\ \A i \in DOMAIN queue[d] :
            queue[d][i].heard <=> i = Len(queue[d]) /\ place[d] \in Writing
       /\ place[d] \in Writing => queue[d] # <<>>
  /\ crashes \in Nat /\ breaks \in Nat /\ refusals \in Nat /\ errors \in Nat
  /\ raced \in BOOLEAN

(* A crash in the middle of registering or completing may strand an         *)
(* account, but never one that has its user document: that is the last      *)
(* write of the chain, so status is true and task-user is gone.             *)
FinishedIsWhole ==
  docs["user"] # {} /\ ~raced /\ refusals + errors = 0 =>
    docs["status"] = {"true"} /\ docs["task-user"] = {}

(* The user document is copied from task-user, which is merged from several *)
(* writes: it has the address the account began with, whatever fails,       *)
(* except that the first write may be refused after a crash, when the form  *)
(* is open because the write was pending.                                   *)
MailKept ==
  docs["user"] # {} /\ ~raced /\ (crashes = 0 \/ refusals = 0) => "mail" \in docs["user"]

(* What the three documents and the screens of both devices say together. *)
AccountInv == TypeOK /\ FinishedIsWhole /\ MailKept

Finished == docs["user"] # {} /\ docs["status"] = {"true"}

(* A finished account stays finished, whoever signs in again and whatever   *)
(* is sent again; only a query that fails, which counts as "no account", or *)
(* a second device at work may send it back.                                *)
FinishedStaysFinished == [][Finished /\ errors' = 0 /\ ~raced' => Finished']_vars

(* Who is signed in gets to the feed, unless something failed.              *)
SignedInReachesFeed ==
  \A d \in Device :
    auth[d] ~> (place[d] = "feed" \/ raced \/ crashes + refusals + errors > 0)
=============================================================================
