# Verification of the Cars app

`src/Cars/Cars` is an iOS app (about 8,200 lines of Swift) in which people
publish cars for sale and write to each other. It keeps its data in Firebase:
Authentication, Firestore and Storage; the feed is also copied to a local Realm
database. The Firestore client is in the repository too (`Pods/FirebaseFirestore`, C++), and
three of its parts carry the app's writes and listeners. This directory holds TLA+ models of the app's own logic, the TLC
configurations that check them, and proofs for the TLA+ proof system.

Paths of the app are relative to `src/Cars/Cars`, those of the Firestore client to
`src/Cars/Pods/FirebaseFirestore/Firestore/core/src`.

## 1. The system

| Component | State | Operations | Talks to |
| --- | --- | --- | --- |
| Publishing a car: `NewPostController.postIt`, `UploadSerivce`, `Utils` | the form, the chosen pictures, a semaphore, a counter and a list per attempt, the progress HUD | tap on Post, upload a picture, write the feed document | Storage, Firestore `feed-post`, the HUD it shares with every screen |
| Chat messages: `MessagesService`, `ConservationController.viewWillAppear`, `viewDidDisappear` | documents under `messages/u/p`, `user/u/msg-list/p`, `user/u/msg-list/p/badgeCount` | send, count unread, clear unread | Firestore; the other user's app |
| Messages on screen: `getAllMessages`, `loadBeforePage` | `messages`, `firstPage` | live window, pull down for older ones | Firestore |
| Picture messages: `ConservationController.uploadImage` | a semaphore, `succesCount` | upload, send | Storage, `MessagesService` |
| Chat list: `ChatList` | `list` | listener on the rows | Firestore rows written by chat messages |
| Accounts: `RegisterController`, `LoginController`, `CompleteSignUpVC`, `SplashScreen`, `UserService` | documents `status`, `task-user`, `user` | register, sign in (mail, Google), complete the profile, sign out | Auth, Firestore, Storage |
| Feed: `FeedVC`, `Car`, `OffOnlineObj` | `carList`, `page`, `loadMore`, sorting, `hasInternet` | fetch, load more, sort, search, copy to Realm | Firestore `feed-post`, Realm |
| Form of a new post: cells, pop-ups, brand, year and km choosers | the fields of the form, the cell's copy of the pictures | add and remove fields and pictures | `NewPostController` by delegates |
| Location picker and search | the map's centre, the search results | pick, search | MapKit, Core Location |
| Firestore write pipeline: `remote/remote_store.cc`, `remote/stream.cc`, `core/sync_engine.cc`, `local/leveldb_mutation_queue.cc` | the mutation queue in LevelDB, `write_pipeline_`, the write stream, `mutation_callbacks_` | write, send, match results, change user, go on- and offline | the server; the completions of the app |
| Firestore query view: `core/view.cc`, `core/view_snapshot.cc`, `core/query_listener.cc` | `document_set_`, `mutated_keys_`, `raised_initial_event_` | turn changes of the cache into changes of a result | the local store; the app's listeners |
| Firestore limbo resolution: `core/sync_engine.cc` | references, queue, two maps | track, start and stop resolutions | views, the watch stream |
| Container and menu, post page, cells, records | layout, what they were given | navigation | the screens above |

What is hard here is always the same thing: **every operation is a chain of
remote calls whose answers arrive later, in another order, or not at all, while
the user goes on**. Nothing is a transaction. The app may be killed between any
two steps; Firestore's write queue survives it and the closures do not. Below, the Firestore
client has one worker queue, so its handlers do not overlap; but its streams break with
answers under way, users change, and everything it sent is sent again.

What makes each component correct:

* *Publishing*: the feed shows all pictures of a tap, each once, or nothing; two
  uploads of a tap never overlap; a failed upload publishes nothing; what is
  published is what the form showed; a tap is answered.
* *Messages*: both copies of a message survive; the list never announces a message
  that is not there and ends up showing the newest; unread marks are deleted only
  after having been seen; counters never claim too much.
* *Messages on screen*: no holes, no doubles.
* *Picture messages*: each selected picture that can be encoded is sent once unless an upload fails, and
  the bar is hidden when all are uploaded.
* *Chat list*: one entry per row, in the order of time once the listener is quiet.
* *Write pipeline*: each user's writes reach the server in order; no write is lost; a
  completion hears of its own write, and of success only when there was one.
* *Query view*: the incremental result is what the query would find.
* *Limbo resolution*: every document in limbo is asked about, within the limit.
* *Accounts*: `status` true means that there is a `user` document; a finished account
  stays finished; every account can reach the feed.
* *Feed*: at rest, one entry per document of the last fetch; the offline copy has
  every car that was shown.

`PROJECT.json` lists the hazards of this code at their lines, with the property that
watches each one or the reason there is none yet.

## 2. Plan

| Module | Question | State |
| --- | --- | --- |
| `AtomicPublish`, `PublishPost`, `PublishPost_proofs` | does the upload protocol publish atomically? | done |
| `Messaging`, `Messaging_proofs` | do the unsynchronised writes of a message keep both users' views truthful? | done |
| `WriteQueue`, `WritePipeline`, `WritePipeline_proofs` | what may an app rely on when it writes? `WritePipeline` implements `WriteQueue`, on which `Messaging` is shown to be built | done |
| `ConversationWindow`, `Conversation_proofs` | can window and paging leave holes or doubles? | done |
| `SignUp`, `SignUp_proofs` | what do the chains of account documents leave behind? | done |
| `Orders`, `Feed`, `Feed_proofs` | overlapping fetches, pages, sorting, the offline copy | done |
| `ImageSender`, `Conversation_proofs` | the second semaphore protocol, with its progress counter | done |
| `ChatList`, `QueryView`, `QueryView_proofs` | does the list of conversations equal the query, change by change? | done |
| `LimboResolution`, `LimboResolution_proofs` | is every doubtful document asked about, within the limit? | done |
| `NewPostForm`, `LocationPicker` | copies of the pictures in the form; late geocoder answers | left |

How the modules fit together: `WritePipeline` refines `WriteQueue`; `Messaging` refines it
as well, so what it assumes of its queues is what the pipeline provides; `SignUp` uses queues
of the same kind. `QueryView` feeds `ChatList`, whose rows are those `Messaging` writes. `ImageSender`
ends in a `SendMessage`. A post of `PublishPost` is one car of `Feed`, which may lack a location.

## 3. The modules

### PublishPost and AtomicPublish

`AtomicPublish` is the promise: a tap chooses some pictures; later they appear in the
feed in one step, each once, in some order.

`PublishPost` is the code. One instance of the form screen is followed from the
moment it is pushed. `Attempt` is the set of taps that pass the guards of `postIt`; a
second tap is possible because the form stays on screen until the first is
acknowledged. A picture is its position in `imageList`. `Draft` stands for the
contents of all other fields, `CompleteDraft` for those that pass the guards.

| Variable or action | Code |
| --- | --- |
| `PostIt(a)`, `RefusePost` | `postIt` up to line 451; its early returns |
| `StartUpload` | a delayed closure got past `semaphore.wait` (`UploadSerivce` 99-101) |
| `PutDataDone`, `DownloadURLDone`, `UploadFails` | the nested callbacks of `uploadDataBase`; an error calls no completion, so the semaphore stays taken |
| `WriteDocument` | the completion of `postIt`: brand, model, price, year and km from the tap (`tapped`), the rest from the form as it is now (`live`) |
| `ServerDecides`, `PostAcknowledged` | `setNewPost` and its completion: message, pop, or error |
| `hud`, `masking`, `lateDismiss` | SVProgressHUD: what is shown, whether some `waitProgress` has set the mask that blocks touches, and whether one of the `dismiss(withDelay: 500)` is outstanding |
| `screen`, `ScreenAlive` | the closure of `postIt` holds the screen weakly, but the gallery and a document being written hold it strongly |

The order in which URLs arrive is the order in which the closures got the semaphore,
so the feed's list is some order of the pictures and not always theirs: that is why
`AtomicPublish` promises *some* order.

`calm` is a history variable: when Post was tapped no picture was being
resolved, no HUD dismissal was outstanding and no other attempt was running. Only
then does the HUD mask the form until the document is built. Without one of these
conditions the two halves of a document may be of different forms; TLC finds it at
once when a conjunct of `calm` is dropped.

### Messaging

Users write to each other through `sendMessage`. Each user's app has a queue of
writes that Firestore applies in order (`Commit`, `Refuse`) and answers in
order (`Acknowledge`); between the two, `answers` are on their way back and later
writes may already be applied. The completions of `sendMessage` queue further writes
(`Callback`). Queries see the server's documents and the own queued ones
(latency compensation, `QueuedDocs`), or only the latter, or fail.

| Action | Code |
| --- | --- |
| `SendMessage` | `sendMessage`: own copy, mirrored copy, `getBadgeCount` (a query), `setBadgeCount` (a new badge document), in this order |
| `Callback` | the completions of the two copies: write the row of the same user when there was no error |
| `CountAnswered` | the answer of `getBadgeCount`: writes the size of the result into the other user's row if it is not zero |
| `OpenChat`, `CloseChat`, `ClearAnswered` | `viewWillAppear`, `viewDidDisappear` and the answers to their badge queries: one deletion per document found; leaving also writes a zero |
| `Reject` | a refusal comes back; it is charged to the first write that is not answered (see `WritePipeline`) |
| `Break` | the connection breaks: verdicts on their way are lost, the writes are sent again |
| `Restart` | the app is killed and launched: queue kept, completions and queries gone (`heard`), a write applied but not yet answered is sent again |

`UsesWriteQueue` states that each of these steps is one of `WriteQueue`, with the queue and the
pending verdicts of each user. `Ordered` says what makes the rows catch up: in the queue of a
sender a later message stands behind an earlier one to the same reader, its row behind the earlier row,
and whoever has an old row has a newer one coming.

Message ids are clock readings (`Stamp`), so two users may produce the same id. One
user does not: two messages of one user are assumed to be at least a millisecond
apart. The two rows of a message differ in the name shown, the text is the same, so
a row is the message it shows and the badge counter.

### ConversationWindow

The listener on the newest `PageSize` documents (10 in the code), and `loadBeforePage`,
which asks for the documents before `firstPage` and may be answered after the listener
has moved it. `messages` is a bag: how often each document was appended. Its order is
left out. A message may arrive with an id below others (clocks differ), and an own
message that the server refuses is withdrawn, which lets an older document slide back
into the window.

The second listener of `getAllMessages` (lines 242 to 287) is not modelled: `page` is read
when the first listener was only just registered, it is `nil`, and the method returns.

Two things the model shows, which `NoHoles` therefore excepts: a message whose id lies
between shown ones is not in any later snapshot unless it is among the newest; and after
a burst larger than the window during an unanswered pull, the answer moves `firstPage`
below messages that nobody has fetched. A message may also be shown twice: the window
moves `firstPage` up after a pull moved it down, and the next pull fetches the same page
again. So *no doubles* holds only as long as the mailbox has not changed since the first snapshot
(`QuietListIsSuffix`, `untouched`). The server's snapshot that completes one from a partial cache is such a
change already: the property then says nothing, though nobody wrote.

### WritePipeline and WriteQueue

`WriteQueue` is what an app may count on: a persistent queue per user, verdicts in order, verdicts
lost and given once more when a connection breaks, and a refusal that falls on the first
write of the queue. `WritePipeline` is the code that keeps the promise.

| Variable or action | Code |
| --- | --- |
| `mutationQueue`, `nextBatchId` | the LevelDB rows and `LoadNextBatchIdFromDb`: ids are computed from the rows left, so they are reused |
| `pipeline`, `Added` | `write_pipeline_`, `FillWritePipeline` with its limit `kMaxPendingWrites` |
| `IssueWrite` | `SyncEngine::WriteMutations` |
| `OpenStream`, `TokenFails`, `BackoffElapses`, `IdleTimeout`, `StreamBreaks` | the states of `Stream` |
| `HandshakeComplete`, `MutationResult` | the handlers of `RemoteStore`; a result is matched with the front of the pipeline |
| `RefusalArrives`, `WriteError` | the end of a stream for a permanent error, and `HandleWriteError`; results not read yet may be discarded (`grpc_stream.cc`) |
| `SwitchUser`, `RestartNetwork`, `DisableNetwork`, `EnableNetwork` | `HandleCredentialChange` and the connectivity handlers |
| `Crash`, `HalfDone` | the process dies, also between the completion and the removal of the batch (`HandleSuccessfulWrite`) |
| `ServerGreets`, `ServerApplies`, `ServerRefuses` | the server, external; it finishes or drops the requests of one stream before it reads the next |

Every handler runs on the worker queue and is one action. `issued`, `applied`, `refused` and `told`
are histories that only properties read. `PipelineInv` collects what must fit together: the
pipeline is a prefix of the queue, what is under way on the stream is the pipeline batch by batch,
the idle timer runs only when there is nothing to send, no completion outlives its batch; the
ids of a queue ascend, so that a batch is found by its id; a verdict on its way is what the server has done
(`AnswersAreFacts`); the newest write of a user is the last one in the queue or stands at the server
(`LastWordStands`).
The app never calls `enableNetwork` or `disableNetwork`; they are modelled because
connectivity changes take the same path.

### SignUp

One account on several devices. `docs` are the three documents as sets of filled-in fields,
`place[d]` is the screen of a device or the answer its screen waits for, `queue[d]` and
`answers[d]` are its writes and the verdicts under way, as in `WriteQueue`.

| Action | Code |
| --- | --- |
| `Register`, `Created` | `createUser` and its completion: `task-user`, then `status` |
| `SignInMail`, `SignInGoogle`, `CheckUser`, `CheckTask`, `StartGoogle` | `LoginController`, `RegisterController.checkUserAlreadyHaveAnAccount`, `checkTaskUser`, `UserService.setGoogleSingUpTaskUser`; an error of a query counts as "no" |
| `AskStatus`, `AskUser`, `AskTask`, `SignOut` | `SplashScreen`: where a start leads |
| `FillIn`, `FillInPicture`, `Uploaded`, `ThumbUploaded`, `Reread`, `NextStep` | `CompleteSignUpVC` and `UserService`: name, picture, thumbnail, status, read once more, delete `task-user`, write `user` |
| `Commit`, `Refuse`, `Acknowledge`, `Reject`, `Break`, `Crash` | Firestore's queue; the end of the app |

A second tap on the form is excluded by the HUD's mask. Left out: the stale offline cache of the
documents, and errors of sign-in, which leave the HUD up or change nothing. A user signs in one
way, by mail or with Google.

The chains are not safe against everything, and the properties say against what they are. A crash or a
refusal between two writes may strand an account: after `task-user` but before `status` when registering
by mail, after `status` became true but before `user` exists, after a Google `status` without a
`task-user`. Such an account never reaches the feed (`SignedInReachesFeed` excepts it), but a
*finished* account is whole (`AccountInv`) and stays so (`FinishedStaysFinished`). Two more
exceptions are in the code and named in the properties: a query that fails and counts as "no account"
(`errors`), and two devices at work at once (`raced`). For the latter the chains are not made at all: each of
these properties then fails even without a fault, so `Race` does not follow such a history any further.
`MaxFaults` bounds crashes, breaks, refusals and errors together. `MailKept`: the address may be missing after a crash
followed by a refusal of the first write, because the form is opened on a write that is pending.

### Feed

`carList` is the array behind the rows, `fetches` are the calls of `fetchPost` under way, `pages` those of
`loadMorePost`, `realm` the offline copy, `cache` what Firestore's own cache holds, `pending` an own post not
acknowledged yet, which has no time.

| Action | Code |
| --- | --- |
| `GetPost`, `LoadData`, `QueryCallBack` | `getPost`: the list is emptied and fetched again |
| `Listed`, `Read`, `Answered`, `Save` | `fetchPost`: one query for the list, one per post; every answer calls the completion with what there is, and writes to Realm |
| `LoadMorePost`, `PageAnswered`, `WithPage` | `loadMorePost`, also by a scroll that goes on behind the HUD; answers come in any order; each sorts all rows anew; `page` is never moved on, so a page may be appended again; pages are not copied to Realm |
| `DidSelectOrder` | the three orders. Online, the order by year sorts by price; `getPost` always sorts by price |
| `DidSelectRow`, `AuthorAnswered`, `Back` | a row is opened after a query for its author, and read again by position |
| `Posted`, `OwnAnswered`, `Switch`, `PathUpdate` | the world; `hasInternet` follows the connection on a queue of its own |

A row that is opened is read again by its position when the author has been found. No fetch starts behind the HUD's
mask, but a page may come, and it may move the row. `opening.calm` says that no query was under way at the tap, and
`opening.overtaken` that a page has since come that moves the row: the rows before and behind it were not in the order
the page is sorted by (`getPost` sorts by price, a page by the order chosen), or the page brings a car that goes before
it. The code then opens another car, and `CalmTapOpensItsCar` excepts exactly this; dropping either half of
`Overtakes` makes TLC find it.

Rows are sorted with `Sorted`, by the rank each position has in the order and, among equals, in the list,
as Swift's stable sort does; a query without an order is answered by document id (`InOrder`).
`PageSize` and `MinRows` are 5 in the code. `MaxEvents` bounds pages, changes of the connection and failures
together. The list a pull emptied fills again (`PulledListFills`) if the device had copied a car before: with
nothing but an own post that is listed and then refused it stays empty. Left out: footer, search, drop-down menu; an earlier
post's delayed HUD dismissal (see `PublishPost`); the removal of documents from Firestore's cache.

### ImageSender

`stage[p]` says how far a picture of a selection is; `semaphore` lets one pass at a time. `Free` is the end of
the screen, when its last closure is gone: libdispatch stops a program that frees a semaphore below its
initial value, which is what a picture uploaded without a URL leads to. A picture that cannot be encoded
(`jpegData` is nil) is *skipped*: no message, no error, and the progress bar stays, since `images.count` counts it
(`AllSent` and `BarTellsOfFirstSelection` say so). Observers of an upload are removed when it ends. What the bar says is left out, and that it is shown is not.

### ChatList and QueryView

`ChatList` is a function on the rows: what `HandleChange` makes of one change, and `Handle` of an
event. The rows are sorted stably (`Arranged` of `Orders`: each index goes where as many come before it), and the
changes of an event are told in the order of `Lined`. `QueryView` is the Firestore client's side, without a limit as the chat list has it, and with one
from either end as other screens use it.

| Action or operator | Code |
| --- | --- |
| `ChangeType`, `Merged`, `AddChanges`, `Excess` | `View::ComputeDocumentChanges`, `DocumentViewChangeSet::AddChange`, the limit |
| `EmitNewSnapshots` | `EmitNewSnapshotsAndNotifyLocalStore`: a second pass over the cache when a full limit lost a document |
| `Told`, `Indexable`, `Tell` | `View::ApplyChanges`, `QuerySnapshot::ForEachChange` |
| `Known` (properties only) | the cache as the view knows it: of a document whose write was acknowledged, what the view still holds |
| `Snapshot` | `QueryListener::OnViewSnapshot`: when the first event is raised |
| `LocalWrite`, `Acknowledged`, `Rejected`, the server's events, `OnlineStateChange` | the sources of change |

Whether the view is in sync matters to the first event only. Ties are broken by key, in the client and in
the app's stable sort. `SortedUnlessAdded` excepts what the app does: a new row goes to the end and stays
there until some row is modified. Options for metadata changes, which the app never sets, and the query
engine are left out; documents in limbo inside a view are the matter of `LimboResolution`.

### LimboResolution

| Action | Code |
| --- | --- |
| `Event`, `HandleOnlineStateChange` | `ApplyRemoteEvent` and `ApplyOnlineStateChange`: every view is visited |
| `Visit`, `Leave`, `Enter`, `VisitDone` | `View::ApplyChanges` and `UpdateTrackedLimboDocuments`, one key at a time |
| `Start`, `PumpDone` | the loop of `PumpEnqueuedLimboResolutions` |
| `HandleRejectedListen`, `RemoveAndCleanupTarget` | a rejected limbo listen; the end of a query |

One handler runs at a time, but it is several steps here, because its order matters: views are
visited in any order, and a key may leave limbo in one and be held by another. Left out are
`document_received`, which only the watch aggregator reads, and queries that share a target.

Three things the model shows. A key that leaves limbo while it is queued stays queued and takes a slot later,
though nobody needs it. A key may be queued twice, and is then resolved twice, one listen more than
the limit allows (`limbo_doubles`). And a view that was not current when a listen was rejected keeps its reference to a
key that nobody asks about: `late` records it and `NobodyForgotten` excepts it.

## 4. The runs

| Run | Bounds | Shows |
| --- | --- | --- |
| `publish` | 2 taps, up to 2 pictures, 2 drafts (1 incomplete); 0.2 million states | type, mutual exclusion, completeness, calm taps, refinement of `AtomicPublish`; every tap is answered (`AttemptSettles`) |
| `messages` | 2 users, 2 messages, 2 clock readings, 2 openings or closings, 1 broken connection; 2.7 million states | `BadgeNeverOvercounts`, `PreviewIsNewest` |
| `messages_faults` | 2 users, 1 message, 2 openings or closings, 1 restart, 1 broken connection, 1 refusal; 0.2 million states | type, `PreviewHasMessage`, `NoMessageLost`, `BadgesWaitForReader`, refinement of `WriteQueue` (`UsesWriteQueue`), `BothListed` |
| `window` | 5 messages, pages of 2, a message at most twice on screen, 1 own message unacknowledged; 0.2 million states | `WindowInv` (type, `NoHoles`), `QuietListIsSuffix` |
| `write_pipeline` | 2 users, 4 writes, a pipeline of 3, 1 broken stream, 1 refusal, 1 crash, 2 changes of user or connectivity; 1.0 million states | `PipelineInv`, `TellsTruth`, `NoWriteLost`, `Converges`, refinement of `WriteQueue`, `Delivered` |
| `write_blame` | 3 writes, 1 refusal | violated: a refusal is charged to a write that was applied |
| `sign_up` | 2 devices, 3 faults of any kind; 0.1 million states | `AccountInv` (type, `FinishedIsWhole`, `MailKept`), `FinishedStaysFinished`, `SignedInReachesFeed` |
| `feed` | 2 cars, 1 of them one's own, any of them without a location, 2 fetches, pages of 1, 2 events (a page asked for, a change of the connection, a failed query); 0.7 million states | `ListInv` (type, `DoublesArePaged`), `SettledListIsComplete`, `OfflineKeepsRows`, `CalmTapOpensItsCar`, `StopsOnlyFor`, `PulledListFills` |
| `pictures` | 2 selections of up to 3 pictures, any of them skipped, 2 failures; 0.2 million states | `SenderInv` (type, no stop without a failure), `BarTellsOfFirstSelection`, `AllSent` |
| `query_view` | 3 keys, 2 ranks, a limit of 2 from either end or none, events of at most 2 documents | `ViewInv` (type, `FollowsKnown`, no assertion fails), `ViewIsQuery`, `OneRowEach`, `SortedUnlessAdded` |
| `limbo` | 2 views, 3 keys, 2 slots, 5 queued resolutions; 0.4 million states | `EngineInv` (type, known listens, bound, no idle slot), `NobodyForgotten` |
| `limbo_doubles` | the same | violated: more listens than the limit allows |

Why these are enough to meet the interesting cases: two pictures make one
wait for the other and fail before or after it; two taps overlap, and so do an upload and
a late picture; parts of a complete draft and of an incomplete one can be mixed. Two messages can have the
same or different ids and directions, and two rows of one conversation can be
written in both orders; two turns are an opening and a closing or another user's opening, so a
query's answer can be late by a visit. Five messages with pages of two are a window, a full page
below it and a rest, and let a burst pass the window. Restarts or refusals and two
messages together are beyond TLC here; the theorems below cover them.

Four writes and a pipeline of three leave one batch outside it, so that a freed slot is filled, and two
users make one's batches leave the pipeline while the server has judged some of them. Two devices race
through the same account until both are at work. Two fetches overwrite each other, and two pages from the same start append a
car twice. Three keys and a limit of two let a document leave a full result and another take its
place. Two views share a key, and three keys compete for two slots; five queued resolutions are needed
for a key to be queued, resolved, freed and queued twice more.

Symmetry is used in runs that check safety only (`messages` and the two of `LimboResolution`), on `User`, `View` and
`Key`, which occur only as indices and members. Deadlock checking is off
where an app that has stopped, or a bound that has been reached, has no further step; it is on in
`query_view` and `limbo`, which always have one.

Each property has a mutant in `PROJECT.json`: a slip in one definition, written just above
it (`Slip: ...`), under which TLC finds the property violated.

### What the code does against its own words

`write_blame`: `HandleWriteError` (`remote_store.cc` 513) says that after a permanent error "the request
itself was the problem". The request it rejects is the front of `write_pipeline_`. When the client's own
write fails first, results that were received but not read are dropped with the stream, and
the front may be a write that was applied: its completion hears of an error.

`limbo_doubles`: the comment of `PumpEnqueuedLimboResolutions` (`sync_engine.h` 244) promises a maximum
number of concurrent resolutions. The bound is checked on a map by key, and a key that was queued
twice has two listens and one entry.

### Fairness

`publish`: weak fairness of *some* timer getting the semaphore of an attempt
(`DispatchSemaphore` wakes a waiter), of *some* remote answer to an attempt's
current upload, of the server's verdict and of its arrival. All are promises of GCD and
Firebase; success is never assumed. Nothing makes the user act, and the conclusion excepts
a failed upload (the semaphore is then never released) and an app that stopped.

`messages_faults`: weak fairness of `Commit`, `Acknowledge` and `Reject`, i.e. the server is reached in
the end, which `Delivered` shows of the pipeline. No query need be answered, and no one need open a
conversation.

`write_pipeline`: weak fairness of the client's next due handler (the worker queue is FIFO, and
delayed operations fire) and of the server. `Delivered` assumes that the user stays and the network stays
enabled; nothing forbids further writes or faults within the bounds.

`sign_up`: weak fairness of each device's pending answer, of the server, and of filling in the form
that is shown. `SignedInReachesFeed` excepts crashes, refusals and failed queries, as they strand accounts, and not
broken connections.

`feed`: weak fairness of every query's answer, each by itself. Pulling goes on for ever, so this
needs more than one fair disjunction: a fetch must not starve behind later ones.

`pictures`: weak fairness of every picture's own step: timers fire, answers come,
libdispatch wakes a waiter.

## 5. The proofs

TLC checks the sizes above; these theorems hold for every value of the constants that satisfies the
named assumption of its module. They say that a complete draft is a draft (`PublishAssumption`), `NoMsg` is not a
message and clock readings are numbers (`MessagingAssumption`), the keys are finitely many
(`LimboAssumption`, and in `QueryViewAssumption` numbered too), the pipeline has room for one write (`PipelineAssumption`), cars are finitely many, numbered
and priced (`FeedAssumption`), message ids are numbers above the 0 that stands for no page
(`WindowAssumption`), and that bounds and page sizes are natural numbers (all, and `ImageSenderAssumption`). Every
instance the runs check satisfies them.

**`PublishPost_proofs`** proves `TypeOK`, `OneUploadAtATime`, `PublishedComplete`,
`FailureNeverPublishes`, `CalmTapPostsWhatItShows` and `ImplementsAtomicPublish`. The
invariant `IInv` adds what they need to be inductive: the pictures of a tap are
1..`datas` (`JobsFit`); whoever is past the semaphore, a failed upload included, is alone
and the semaphore is zero (`SemaphoreInv`); the URL list has no repetitions and lists
finished pictures only, `uploadCount` of them (`UrlsInv`); an attempt that has left
*uploading* has all pictures done (`StageInv`); and during a calm attempt the HUD is up and
masking, no dismissal is outstanding and the form is unchanged (`CalmInv`). The code only
counts URLs. That the count is enough is `InjectiveListIsOnto`: an injective list of n
numbers of 1..n has all of them, from the pigeonhole theorem on finite sets. The
refinement has one step per action: `PostIt` chooses, `ServerDecides` with the
verdict *committed* publishes, everything else stutters.

**`Messaging_proofs`** proves `TypeOK`, `PreviewHasMessage`, `NoMessageLost`,
`BadgeNeverOvercounts`, `BadgesWaitForReader`, `PreviewIsNewest` and `UsesWriteQueue`. `IInv` adds: a queued write is about a conversation of its message
and a queued count is at most the number of messages sent (`Fits`); badge documents
belong to their conversation (`BadgesFit`); and a write that was answered without error, and any
message whose row is queued, is stored under its id (`AnsweredStored`), which is what makes the
completions trustworthy. Lemmas say what appending to a queue, dropping its head and
storing a message do.

Two properties need an invariant of their own beside `IInv`. An unread mark is safe because every deletion in a
queue is of a mark a query has shown (`DeletionsAreShown`): a query's answer may come late, but it cannot
delete what was written after it. That the rows end with the newest message holds although a row is
written by a completion and repeated after a broken connection, because the queue keeps an order
(`InOrder`): behind a message stands every newer one to the same reader, and behind a row the newer message's
row or the message that will queue it. So whenever a row is stored, what is newer is still to come
(`RowsCatchUp`), and an empty queue leaves none. A queue that loses its head and gains a completion's row
keeps the order (`OrderShift`), and so does one that a message is added to (`OrderSend`). A restart takes
the completions away and a refusal the message: `OrderInv` claims nothing then, as `PreviewIsNewest` does not.

`UsesWriteQueue` maps each step: what an app queues is `Issue`, however many writes it is; the server's verdicts are
`Judge`; an acknowledgement is `Accept` with the row its completion writes behind the rest; `Restart(u)` is `WriteQueue`'s
restart of the process that serves `u` alone.

**`WritePipeline_proofs`** proves `PipelineInv`, `TellsTruth`, `NoWriteLost`, `Converges` and
`ImplementsWriteQueue`. The parts of `PipelineInv` carry each other: results are matched with the
front of the pipeline only because what is under way on the stream is the pipeline batch by batch
(`AnswersMatchPipeline`), the front of the pipeline is the head of the queue, and ids ascend, so that the batch removed
by its id is that head (`QueuesInOrder`). A handler may rely on what it receives because a verdict
on its way is a fact (`AnswersAreFacts`), also for the batch the server has judged and whose answer was lost. `Converges` rests on
`LastWordStands`: writes that are sent again after a break are those still in the queue, so a newer write of the
same user is sent again behind them. For the refinement the verdicts of a queue are read off the responses that are
on their way: each handler is one step of `WriteQueue`, and what only moves the stream is a stutter.
`FillWritePipeline` adds to the pipeline what follows it in the queue (`Added`), whatever the limit.

**`Feed_proofs`** proves `ListInv`, `SettledListIsComplete`, `OfflineKeepsRows`,
`CalmTapOpensItsCar` and `StopsOnlyFor`. Overlapping fetches write one array in any order; the argument is
that each is complete by itself: a fetch that is reading has shown, or has still to ask for, every car the device
had copied before the first of them began, and asks Realm's superset, Firestore's cache, when the device is
offline. So the last answer, of whichever fetch, leaves all of them on the screen. What a fetch
has shown is copied; only a page shows a car twice, because the rows of a fetch are distinct cars. After a calm tap
only pages may change the list until the author is found (`Opening`). `Sorted` is shown to be a
permutation of its argument (`SortedIndexes`, by ranks, with the finiteness of the domain), without which none of this
would say anything about rows; and a row that nothing overtakes keeps its rank (`RowStays`), so a page leaves it where it
was tapped (`WithPageLists`).

**`Conversation_proofs`** is about the two halves of a conversation's screen, which share no state. It proves
`WindowInv` and `QuietListIsSuffix` of what is shown. `NoHoles` is kept by claiming it
below the page that was asked for as well as below `firstPage`, since the answer moves one to the other.
As long as the mailbox is untouched since the first snapshot, the list is an end of it (`EndOf`), and so is what the next
page adds to it.

Of the pictures sent it proves `SenderInv` and `BarTellsOfFirstSelection`. As in `PublishPost`, whoever is past the
semaphore, a picture whose upload failed included, is alone there (`SemaphoreInv` over `Holders`). As long as there is
only the first selection, the counter is the number of its uploaded pictures, or zero if it is a single one
(`CountInv`); with a second selection it counts on from there, and then the bar says nothing.

**`QueryView_proofs`** proves `ViewInv`, `ViewIsQuery`, `OneRowEach` and `SortedUnlessAdded`. The invariant `IInv` has two
halves. `Good` is about the view: its result is the limit's top of what it knows (`FollowsKnown`), which is what the query
would find unless some document waits for the server. A pass of `ComputeDocumentChanges` is shown to be right by what it
says of the result: the changes describe the way from the old to the new one (`Describes`), those of two passes
compose (`ChangesCompose`), so no pair of changes is ever without meaning, and cutting what the limit leaves out only adds
removals. Without a refill the pass yields the top of the new knowledge because a document the limit left out before is still
left out (`StillLeftOut`): the limit is full of documents none of which went behind it. After a refill the second pass
sees the whole cache, removes nothing within the limit and so needs no other (`RefillPass`). `Telling` is about the rows: once
raised, they are a list of the result without repetitions, and sorted unless `appended`. `Lined` is shown to enumerate a finite
set along any strict total order (`LinedUp`), so an event tells every change once, removals first; then each change finds
its index and does to the rows what it says of the result (`HandleChangeIs`). `Handle` is a recursive function of the position in
the event; that each of its steps is a `HandleChange`, and what holds after all of them, is shown on the least position
where it would fail (`Least`, from well-foundedness), since induction is not to be had as a rule.

**`SignUp_proofs`** proves `AccountInv` and `FinishedStaysFinished`, for any number of devices and faults. The
invariant `IInv` says of each device, by its place, what its queue may hold. `Shaped`: the writes that begin an account
(`Early`) may pile up behind a crash, but one that completes it (`Late`) is queued only when nothing else is, since each
waits for the one before it. `InChain`, while nothing failed and nothing was refused: status true is queued where there is
no user document, the deletion only once status is true at the server, and the user document only after both, so that it
finds the account whole. `Begun`, while no query failed: a status false is queued only by who found no user document, none
queued either (`Fresh`), which is why nothing sends a finished account back. `MailFit`, unless something was refused after a
crash: a merge that leaves the address out has it in the document, or in front of it in the queue (`Covered`), and the
profile that is copied has it. A query sees the server's documents under the queue (`View`), so the screens may be
ahead of the server; `UnderKeeps` says what is found there, on the least write where it would fail. A step changes one device
(`Goes`), and what the others rely on stays, because at most one is at work (`OneAtWork`, `Rests`): the two
theorems rest on `raced` exactly there.

Only model-checked: liveness (`AttemptSettles`, `BothListed`, `Delivered`, `SignedInReachesFeed`,
`PulledListFills`, `AllSent`), which is out of the prover's reach under fairness.

## 6. Not modelled

* The details of the form of a new post, which include a picture deleted from the cell's copy of
  the list only (`ImagesCollectionViewCell.swift` 62), and the location picker: see the plan.
* Of the write pipeline: the stream token, which the handshake ignores; `waitForPendingWrites` and shutdown;
  a server that closes the stream without an error.
* Of the Firestore client besides: the watch stream and its aggregator, the query engine, garbage
  collection, transactions, gRPC; of the other pods, everything.
* Layout, cells, animations, formatting; records without behaviour (`Model`).
* The lightbox preview of the gallery, which shows and hides the HUD while the gallery covers
  the form.
* Listener errors: they are printed and change nothing.
* Storage, Authentication, SVProgressHUD, Gallery, Realm and MessageKit themselves (`Pods`): they
  appear as actions marked external, modelled from how the app uses them. Most of the repository's
  lines are such third-party code (BoringSSL, gRPC, abseil, generated files), which this project
  leaves aside.
