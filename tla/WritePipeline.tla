--------------------------- MODULE WritePipeline ---------------------------
(***************************************************************************)
(* How Firestore (Pods/FirebaseFirestore) gets the app's writes to the     *)
(* server: SyncEngine.WriteMutations stores a batch in the LevelDB         *)
(* mutation queue of the current user; RemoteStore copies the first ones   *)
(* into write_pipeline_ and sends them over the write stream; a result is  *)
(* matched with the first batch of the pipeline by its position only.      *)
(*                                                                         *)
(* All handlers run on one worker queue, so each is one action.  The       *)
(* database survives a crash; pipeline, stream and callbacks do not.  The  *)
(* stream token is left out: the handshake ignores it.  A write is a       *)
(* number, in the order of issue.                                          *)
(***************************************************************************)
EXTENDS Integers, SequencesExt

CONSTANTS User,
          MaxPendingWrites,  \* kMaxPendingWrites
          MaxWrites,         \* bound: writes issued
          MaxBreaks,         \* bound: streams that fail for no fault of a write
          MaxRefusals,       \* bound: writes the server may refuse
          MaxRestarts,       \* bound: crashes
          MaxResets          \* bound: changes of user or connectivity

ASSUME PipelineAssumption ==
  /\ MaxPendingWrites \in Nat \ {0}
  /\ MaxWrites \in Nat /\ MaxBreaks \in Nat /\ MaxRefusals \in Nat
  /\ MaxRestarts \in Nat /\ MaxResets \in Nat

VARIABLES
  currentUser,
  mutationQueue,   \* persistent: each user's batches, in the order of their ids
  nextBatchId,     \* next_batch_id_ of the current mutation queue
  callbacks,       \* mutation_callbacks_: the batches whose completion waits
  pipeline,        \* write_pipeline_
  network,         \* is_network_enabled_
  state,           \* state_ of the write stream
  handshake,       \* handshake_complete_
  idle,            \* idleness_timer_ is running
  requests,        \* what the stream has sent and the server has not read
  responses,       \* results on their way back
  fault,           \* the batch whose refusal has ended the stream, or NoBatch
  issued,          \* history: the user who issued each write
  applied,         \* history: writes the server has applied
  newest,          \* the last write the server applied for each user
  refused,         \* history: writes the server has refused
  told,            \* history: what the callback of each write was told
  breaks, restarts, resets   \* counters for the bounds

disk    == <<mutationQueue>>
engine  == <<currentUser, nextBatchId, callbacks>>
stream  == <<state, handshake, idle>>
wire    == <<requests, responses, fault>>
server  == <<applied, newest, refused>>
history == <<issued, told, breaks, restarts, resets>>
vars    == <<disk, engine, pipeline, network, stream, wire, server, history>>

Writes == 1..MaxWrites
Batch == [id : Nat, write : Writes]
NoBatch == [id |-> 0, write |-> 0]
Hello == [id |-> -1, write |-> 0]     \* the handshake, as a request and as a response

StreamState == {"initial", "starting", "open", "error", "backoff"}

Init ==
  /\ currentUser \in User
  /\ mutationQueue = [u \in User |-> <<>>]
  /\ nextBatchId = 1
  /\ callbacks = [u \in User |-> {}]
  /\ pipeline = <<>>
  /\ network = TRUE
  /\ state = "initial" /\ handshake = FALSE /\ idle = FALSE
  /\ requests = <<>> /\ responses = <<>> /\ fault = NoBatch
  /\ issued = <<>>
  /\ applied = {} /\ newest = [u \in User |-> 0] /\ refused = {}
  /\ told = [w \in Writes |-> "nothing"]
  /\ breaks = 0 /\ restarts = 0 /\ resets = 0

-----------------------------------------------------------------------------
(* The mutation queue in LevelDB *)

(* LoadNextBatchIdFromDb looks at the rows of all users; ids are reused. *)
NextId(queues) ==
  CHOOSE n \in 1..(MaxWrites + 1) :
    /\ \A u \in User : \A i \in DOMAIN queues[u] : queues[u][i].id < n
    /\ n = 1 \/ \E u \in User : \E i \in DOMAIN queues[u] : queues[u][i].id = n - 1

(* How many batches of q NextMutationBatchAfterBatchId skips: the ids up to *)
(* that of the last batch in p, kBatchIdUnknown when there is none.         *)
Passed(p, q) ==
  LET last == IF p = <<>> THEN -1 ELSE p[Len(p)].id IN
  CHOOSE k \in 0..Len(q) : \A i \in DOMAIN q : q[i].id <= last <=> i <= k

(* The batches FillWritePipeline adds to p from q. *)
Added(p, q) ==
  LET k    == Passed(p, q)
      room == MaxPendingWrites - Len(p)
  IN SubSeq(q, k + 1, IF Len(q) - k <= room THEN Len(q) ELSE k + room)

(* StartWriteStream, when the stream is needed: at once, or after an error  *)
(* when the backoff delay is over.                                          *)
Started(st, p) ==
  CASE p # <<>> /\ st = "initial" -> "starting"
    [] p # <<>> /\ st = "error"   -> "backoff"
    [] OTHER -> st

(* Slip: results of the old stream are still delivered. *)
ClosedLate ==
  /\ requests' = <<>> /\ UNCHANGED responses /\ fault' = NoBatch
  /\ handshake' = FALSE /\ idle' = FALSE

(* The underlying gRPC stream is destroyed; nothing of it arrives any more. *)
Closed ==
  /\ requests' = <<>> /\ responses' = <<>> /\ fault' = NoBatch
  /\ handshake' = FALSE /\ idle' = FALSE

Waiting(b) == {c \in callbacks[currentUser] : c.id = b.id}

(* Slip: the callback is not erased. *)
NotifyUserAgain(b, outcome) ==
  /\ told' = [w \in Writes |-> IF \E c \in Waiting(b) : c.write = w THEN outcome ELSE told[w]]
  /\ UNCHANGED callbacks

(* NotifyUser: the callback of this batch of the current user, if any. *)
NotifyUser(b, outcome) ==
  /\ told' = [w \in Writes |-> IF \E c \in Waiting(b) : c.write = w THEN outcome ELSE told[w]]
  /\ callbacks' = [callbacks EXCEPT ![currentUser] = @ \ Waiting(b)]

(* RemoveMutationBatch, which asserts that there is a batch with this id. *)
Without(b) ==
  LET q == mutationQueue[currentUser] IN
  [mutationQueue EXCEPT ![currentUser] = RemoveAt(q, CHOOSE i \in DOMAIN q : q[i].id = b.id)]

-----------------------------------------------------------------------------
(* The app writes: SyncEngine.WriteMutations *)

IssueWrite ==
  LET b    == [id |-> nextBatchId, write |-> Len(issued) + 1]
      q    == Append(mutationQueue[currentUser], b)
      more == IF network THEN Added(pipeline, q) ELSE <<>>
      sent == IF state = "open" /\ handshake THEN more ELSE <<>>
  IN
  /\ Len(issued) < MaxWrites
  /\ issued' = Append(issued, currentUser)
  /\ mutationQueue' = [mutationQueue EXCEPT ![currentUser] = q]
  /\ nextBatchId' = nextBatchId + 1
  /\ callbacks' = [callbacks EXCEPT ![currentUser] = @ \cup {b}]
  /\ pipeline' = pipeline \o more
  /\ requests' = requests \o sent
  /\ idle' = (idle /\ sent = <<>>)
  /\ state' = Started(state, pipeline')
  /\ UNCHANGED <<currentUser, network, handshake, responses, fault, server,
                 told, breaks, restarts, resets>>

-----------------------------------------------------------------------------
(* The write stream *)

(* ResumeStartWithCredentials: the stream opens and greets the server. *)
OpenStream ==
  /\ state = "starting"
  /\ state' = "open"
  /\ requests' = <<Hello>>
  /\ UNCHANGED <<disk, engine, pipeline, network, handshake, idle, responses, fault,
                 server, history>>

(* No token; the stream is closed before there is one. *)
TokenFails ==
  /\ state = "starting"
  /\ breaks < MaxBreaks
  /\ breaks' = breaks + 1
  /\ state' = Started("error", pipeline)
  /\ UNCHANGED <<disk, engine, pipeline, network, handshake, idle, wire, server,
                 issued, told, restarts, resets>>

BackoffElapses ==
  /\ state = "backoff"
  /\ state' = "starting"
  /\ UNCHANGED <<disk, engine, pipeline, network, handshake, idle, wire, server, history>>

(* OnWriteStreamHandshakeComplete: the whole pipeline is sent. *)
HandshakeComplete ==
  /\ state = "open" /\ ~handshake /\ responses # <<>>
  /\ responses' = Tail(responses)
  /\ handshake' = TRUE
  /\ requests' = requests \o pipeline
  /\ idle' = (idle /\ pipeline = <<>>)
  /\ UNCHANGED <<disk, engine, pipeline, network, state, fault, server, history>>

(* Slip: the result is taken to be that of the last batch of the pipeline. *)
MutationResultBack ==
  LET b    == Last(pipeline)
      q    == Without(b)
      more == Added(Front(pipeline), q[currentUser])
  IN
  /\ state = "open" /\ handshake /\ responses # <<>>
  /\ responses' = Tail(responses)
  /\ NotifyUser(b, "ok")
  /\ mutationQueue' = q
  /\ pipeline' = Front(pipeline) \o more
  /\ requests' = requests \o more
  /\ idle' = (pipeline' = <<>> \/ (idle /\ more = <<>>))
  /\ UNCHANGED <<currentUser, nextBatchId, network, state, handshake, fault, server,
                 issued, breaks, restarts, resets>>

(* Slip: the pipeline is not filled up again. *)
MutationResultNoRefill ==
  LET b == Head(pipeline) IN
  /\ state = "open" /\ handshake /\ responses # <<>>
  /\ responses' = Tail(responses)
  /\ NotifyUser(b, "ok")
  /\ mutationQueue' = Without(b)
  /\ pipeline' = Tail(pipeline)
  /\ UNCHANGED <<currentUser, nextBatchId, network, stream, requests, fault, server,
                 issued, breaks, restarts, resets>>

(* OnWriteStreamMutationResult: the result is taken to be that of the first *)
(* batch of the pipeline.                                                   *)
MutationResult ==
  LET b    == Head(pipeline)
      q    == Without(b)
      more == Added(Tail(pipeline), q[currentUser])
  IN
  /\ state = "open" /\ handshake /\ responses # <<>>
  /\ responses' = Tail(responses)
  /\ NotifyUser(b, "ok")
  /\ mutationQueue' = q
  /\ pipeline' = Tail(pipeline) \o more
  /\ requests' = requests \o more
  /\ idle' = (pipeline' = <<>> \/ (idle /\ more = <<>>))
  /\ UNCHANGED <<currentUser, nextBatchId, network, state, handshake, fault, server,
                 issued, breaks, restarts, resets>>

(* The server has ended the stream with an error.  The client learns of it  *)
(* when it has read all results, or when one of its own writes fails: then  *)
(* FastFinishCompletionsBlocking discards the results not yet read.         *)
RefusalArrives ==
  /\ state = "open" /\ handshake /\ fault # NoBatch
  /\ responses = <<>> \/ requests # <<>>

(* HandleWriteError: the error is charged to the first batch of the         *)
(* pipeline, and the stream starts again without backoff.                   *)
WriteError ==
  LET b    == Head(pipeline)
      q    == Without(b)
      more == Added(Tail(pipeline), q[currentUser])
  IN
  /\ RefusalArrives
  /\ pipeline # <<>>
  /\ mutationQueue' = q
  /\ NotifyUser(b, "error")
  /\ pipeline' = Tail(pipeline) \o more
  /\ state' = Started("initial", pipeline')
  /\ Closed
  /\ UNCHANGED <<currentUser, nextBatchId, network, server, issued, breaks, restarts, resets>>

(* Slip: every error is taken to be permanent. *)
StreamBreaksRejecting ==
  /\ state = "open"
  /\ breaks < MaxBreaks
  /\ breaks' = breaks + 1
  /\ pipeline' = IF handshake /\ pipeline # <<>> THEN Tail(pipeline) ELSE pipeline
  /\ mutationQueue' = IF pipeline' = pipeline THEN mutationQueue ELSE Without(Head(pipeline))
  /\ state' = Started("error", pipeline')
  /\ Closed
  /\ UNCHANGED <<engine, network, server, issued, told, restarts, resets>>

(* The connection is lost, or the stream aborted: nothing is rejected. *)
StreamBreaks ==
  /\ state = "open"
  /\ breaks < MaxBreaks
  /\ breaks' = breaks + 1
  /\ state' = Started("error", pipeline)
  /\ Closed
  /\ UNCHANGED <<disk, engine, pipeline, network, server, issued, told, restarts, resets>>

(* A stream that had nothing to send for a minute is stopped. *)
IdleTimeout ==
  /\ idle
  /\ state' = "initial"
  /\ Closed
  /\ UNCHANGED <<disk, engine, pipeline, network, server, history>>

-----------------------------------------------------------------------------
(* The server; one stream is finished before the next is served *)

ServerGreets ==
  /\ requests # <<>> /\ Head(requests) = Hello
  /\ requests' = Tail(requests)
  /\ responses' = Append(responses, Hello)
  /\ UNCHANGED <<disk, engine, pipeline, network, stream, fault, server, history>>

ServerReads ==
  /\ fault = NoBatch
  /\ requests # <<>> /\ Head(requests) # Hello
  /\ requests' = Tail(requests)

ServerApplies ==
  LET b == Head(requests) IN
  /\ ServerReads
  /\ responses' = Append(responses, b)
  /\ applied' = applied \cup {b.write}
  /\ newest' = [newest EXCEPT ![issued[b.write]] = b.write]
  /\ UNCHANGED <<disk, engine, pipeline, network, stream, fault, refused, history>>

(* Refusing one batch ends the stream; what follows is not read. *)
ServerRefuses ==
  LET b == Head(requests) IN
  /\ ServerReads
  /\ Cardinality(refused \cup {b.write}) <= MaxRefusals
  /\ refused' = refused \cup {b.write}
  /\ fault' = b
  /\ UNCHANGED <<disk, engine, pipeline, network, stream, responses, applied, newest, history>>

-----------------------------------------------------------------------------
(* The rest of the world *)

(* Everything is stopped, and started again for user u. *)
StartNetwork(u, queues) ==
  /\ pipeline' = Added(<<>>, queues[u])
  /\ state' = Started("initial", pipeline')
  /\ Closed

(* RestartNetwork, when connectivity returns or the token changes. *)
RestartNetwork ==
  /\ network
  /\ resets < MaxResets
  /\ resets' = resets + 1
  /\ StartNetwork(currentUser, mutationQueue)
  /\ UNCHANGED <<disk, engine, network, server, issued, told, breaks, restarts>>

DisableNetwork ==
  /\ network
  /\ resets < MaxResets
  /\ resets' = resets + 1
  /\ network' = FALSE
  /\ pipeline' = <<>>
  /\ state' = IF state = "error" THEN "error" ELSE "initial"
  /\ Closed
  /\ UNCHANGED <<disk, engine, server, issued, told, breaks, restarts>>

EnableNetwork ==
  /\ ~network
  /\ network' = TRUE
  /\ pipeline' = Added(<<>>, mutationQueue[currentUser])
  /\ state' = Started(state, pipeline')
  /\ UNCHANGED <<disk, engine, handshake, idle, wire, server, history>>

(* HandleCredentialChange: another mutation queue, numbered anew. *)
SwitchUser(u) ==
  /\ u # currentUser
  /\ resets < MaxResets
  /\ resets' = resets + 1
  /\ currentUser' = u
  /\ nextBatchId' = NextId(mutationQueue)
  /\ IF network THEN StartNetwork(u, mutationQueue)
     ELSE UNCHANGED <<pipeline, stream, wire>>
  /\ UNCHANGED <<disk, callbacks, network, server, issued, told, breaks, restarts>>

(* What an interrupted handler leaves behind: HandleSuccessfulWrite tells   *)
(* the callback before the batch is removed, HandleRejectedWrite after.     *)
HalfDone ==
  \/ UNCHANGED <<mutationQueue, told>>
  \/ /\ state = "open" /\ handshake /\ responses # <<>>
     /\ told' = [w \in Writes |-> IF \E c \in Waiting(Head(pipeline)) : c.write = w
                                  THEN "ok" ELSE told[w]]
     /\ UNCHANGED mutationQueue
  \/ /\ RefusalArrives
     /\ mutationQueue' = Without(Head(pipeline))
     /\ UNCHANGED told

(* The process dies, perhaps in the middle of a handler, and starts again. *)
Crash ==
  /\ restarts < MaxRestarts
  /\ restarts' = restarts + 1
  /\ HalfDone
  /\ callbacks' = [u \in User |-> {}]
  /\ nextBatchId' = NextId(mutationQueue')
  /\ network' = TRUE
  /\ StartNetwork(currentUser, mutationQueue')
  /\ UNCHANGED <<currentUser, server, issued, breaks, resets>>

-----------------------------------------------------------------------------
Client ==
  \/ OpenStream \/ BackoffElapses \/ HandshakeComplete \/ MutationResult \/ WriteError

Server == ServerGreets \/ ServerApplies \/ ServerRefuses

Next ==
  \/ IssueWrite
  \/ Client
  \/ TokenFails \/ StreamBreaks \/ IdleTimeout
  \/ Server
  \/ RestartNetwork \/ DisableNetwork \/ EnableNetwork
  \/ \E u \in User : SwitchUser(u)
  \/ Crash

Spec == Init /\ [][Next]_vars

(* The worker queue runs what is due, and the server answers in the end. *)
FairSpec == Spec /\ WF_vars(Client) /\ WF_vars(Server)

-----------------------------------------------------------------------------
(* Properties *)

Ascending(q) == \A i, j \in DOMAIN q : i < j => q[i].id < q[j].id

(* Type correctness: batch ids ascend in each queue, and the next id is     *)
(* greater than those of the current user's batches.                        *)
TypeOK ==
  /\ currentUser \in User
  /\ mutationQueue \in [User -> Seq(Batch)]
  /\ \A u \in User : Ascending(mutationQueue[u])
  /\ nextBatchId \in Nat
  /\ \A i \in DOMAIN mutationQueue[currentUser] : mutationQueue[currentUser][i].id < nextBatchId
  /\ callbacks \in [User -> SUBSET Batch]
  /\ pipeline \in Seq(Batch)
  /\ network \in BOOLEAN
  /\ state \in StreamState /\ handshake \in BOOLEAN /\ idle \in BOOLEAN
  /\ requests \in Seq(Batch \cup {Hello}) /\ responses \in Seq(Batch \cup {Hello})
  /\ fault \in Batch \cup {NoBatch}
  /\ issued \in Seq(User)
  /\ applied \subseteq Writes /\ refused \subseteq Writes
  /\ newest \in [User -> Writes \cup {0}]
  /\ told \in [Writes -> {"nothing", "ok", "error"}]
  /\ breaks \in Nat /\ restarts \in Nat /\ resets \in Nat

(* The pipeline is a copy of the front of the current user's queue, across  *)
(* failed streams, changes of user and restarts: FillWritePipeline neither  *)
(* skips a batch nor takes one twice, and no batch of another user is left. *)
PipelineIsPrefix ==
  /\ Len(pipeline) <= MaxPendingWrites
  /\ IsPrefix(pipeline, mutationQueue[currentUser])

(* What is on the wire: results, then the refusal, then what was not read.  *)
UnderWay == responses \o (IF fault = NoBatch THEN <<>> ELSE <<fault>>) \o requests

(* A result is matched with the first batch of the pipeline by position     *)
(* alone; that is right because the results, the refusal and the requests   *)
(* of the open stream are the pipeline, batch by batch.                     *)
AnswersMatchPipeline ==
  IF state = "open" /\ handshake
    THEN UnderWay = pipeline
    ELSE /\ ~handshake /\ fault = NoBatch
         /\ state = "open" <=> UnderWay = <<Hello>>
         /\ state # "open" => UnderWay = <<>>

(* The idleness timer runs only on a stream nobody needs, as the assertion  *)
(* "Write stream was stopped gracefully while still needed" expects.        *)
IdleOnlyWhenEmpty == idle => state = "open" /\ handshake /\ pipeline = <<>>

(* A completion that hears of success speaks of a write the server has.     *)
TellsTruth == \A w \in Writes : told[w] = "ok" => w \in applied

(* The comment of HandleWriteError: a permanent error is the fault of the   *)
(* request that is rejected.                                                *)
RejectedWasRefused == \A w \in Writes : told[w] = "error" => w \in refused

(* A completion waits for a batch that is still there: batch ids are used   *)
(* again, and a completion left behind would hear of another write's fate.  *)
CompletionsKeepTheirBatch ==
  \A u \in User : callbacks[u] \subseteq ToSet(mutationQueue[u])

WritesOf(u) == {w \in DOMAIN issued : issued[w] = u}
Queued(u) == {mutationQueue[u][i].write : i \in DOMAIN mutationQueue[u]}

(* Each queue holds writes of its user, in the order of issue; an id is     *)
(* never greater than the number of writes, though ids are used again.      *)
QueuesInOrder ==
  /\ Len(issued) <= MaxWrites
  /\ nextBatchId \in 1..(Len(issued) + 1)
  /\ \A u \in User : LET own == WritesOf(u) IN \A i \in DOMAIN mutationQueue[u] :
       /\ mutationQueue[u][i].id \in 1..Len(issued)
       /\ mutationQueue[u][i].write \in own
       /\ \A j \in DOMAIN mutationQueue[u] :
            i < j => mutationQueue[u][i].write < mutationQueue[u][j].write

(* While the network is disabled nothing is in the pipeline or under way. *)
StoppedWhenDisabled ==
  ~network => pipeline = <<>> /\ state \in {"initial", "error"}

(* What is on its way to the client is what the server did last. *)
AnswersAreFacts ==
  /\ \A i \in DOMAIN responses : responses[i] # Hello =>
       /\ responses[i].write \in applied
       /\ responses[i].write <= newest[currentUser]
  /\ fault # NoBatch => fault.write \in refused

(* A write that has left the queue is older than all that are left, and     *)
(* what the server applied last is not older than it.                       *)
LastWordStands ==
  \A u \in User : LET left == Queued(u) IN
    \A w \in WritesOf(u) \ left :
      /\ \A x \in left : w < x
      /\ w \in applied \ refused => w <= newest[u]

(* The write stream and its bookkeeping fit together, across failed streams, *)
(* changes of user and restarts.                                            *)
PipelineInv ==
  /\ TypeOK
  /\ PipelineIsPrefix
  /\ AnswersMatchPipeline
  /\ IdleOnlyWhenEmpty
  /\ CompletionsKeepTheirBatch
  /\ QueuesInOrder
  /\ StoppedWhenDisabled
  /\ AnswersAreFacts
  /\ LastWordStands

(* No write disappears: until the server has applied or refused it, it is   *)
(* in the queue of the user who issued it, whatever fails, whoever is       *)
(* signed in, and however often the process dies.                           *)
NoWriteLost ==
  \A u \in User : WritesOf(u) \subseteq Queued(u) \cup applied \cup refused

(* Writes are sent again after a failure, old ones after newer ones; still, *)
(* when a user's queue is empty, the server's last word is not older than   *)
(* any write it applied and never refused.                                  *)
Converges ==
  \A u \in User :
    mutationQueue[u] = <<>> => \A w \in WritesOf(u) \cap (applied \ refused) : newest[u] >= w

(* As long as a user stays signed in with the network enabled, his writes   *)
(* leave the queue.                                                         *)
Delivered ==
  \A u \in User :
    <>[](currentUser = u /\ network) => []<>(mutationQueue[u] = <<>>)

(* Seen from the users, all of this is a queue with verdicts. *)
WQ ==
  INSTANCE WriteQueue WITH
    Write    <- Writes,
    queue    <- [u \in User |-> [i \in DOMAIN mutationQueue[u] |-> mutationQueue[u][i].write]],
    heard    <- [u \in User |-> [i \in DOMAIN mutationQueue[u] |->
                                   mutationQueue[u][i] \in callbacks[u]]],
    verdicts <- [u \in User |->
                   IF u # currentUser \/ ~handshake THEN <<>>
                   ELSE [i \in DOMAIN responses |-> TRUE]
                          \o (IF fault = NoBatch THEN <<>> ELSE <<FALSE>>)]

(* The write pipeline keeps the promise of the write queue to every user:   *)
(* verdicts in order, every write settled once, whatever breaks.            *)
ImplementsWriteQueue == WQ!Spec
=============================================================================
