----------------------------- MODULE WriteQueue -----------------------------
(***************************************************************************)
(* What Firestore promises for the writes of each user: a persistent queue *)
(* that the server works off in order, giving its verdict on each write,   *)
(* and verdicts that come back in order.  When the connection breaks the   *)
(* verdicts on their way are lost and the server judges the same writes    *)
(* once more; a refusal ends the connection and is charged to the first    *)
(* write of the queue.                                                     *)
(*                                                                         *)
(* WritePipeline implements this module; Messaging is written on top of    *)
(* it.                                                                     *)
(***************************************************************************)
EXTENDS Naturals, SequencesExt

CONSTANTS User, Write

VARIABLES
  queue,     \* each user's writes that are not settled, in the order of issue
  heard,     \* for each of them, whether a completion waits for its verdict
  verdicts   \* the server's verdicts on a prefix of the queue, on their way

vars == <<queue, heard, verdicts>>

Init ==
  /\ queue = [u \in User |-> <<>>]
  /\ heard = [u \in User |-> <<>>]
  /\ verdicts = [u \in User |-> <<>>]

(* u's queue is what q and h say, with any number of new writes behind. *)
Extends(u, q, h) ==
  /\ queue'[u] \in Seq(Write) /\ IsPrefix(q, queue'[u])
  /\ heard'[u] \in Seq(BOOLEAN) /\ IsPrefix(h, heard'[u])
  /\ Len(heard'[u]) = Len(queue'[u])
  /\ queue' = [queue EXCEPT ![u] = queue'[u]]
  /\ heard' = [heard EXCEPT ![u] = heard'[u]]

(* The app hands over writes, with or without a completion. *)
Issue(u) ==
  /\ UNCHANGED verdicts
  /\ Extends(u, queue[u], heard[u])

Refused(u) == \E i \in DOMAIN verdicts[u] : ~verdicts[u][i]

(* The server accepts or refuses the next write; after a refusal it stops. *)
Judge(u) ==
  /\ ~Refused(u)
  /\ Len(verdicts[u]) < Len(queue[u])
  /\ \E verdict \in BOOLEAN : verdicts' = [verdicts EXCEPT ![u] = Append(@, verdict)]
  /\ UNCHANGED <<queue, heard>>

(* The first write is settled; its completion may issue further writes. *)
Accept(u) ==
  /\ verdicts[u] # <<>> /\ Head(verdicts[u])
  /\ verdicts' = [verdicts EXCEPT ![u] = Tail(@)]
  /\ Extends(u, Tail(queue[u]), Tail(heard[u]))

(* A refusal falls on the first write, even when it was another one's. *)
Reject(u) ==
  /\ Refused(u)
  /\ verdicts' = [verdicts EXCEPT ![u] = <<>>]
  /\ Extends(u, Tail(queue[u]), Tail(heard[u]))

(* The connection breaks. *)
Break(u) ==
  /\ verdicts' = [verdicts EXCEPT ![u] = <<>>]
  /\ UNCHANGED <<queue, heard>>

(* The process that serves the users of S dies, perhaps having removed a    *)
(* rejected write: the queues are persistent, the completions are not.      *)
Restart(S) ==
  /\ verdicts' = [u \in User |-> IF u \in S THEN <<>> ELSE verdicts[u]]
  /\ \/ UNCHANGED queue
     \/ \E u \in S : Refused(u) /\ queue' = [queue EXCEPT ![u] = Tail(@)]
  /\ heard' = [u \in User |-> IF u \in S THEN [i \in DOMAIN queue'[u] |-> FALSE]
                                        ELSE heard[u]]

Next ==
  \/ \E u \in User : Issue(u) \/ Judge(u) \/ Accept(u) \/ Reject(u) \/ Break(u)
  \/ \E S \in SUBSET User : Restart(S)

Spec == Init /\ [][Next]_vars
=============================================================================
