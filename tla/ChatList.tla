------------------------------ MODULE ChatList ------------------------------
(***************************************************************************)
(* What ChatList makes of the document changes its listener is given: the  *)
(* array behind the rows of the chat list.  A row is a conversation and    *)
(* the rank its time gives it, the newest first; a time that the server    *)
(* has not set yet counts as now.  The handler runs on the main queue,     *)
(* one event after the other, and nobody else changes the array; remove()  *)
(* in viewDidDisappear finds no registration, for none is kept.            *)
(***************************************************************************)
EXTENDS Naturals, Sequences, SequencesExt, Orders

Row(change) == [key |-> change.doc.key, rank |-> change.doc.rank]

Keys(list) == {list[i].key : i \in DOMAIN list}

(* Rows of the same time keep their order. *)
ByTime(list) ==
  Arranged(list, {p \in (DOMAIN list) \X (DOMAIN list) :
                    LET r == list[p[1]] s == list[p[2]] IN
                    r.rank < s.rank \/ (r.rank = s.rank /\ p[1] < p[2])})

(* Slip: what is modified stays where it was. *)
HandleChangeUnsorted(list, change) ==
  CASE change.type = "added"    -> Append(list, Row(change))
    [] change.type = "modified" ->
         [i \in DOMAIN list |-> IF list[i].key = change.doc.key THEN Row(change) ELSE list[i]]
    [] change.type = "removed" /\ change.doc.key \in Keys(list) ->
         RemoveAt(list, CHOOSE i \in DOMAIN list :
                          /\ list[i].key = change.doc.key
                          /\ \A j \in 1..(i - 1) : list[j].key # change.doc.key)
    [] OTHER -> list

(* A change at a time.  What is added goes to the end, what is modified is   *)
(* replaced and everything sorted.                                           *)
HandleChange(list, change) ==
  CASE change.type = "added"    -> Append(list, Row(change))
    [] change.type = "modified" ->
         ByTime([i \in DOMAIN list |-> IF list[i].key = change.doc.key THEN Row(change) ELSE list[i]])
    [] change.type = "removed" /\ change.doc.key \in Keys(list) ->
         RemoveAt(list, CHOOSE i \in DOMAIN list :
                          /\ list[i].key = change.doc.key
                          /\ \A j \in 1..(i - 1) : list[j].key # change.doc.key)
    [] OTHER -> list

Handle(list, event) ==
  LET after[n \in 0..Len(event)] ==
        IF n = 0 THEN list ELSE HandleChange(after[n - 1], event[n])
  IN after[Len(event)]
=============================================================================
