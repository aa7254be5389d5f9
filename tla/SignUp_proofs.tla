--------------------------- MODULE SignUp_proofs ---------------------------
(***************************************************************************)
(* A finished account is whole, keeps the address it began with and stays  *)
(* finished, for any number of devices and faults.                         *)
(***************************************************************************)
EXTENDS SignUp, SequenceTheorems, WellFoundedInduction, TLAPS

(* The writes of the chains.  Early ones come before an account is complete, *)
(* late ones complete it.                                                    *)
IsMerge(w)     == w.op = "merge" /\ w.doc = "task-user" /\ w.fields # {}
IsStatus(w, v) == w.op = "set" /\ w.doc = "status" /\ w.fields = {v}
IsDelete(w)    == w.op = "delete" /\ w.doc = "task-user" /\ w.fields = {}
IsUser(w)      == w.op = "set" /\ w.doc = "user" /\ w.fields # {}

Early(w)   == IsMerge(w) \/ IsStatus(w, "false")
Late(w)    == IsStatus(w, "true") \/ IsDelete(w) \/ IsUser(w)
Mailing(w) == IsMerge(w) /\ "mail" \in w.fields
Bare(w)    == IsMerge(w) /\ "mail" \notin w.fields

Statuses == {{}, {"true"}, {"false"}}

(* A late write is queued only when nothing else is. *)
Shaped(q) == \A i \in 1..Len(q) : Early(q[i]) \/ (i = 1 /\ Late(q[i]))

-----------------------------------------------------------------------------
(* Sequences *)

LEMMA Least ==
  ASSUME NEW S, S \subseteq Nat, S # {}
  PROVE  \E m \in S : \A k \in S : m <= k
<1>1. IsWellFoundedOn(OpToRel(<, Nat), Nat)
  BY NatLessThanWellFounded
<1>2. PICK m \in S : \A k \in S : ~(<<k, m>> \in OpToRel(<, Nat))
  BY <1>1, WFMin
<1>3. \A k \in S : k \in Nat /\ m \in Nat /\ ~(k < m)
  BY <1>2 DEF OpToRel
<1>4. QED
  BY <1>3

LEMMA SeqIs ==
  ASSUME NEW S, NEW s \in Seq(S)
  PROVE  /\ Len(s) \in Nat /\ DOMAIN s = 1..Len(s) /\ \A i \in 1..Len(s) : s[i] \in S
         /\ s = <<>> <=> Len(s) = 0
<1>1. Len(s) \in Nat /\ DOMAIN s = 1..Len(s) /\ s \in [1..Len(s) -> S]
  BY LenProperties
<1>2. s = <<>> <=> Len(s) = 0
  BY EmptySeq
<1>3. QED
  BY <1>1, <1>2

LEMMA AppendIs ==
  ASSUME NEW S, NEW s \in Seq(S), NEW x \in S
  PROVE  /\ Append(s, x) \in Seq(S) /\ Len(Append(s, x)) = Len(s) + 1 /\ Len(s) \in Nat
         /\ \A i \in 1..Len(s) : Append(s, x)[i] = s[i]
         /\ Append(s, x)[Len(s) + 1] = x
BY AppendProperties

LEMMA TailIs ==
  ASSUME NEW S, NEW s \in Seq(S), s # <<>>
  PROVE  /\ Tail(s) \in Seq(S) /\ Len(s) \in Nat \ {0} /\ Len(Tail(s)) = Len(s) - 1
         /\ \A i \in 1..(Len(s) - 1) : Tail(s)[i] = s[i + 1]
         /\ Head(s) = s[1] /\ Head(s) \in S
BY HeadTailProperties, SeqIs

-----------------------------------------------------------------------------
(* What a query finds under the queued writes *)

Under(ds, q) ==
  LET after[n \in 0..Len(q)] == IF n = 0 THEN ds ELSE Apply(after[n - 1], q[n])
  IN after[Len(q)]

LEMMA ViewIs == ASSUME NEW d PROVE View(d) = Under(docs, queue[d])
BY DEF View, Under

LEMMA UnderSteps ==
  ASSUME NEW ds, NEW q, Len(q) \in Nat
  PROVE  \E after : /\ after[0] = ds /\ Under(ds, q) = after[Len(q)]
                    /\ \A n \in 1..Len(q) : after[n] = Apply(after[n - 1], q[n])
<1> DEFINE Loop(f, m) == f = [n \in 0..m |-> IF n = 0 THEN ds ELSE Apply(f[n - 1], q[n])]
           Bad == {m \in Nat : ~\E f : Loop(f, m)}
<1>1. ASSUME Bad # {} PROVE FALSE
  <2>1. PICK m \in Bad : \A k \in Bad : m <= k
    BY <1>1, Least
  <2>2. CASE m = 0
    <3> DEFINE f == [n \in 0..0 |-> ds]
    <3>1. Loop(f, 0)
      OBVIOUS
    <3>2. QED
      BY <3>1, <2>1, <2>2
  <2>3. CASE m # 0
    <3>1. m \in Nat /\ m - 1 \in Nat /\ ~(m <= m - 1)
      <4>1. m \in Nat
        BY <2>1
      <4>2. QED
        BY <2>3, <4>1
    <3>2. PICK f : Loop(f, m - 1)
      <4>1. m - 1 \notin Bad
        BY <2>1, <3>1
      <4>2. QED
        BY <3>1, <4>1
    <3> DEFINE g == [n \in 0..m |-> IF n = m THEN Apply(f[m - 1], q[m]) ELSE f[n]]
    <3>3. ASSUME NEW n \in 0..m
          PROVE  g[n] = IF n = 0 THEN ds ELSE Apply(g[n - 1], q[n])
      <4>1. CASE n = m
        <5>1. n # 0 /\ n - 1 \in 0..m /\ n - 1 # m
          BY <2>3, <3>1, <4>1
        <5>2. QED
          BY <4>1, <5>1
      <4>2. CASE n # m
        <5>1. n \in 0..(m - 1)
          BY <3>1, <4>2
        <5>2. f[n] = IF n = 0 THEN ds ELSE Apply(f[n - 1], q[n])
          BY <3>2, <5>1
        <5>3. n # 0 => n - 1 \in 0..m /\ n - 1 # m
          BY <3>1, <5>1
        <5>4. QED
          BY <4>2, <5>2, <5>3
      <4>3. QED
        BY <4>1, <4>2
    <3>4. Loop(g, m)
      <4> HIDE DEF g
      <4>1. g = [n \in 0..m |-> g[n]]
        BY DEF g
      <4>2. QED
        BY <3>3, <4>1
    <3>5. QED
      BY <2>1, <3>4
  <2>4. QED
    BY <2>2, <2>3
<1>2. \E f : Loop(f, Len(q))
  BY <1>1
<1> DEFINE after == CHOOSE f : Loop(f, Len(q))
<1>3. Loop(after, Len(q)) /\ Under(ds, q) = after[Len(q)]
  BY <1>2 DEF Under
<1> HIDE DEF after
<1>4. after[0] = ds /\ \A n \in 1..Len(q) : after[n] = Apply(after[n - 1], q[n])
  BY <1>3
<1>5. QED
  BY <1>3, <1>4

(* What holds from the k-th write on and is kept by those behind it holds of *)
(* what is found.                                                            *)
LEMMA UnderKeeps ==
  ASSUME NEW ds, NEW q, Len(q) \in Nat, NEW T, NEW k \in {0, 1}, k <= Len(q),
         k = 0 => ds \in T,
         k = 1 => Apply(ds, q[1]) \in T,
         \A x \in T, i \in 1..Len(q) : k < i => Apply(x, q[i]) \in T
  PROVE  Under(ds, q) \in T
<1>1. PICK after : /\ after[0] = ds /\ Under(ds, q) = after[Len(q)]
                   /\ \A n \in 1..Len(q) : after[n] = Apply(after[n - 1], q[n])
  BY UnderSteps
<1> DEFINE Bad == {n \in Nat : k <= n /\ n <= Len(q) /\ after[n] \notin T}
<1>2. ASSUME Bad # {} PROVE FALSE
  <2>1. PICK m \in Bad : \A n \in Bad : m <= n
    BY <1>2, Least
  <2>2. m \in Nat /\ k <= m /\ m <= Len(q) /\ after[m] \notin T
    BY <2>1
  <2>3. CASE m = 0
    BY <1>1, <2>2, <2>3
  <2>4. CASE m # 0
    <3>1. m \in 1..Len(q) /\ m - 1 \in Nat /\ m - 1 <= Len(q) /\ after[m] = Apply(after[m - 1], q[m])
      BY <1>1, <2>2, <2>4
    <3>2. CASE k = m
      <4>1. k = 1 /\ m = 1
        BY <2>4, <3>2
      <4>2. QED
        BY <1>1, <2>2, <3>1, <4>1
    <3>3. CASE k < m
      <4>1. m - 1 \notin Bad
        BY <2>1, <2>2, <3>1
      <4>2. after[m - 1] \in T
        BY <3>1, <3>3, <4>1
      <4>3. QED
        BY <2>2, <3>1, <3>3, <4>2
    <3>4. QED
      BY <2>2, <3>2, <3>3
  <2>5. QED
    BY <2>3, <2>4
<1>3. QED
  BY <1>1, <1>2

LEMMA WritesAre ==
  ASSUME NEW w \in Write
  PROVE  /\ IsMerge(w) => ~IsDelete(w) /\ ~IsUser(w) /\ \A v : ~IsStatus(w, v)
         /\ IsDelete(w) => ~IsUser(w) /\ \A v : ~IsStatus(w, v)
         /\ IsUser(w) => \A v : ~IsStatus(w, v)
         /\ ~(IsStatus(w, "true") /\ IsStatus(w, "false"))
         /\ w.fields \in SUBSET Field
<1>1. w.fields \in SUBSET Field
  BY DEF Write
<1>2. ~({"true"} = {"false"})
  OBVIOUS
<1>3. QED
  BY <1>1, <1>2 DEF IsMerge, IsDelete, IsUser, IsStatus

LEMMA ApplyIs ==
  ASSUME NEW ds \in Docs, NEW w \in Write
  PROVE  LET to == Apply(ds, w) IN
         /\ to \in Docs
         /\ IsMerge(w) => /\ to["task-user"] = ds["task-user"] \cup w.fields
                          /\ to["status"] = ds["status"] /\ to["user"] = ds["user"]
         /\ IsDelete(w) => /\ to["task-user"] = {}
                           /\ to["status"] = ds["status"] /\ to["user"] = ds["user"]
         /\ IsUser(w) => /\ to["user"] = w.fields
                         /\ to["status"] = ds["status"] /\ to["task-user"] = ds["task-user"]
         /\ \A v : IsStatus(w, v) => /\ to["status"] = {v}
                                     /\ to["user"] = ds["user"] /\ to["task-user"] = ds["task-user"]
<1>1. /\ w.doc \in Doc /\ w.fields \in SUBSET Field
      /\ DOMAIN ds = Doc /\ \A x \in Doc : ds[x] \in SUBSET Field
  BY DEF Write, Docs
<1> DEFINE new == IF w.op = "merge" THEN ds[w.doc] \cup w.fields ELSE w.fields
<1>2. new \in SUBSET Field
  BY <1>1
<1>3. Apply(ds, w) = [ds EXCEPT ![w.doc] = new]
  BY DEF Apply
<1> HIDE DEF new
<1>4. /\ Apply(ds, w) \in Docs
      /\ \A x \in Doc : Apply(ds, w)[x] = IF x = w.doc THEN new ELSE ds[x]
  BY <1>1, <1>2, <1>3 DEF Docs
<1>5. /\ w.op = "merge" => new = ds[w.doc] \cup w.fields
      /\ w.op # "merge" => new = w.fields
  BY DEF new
<1>6. QED
  BY <1>4, <1>5 DEF Doc, IsMerge, IsDelete, IsUser, IsStatus

(* What the shape of a queue says of each write. *)
LEMMA ShapedIs ==
  ASSUME NEW q \in Seq(Write), Shaped(q), NEW i \in 1..Len(q)
  PROVE  /\ q[i] \in Write
         /\ \/ IsMerge(q[i]) \/ IsStatus(q[i], "false")
            \/ i = 1 /\ (IsStatus(q[i], "true") \/ IsDelete(q[i]) \/ IsUser(q[i]))
BY SeqIs DEF Shaped, Early, Late

LEMMA ViewTyped ==
  ASSUME NEW ds \in Docs, ds["status"] \in Statuses, NEW q \in Seq(Write), Shaped(q)
  PROVE  Under(ds, q) \in Docs /\ Under(ds, q)["status"] \in Statuses
<1> DEFINE T == {x \in Docs : x["status"] \in Statuses}
<1>1. Len(q) \in Nat
  BY SeqIs
<1>2. ASSUME NEW x \in T, NEW i \in 1..Len(q) PROVE Apply(x, q[i]) \in T
  <2>1. x \in Docs /\ x["status"] \in Statuses
    OBVIOUS
  <2>2. q[i] \in Write /\ (IsMerge(q[i]) \/ IsStatus(q[i], "false") \/ IsStatus(q[i], "true")
                            \/ IsDelete(q[i]) \/ IsUser(q[i]))
    BY ShapedIs
  <2>3. Apply(x, q[i]) \in Docs /\ Apply(x, q[i])["status"] \in {x["status"], {"false"}, {"true"}}
    BY <2>1, <2>2, ApplyIs
  <2>4. QED
    BY <2>1, <2>3 DEF Statuses
<1>3. ds \in T
  OBVIOUS
<1> HIDE DEF T
<1>4. Under(ds, q) \in T
  BY <1>1, <1>2, <1>3, UnderKeeps
<1>5. QED
  BY <1>4 DEF T

LEMMA ViewFew ==
  ASSUME NEW ds \in Docs, NEW q \in Seq(Write)
  PROVE  /\ q = <<>> => Under(ds, q) = ds
         /\ Len(q) = 1 => Under(ds, q) = Apply(ds, q[1])
<1>1. Len(q) \in Nat /\ (q = <<>> => Len(q) = 0)
  BY SeqIs
<1>2. PICK after : /\ after[0] = ds /\ Under(ds, q) = after[Len(q)]
                   /\ \A n \in 1..Len(q) : after[n] = Apply(after[n - 1], q[n])
  BY <1>1, UnderSteps
<1>3. QED
  BY <1>1, <1>2

(* No user document is found only where there is none and none is queued. *)
LEMMA ViewUser ==
  ASSUME NEW ds \in Docs, NEW q \in Seq(Write), Shaped(q), Under(ds, q)["user"] = {}
  PROVE  ds["user"] = {} /\ \A i \in 1..Len(q) : ~IsUser(q[i])
<1> DEFINE T == {x \in Docs : x["user"] # {}}
<1>1. Len(q) \in Nat /\ Under(ds, q) \notin T
  BY SeqIs
<1>2. ASSUME NEW x \in T, NEW i \in 1..Len(q) PROVE Apply(x, q[i]) \in T
  <2>1. x \in Docs /\ x["user"] # {}
    OBVIOUS
  <2>2. q[i] \in Write /\ (IsMerge(q[i]) \/ IsStatus(q[i], "false") \/ IsStatus(q[i], "true")
                            \/ IsDelete(q[i]) \/ IsUser(q[i]))
    BY ShapedIs
  <2>3. IsUser(q[i]) => q[i].fields # {}
    BY DEF IsUser
  <2>4. Apply(x, q[i]) \in Docs /\ Apply(x, q[i])["user"] # {}
    BY <2>1, <2>2, <2>3, ApplyIs
  <2>5. QED
    BY <2>4
<1>3. ASSUME ds["user"] # {} PROVE FALSE
  <2>1. ds \in T
    BY <1>3
  <2> HIDE DEF T
  <2>2. QED
    BY <1>1, <1>2, <2>1, UnderKeeps
<1>4. ASSUME NEW i \in 1..Len(q), IsUser(q[i]) PROVE FALSE
  <2>1. i = 1 /\ q[1] \in Write /\ IsUser(q[1])
    BY <1>4, ShapedIs, WritesAre
  <2>2. Apply(ds, q[1]) \in T
    BY <2>1, ApplyIs DEF IsUser
  <2> HIDE DEF T
  <2>3. QED
    BY <1>1, <1>2, <2>1, <2>2, UnderKeeps
<1>5. QED
  BY <1>3, <1>4

LEMMA ViewEarly ==
  ASSUME NEW ds \in Docs, NEW q \in Seq(Write), \A i \in 1..Len(q) : Early(q[i])
  PROVE  Under(ds, q)["user"] = ds["user"]
<1> DEFINE T == {x \in Docs : x["user"] = ds["user"]}
<1>1. Len(q) \in Nat /\ ds \in T /\ \A i \in 1..Len(q) : q[i] \in Write
  BY SeqIs
<1>2. ASSUME NEW x \in T, NEW i \in 1..Len(q) PROVE Apply(x, q[i]) \in T
  BY <1>1, ApplyIs DEF Early
<1> HIDE DEF T
<1>3. Under(ds, q) \in T
  BY <1>1, <1>2, UnderKeeps
<1>4. QED
  BY <1>3 DEF T

(* A task-user document is found only where one is merged, or there is one   *)
(* that nobody deletes.                                                      *)
LEMMA ViewTask ==
  ASSUME NEW ds \in Docs, NEW q \in Seq(Write), Shaped(q), Under(ds, q)["task-user"] # {}
  PROVE  \/ \E i \in 1..Len(q) : IsMerge(q[i])
         \/ ds["task-user"] # {} /\ \A i \in 1..Len(q) : ~IsDelete(q[i])
<1> SUFFICES ASSUME \A i \in 1..Len(q) : ~IsMerge(q[i]),
                    ds["task-user"] = {} \/ \E i \in 1..Len(q) : IsDelete(q[i])
             PROVE  FALSE
  OBVIOUS
<1> DEFINE T == {x \in Docs : x["task-user"] = {}}
<1>1. Len(q) \in Nat /\ Under(ds, q) \notin T
  BY SeqIs
<1>2. ASSUME NEW x \in T, NEW i \in 1..Len(q) PROVE Apply(x, q[i]) \in T
  BY ShapedIs, ApplyIs
<1>3. CASE ds["task-user"] = {}
  <2>1. ds \in T
    BY <1>3
  <2> HIDE DEF T
  <2>2. QED
    BY <1>1, <1>2, <2>1, UnderKeeps
<1>4. CASE \E i \in 1..Len(q) : IsDelete(q[i])
  <2>1. PICK i \in 1..Len(q) : IsDelete(q[i])
    BY <1>4
  <2>2. i = 1 /\ q[1] \in Write /\ IsDelete(q[1])
    BY <2>1, ShapedIs, WritesAre
  <2>3. Apply(ds, q[1]) \in T
    BY <2>2, ApplyIs
  <2> HIDE DEF T
  <2>4. QED
    BY <1>1, <1>2, <2>1, <2>2, <2>3, UnderKeeps
<1>5. QED
  BY <1>3, <1>4

-----------------------------------------------------------------------------
(* What holds of one device, by its place p, queue q, answers a, sign-in au  *)
(* and profile prof, with the documents ds.                                  *)

Sound(p, q, a) ==
  /\ p \in Place /\ q \in Seq(Write) /\ a \in Seq(BOOLEAN) /\ Len(a) <= Len(q)
  /\ \A i \in 1..Len(q) : q[i].heard <=> i = Len(q) /\ p \in Writing
  /\ p \in Writing => q # <<>>
  /\ p = "rereading" => q = <<>>
  /\ Shaped(q)

(* Only a crash takes a completion away; only a refusal is answered FALSE.   *)
Calm(q, a, cr, rf) ==
  /\ cr = 0 => \A i \in 1..Len(q) : q[i].heard
  /\ rf = 0 => \A i \in 1..Len(a) : a[i]

(* A device that is not signed in waits for nothing but the sign-in, and one  *)
(* that deletes a profile holds it.                                          *)
Held(p, au, prof) ==
  /\ ~au => p \in {"login", "askStatus", "created"}
  /\ p = "deleting" => prof # {}

(* No query failed: an account is begun only when nobody has finished it.    *)
Fresh(ds, q) == ds["user"] = {} /\ \A i \in 1..Len(q) : ~IsUser(q[i])

Begun(ds, p, q) ==
  (p \in {"created", "registerTask", "checkTask"} \/ \E i \in 1..Len(q) : IsStatus(q[i], "false"))
    => Fresh(ds, q)

(* Nothing failed and nothing was refused: the late writes are queued one by *)
(* one, each after the one before it has reached the server.                 *)
Filling == {"created", "registerTask", "registerStatus", "googleStatus", "googleTask", "checkTask",
            "askTask", "form", "uploading", "picture", "thumb", "thumbWritten", "named"}

Whole(ds) == ds["user"] # {} => ds["status"] = {"true"} /\ ds["task-user"] = {}

Unfinished(ds, q) == ds["user"] = {} /\ \A i \in 1..Len(q) : Early(q[i])

QueuedStatus(ds, q, a) ==
  /\ Len(q) = 1 /\ IsStatus(q[1], "true") /\ ds["user"] = {}
  /\ a # <<>> => ds["status"] = {"true"}
QueuedDelete(ds, q, a) ==
  /\ Len(q) = 1 /\ IsDelete(q[1]) /\ ds["user"] = {} /\ ds["status"] = {"true"}
  /\ a # <<>> => ds["task-user"] = {}
QueuedUser(ds, q) ==
  Len(q) = 1 /\ IsUser(q[1]) /\ ds["status"] = {"true"} /\ ds["task-user"] = {}

InChain(ds, p, q, a, au) ==
  /\ q = <<>> \/ Unfinished(ds, q) \/ QueuedStatus(ds, q, a) \/ QueuedDelete(ds, q, a) \/ QueuedUser(ds, q)
  /\ p \in Filling => Unfinished(ds, q)
  /\ p = "finishing" => QueuedStatus(ds, q, a)
  /\ p = "rereading" => ds["status"] = {"true"} /\ ds["user"] = {}
  /\ p = "deleting" => QueuedDelete(ds, q, a)
  /\ ~au \/ p \in {"feed", "login", "checkUser"} => q = <<>> \/ QueuedUser(ds, q)

(* No crash or no refusal: a write that leaves out the address finds it in   *)
(* the document, or behind one that brings it.                               *)
Copying == {"form", "uploading", "picture", "thumb", "thumbWritten"}

MailDocs(ds) == \A x \in {"task-user", "user"} : ds[x] # {} => "mail" \in ds[x]

Holds(ds, q) == "mail" \in ds["task-user"] /\ \A i \in 1..Len(q) : ~IsDelete(q[i])

Covered(ds, q, n) == (\E i \in 1..(n - 1) : Mailing(q[i])) \/ Holds(ds, q)

MailFit(ds, p, q, a, prof, cr) ==
  /\ \A n \in 1..Len(q) :
       /\ IsUser(q[n]) => "mail" \in q[n].fields
       /\ Bare(q[n]) => Covered(ds, q, n)
       /\ n <= Len(a) /\ a[n] /\ Mailing(q[n]) => "mail" \in ds["task-user"]
  /\ p = "deleting" => "mail" \in prof
  /\ p \in Copying => Covered(ds, q, Len(q) + 1) /\ (cr = 0 => Holds(ds, q))

(* Before the account is created there is nothing. *)
Pristine ==
  account = "none" =>
    /\ docs = [x \in Doc |-> {}]
    /\ \A d \in Device : place[d] \in {"login", "askStatus"} /\ ~auth[d] /\ queue[d] = <<>>

AtWork(p, q) == p \notin Resting \/ q # <<>>

OneAtWork == \A d, e \in Device : AtWork(place[d], queue[d]) /\ AtWork(place[e], queue[e]) => d = e

IInv ==
  /\ TypeOK /\ docs["status"] \in Statuses /\ Pristine
  /\ \A d \in Device : /\ Sound(place[d], queue[d], answers[d])
                        /\ Calm(queue[d], answers[d], crashes, refusals)
                        /\ Held(place[d], auth[d], profile[d])
  /\ ~raced => OneAtWork
  /\ ~raced /\ errors = 0 => \A d \in Device : Begun(docs, place[d], queue[d])
  /\ ~raced /\ refusals + errors = 0 =>
       Whole(docs) /\ \A d \in Device : InChain(docs, place[d], queue[d], answers[d], auth[d])
  /\ ~raced /\ (crashes = 0 \/ refusals = 0) =>
       /\ MailDocs(docs)
       /\ \A d \in Device : MailFit(docs, place[d], queue[d], answers[d], profile[d], crashes)

-----------------------------------------------------------------------------
(* A step is one of a single device *)

LEMMA NoneOfTwo == ASSUME NEW m \in Nat, NEW n \in Nat PROVE m + n = 0 => m = 0 /\ n = 0
OBVIOUS

(* Whoever rests has nothing to be wrong about. *)
LEMMA Rests ==
  ASSUME NEW ds, NEW p, NEW q \in Seq(Write), NEW a, NEW au, NEW prof, NEW cr, ~AtWork(p, q)
  PROVE  Begun(ds, p, q) /\ InChain(ds, p, q, a, au) /\ MailFit(ds, p, q, a, prof, cr)
<1>1. p \in Resting /\ q = <<>> /\ Len(q) = 0
  BY SeqIs DEF AtWork
<1>2. \A i : i \notin 1..Len(q)
  BY <1>1
<1>3. /\ p \notin Filling /\ p \notin Copying
      /\ p \notin {"created", "registerTask", "checkTask", "finishing", "rereading", "deleting"}
  BY <1>1 DEF Resting, Filling, Copying
<1>4. Begun(ds, p, q)
  BY <1>2, <1>3 DEF Begun
<1>5. InChain(ds, p, q, a, au)
  BY <1>1, <1>3 DEF InChain
<1>6. MailFit(ds, p, q, a, prof, cr)
  BY <1>2, <1>3 DEF MailFit
<1>7. QED
  BY <1>4, <1>5, <1>6

(* Device d goes on to these values, and no other changes. *)
Local(d, p, q, a, au, prof) ==
  /\ place' = [place EXCEPT ![d] = p] /\ queue' = [queue EXCEPT ![d] = q]
  /\ answers' = [answers EXCEPT ![d] = a] /\ auth' = [auth EXCEPT ![d] = au]
  /\ profile' = [profile EXCEPT ![d] = prof]

(* If what d goes on to is in order, everything is. *)
Goes(d, p, q, a, au, prof) ==
  /\ Local(d, p, q, a, au, prof) /\ Race
  /\ au \in BOOLEAN /\ prof \in SUBSET Field
  /\ account' \in {"mail", "google"} \/ /\ UNCHANGED <<account, docs>> /\ account = "none"
                                        /\ p \in {"login", "askStatus"} /\ ~au /\ q = <<>>
  /\ docs' \in Docs /\ docs'["status"] \in Statuses
  /\ docs' = docs \/ AtWork(place[d], queue[d]) \/ AtWork(p, q)
  /\ crashes' \in Nat /\ breaks' \in Nat /\ refusals' \in Nat /\ errors' \in Nat
  /\ crashes <= crashes' /\ refusals <= refusals' /\ errors <= errors'
  /\ Sound(p, q, a) /\ Calm(q, a, crashes', refusals') /\ Held(p, au, prof)
  /\ ~raced /\ errors' = 0 => Begun(docs', p, q)
  /\ ~raced /\ refusals' + errors' = 0 => Whole(docs') /\ InChain(docs', p, q, a, au)
  /\ ~raced /\ (crashes' = 0 \/ refusals' = 0) => MailDocs(docs') /\ MailFit(docs', p, q, a, prof, crashes')

LEMMA StepKeeps ==
  ASSUME IInv, NEW d \in Device, NEW p, NEW q, NEW a, NEW au, NEW prof, Goes(d, p, q, a, au, prof)
  PROVE  IInv'
<1>1. /\ place'[d] = p /\ queue'[d] = q /\ answers'[d] = a /\ auth'[d] = au /\ profile'[d] = prof
      /\ \A e \in Device \ {d} : /\ place'[e] = place[e] /\ queue'[e] = queue[e]
                                 /\ answers'[e] = answers[e] /\ auth'[e] = auth[e]
                                 /\ profile'[e] = profile[e]
      /\ place' \in [Device -> Place] /\ queue' \in [Device -> Seq(Write)]
      /\ answers' \in [Device -> Seq(BOOLEAN)] /\ auth' \in [Device -> BOOLEAN]
      /\ profile' \in [Device -> SUBSET Field]
  BY DEF Goes, Local, Sound, IInv, TypeOK
<1>2. /\ crashes \in Nat /\ refusals \in Nat /\ errors \in Nat
      /\ crashes' \in Nat /\ refusals' \in Nat /\ errors' \in Nat /\ breaks' \in Nat
      /\ crashes <= crashes' /\ refusals <= refusals' /\ errors <= errors'
  BY DEF Goes, IInv, TypeOK
<1>3. ~raced /\ raced' \in BOOLEAN
      /\ (~raced' => \A e, f \in Device : e # f => ~(AtWork(place'[e], queue'[e]) /\ AtWork(place'[f], queue'[f])))
  BY DEF Goes, Race, Busy, AtWork
<1>4. \A e \in Device : Sound(place'[e], queue'[e], answers'[e]) /\ Held(place'[e], auth'[e], profile'[e])
  BY <1>1 DEF Goes, IInv
<1>5. \A e \in Device : Calm(queue'[e], answers'[e], crashes', refusals')
  <2> SUFFICES ASSUME NEW e \in Device PROVE Calm(queue'[e], answers'[e], crashes', refusals')
    OBVIOUS
  <2>1. CASE e = d
    BY <1>1, <2>1 DEF Goes
  <2>2. CASE e # d
    <3>1. Calm(queue[e], answers[e], crashes, refusals)
      BY DEF IInv
    <3>2. (crashes' = 0 => crashes = 0) /\ (refusals' = 0 => refusals = 0)
      BY <1>2
    <3>3. Calm(queue[e], answers[e], crashes', refusals')
      BY <3>1, <3>2 DEF Calm
    <3>4. QED
      BY <1>1, <2>2, <3>3
  <2>3. QED
    BY <2>1, <2>2
<1>6. Pristine'
  BY <1>1 DEF Goes, IInv, Pristine
<1>7. account' \in {"none", "mail", "google"} /\ docs' \in Docs /\ docs'["status"] \in Statuses
  BY DEF Goes
<1>8. TypeOK'
  <2>1. \A e \in Device :
          /\ Len(answers'[e]) <= Len(queue'[e])
          /\ \A i \in DOMAIN queue'[e] :
               queue'[e][i].heard <=> i = Len(queue'[e]) /\ place'[e] \in Writing
          /\ place'[e] \in Writing => queue'[e] # <<>>
    BY <1>4, SeqIs DEF Sound
  <2>2. QED
    BY <1>1, <1>2, <1>3, <1>7, <2>1 DEF TypeOK
<1>9. ~raced' => OneAtWork'
  BY <1>3 DEF OneAtWork
<1>10. ASSUME ~raced', NEW e \in Device \ {d}, docs' # docs
       PROVE  ~AtWork(place'[e], queue'[e]) /\ queue'[e] \in Seq(Write)
  <2>1. AtWork(place[d], queue[d]) => ~AtWork(place[e], queue[e])
    BY <1>3 DEF IInv, OneAtWork
  <2>2. AtWork(p, q) => ~AtWork(place'[e], queue'[e])
    BY <1>1, <1>3, <1>10
  <2>3. QED
    BY <1>1, <1>10, <2>1, <2>2 DEF Goes
<1>11. ASSUME ~raced', errors' = 0 PROVE \A e \in Device : Begun(docs', place'[e], queue'[e])
  <2> SUFFICES ASSUME NEW e \in Device PROVE Begun(docs', place'[e], queue'[e])
    OBVIOUS
  <2>1. CASE e = d
    BY <1>1, <1>3, <1>11, <2>1 DEF Goes
  <2>2. CASE e # d /\ docs' = docs
    <3>1. errors = 0
      BY <1>2, <1>11
    <3>2. QED
      BY <1>1, <1>3, <2>2, <3>1 DEF IInv
  <2>3. CASE e # d /\ docs' # docs
    BY <1>10, <1>11, <2>3, Rests
  <2>4. QED
    BY <2>1, <2>2, <2>3
<1>12. ASSUME ~raced', refusals' + errors' = 0
       PROVE  /\ Whole(docs')
              /\ \A e \in Device : InChain(docs', place'[e], queue'[e], answers'[e], auth'[e])
  <2>1. Whole(docs')
    BY <1>3, <1>12 DEF Goes
  <2> SUFFICES ASSUME NEW e \in Device PROVE InChain(docs', place'[e], queue'[e], answers'[e], auth'[e])
    BY <2>1
  <2>2. CASE e = d
    BY <1>1, <1>3, <1>12, <2>2 DEF Goes
  <2>3. CASE e # d /\ docs' = docs
    <3>1. refusals + errors = 0
      <4>1. refusals' = 0 /\ errors' = 0
        BY <1>2, <1>12, NoneOfTwo
      <4>2. refusals = 0 /\ errors = 0
        BY <1>2, <4>1
      <4>3. QED
        BY <4>2
    <3>2. QED
      BY <1>1, <1>3, <2>3, <3>1 DEF IInv
  <2>4. CASE e # d /\ docs' # docs
    BY <1>10, <1>12, <2>4, Rests
  <2>5. QED
    BY <2>2, <2>3, <2>4
<1>13. ASSUME ~raced', crashes' = 0 \/ refusals' = 0
       PROVE  /\ MailDocs(docs')
              /\ \A e \in Device : MailFit(docs', place'[e], queue'[e], answers'[e], profile'[e], crashes')
  <2>1. MailDocs(docs')
    BY <1>3, <1>13 DEF Goes
  <2> SUFFICES ASSUME NEW e \in Device
               PROVE  MailFit(docs', place'[e], queue'[e], answers'[e], profile'[e], crashes')
    BY <2>1
  <2>2. CASE e = d
    BY <1>1, <1>3, <1>13, <2>2 DEF Goes
  <2>3. CASE e # d /\ docs' = docs
    <3>1. (crashes = 0 \/ refusals = 0) /\ (crashes' = 0 => crashes = 0)
      BY <1>2, <1>13
    <3>2. MailFit(docs, place[e], queue[e], answers[e], profile[e], crashes)
      BY <1>3, <3>1 DEF IInv
    <3>3. MailFit(docs, place[e], queue[e], answers[e], profile[e], crashes')
      BY <3>1, <3>2 DEF MailFit
    <3>4. QED
      BY <1>1, <2>3, <3>3
  <2>4. CASE e # d /\ docs' # docs
    BY <1>10, <1>13, <2>4, Rests
  <2>5. QED
    BY <2>2, <2>3, <2>4
<1>14. QED
  BY <1>4, <1>5, <1>6, <1>7, <1>8, <1>9, <1>11, <1>12, <1>13 DEF IInv

-----------------------------------------------------------------------------
(* What becomes of a device's queue *)

New(op, doc, fields) == [op |-> op, doc |-> doc, fields |-> fields, heard |-> TRUE]

LEMMA NewIs ==
  /\ \A f \in SUBSET Field :
       /\ New("merge", "task-user", f) \in Write /\ New("merge", "task-user", f).heard
       /\ New("set", "user", f) \in Write /\ New("set", "user", f).heard
       /\ f # {} => IsMerge(New("merge", "task-user", f)) /\ IsUser(New("set", "user", f))
       /\ New("merge", "task-user", f).fields = f /\ New("set", "user", f).fields = f
  /\ \A v \in {"false", "true"} :
       /\ New("set", "status", {v}) \in Write /\ New("set", "status", {v}).heard
       /\ IsStatus(New("set", "status", {v}), v)
  /\ /\ New("delete", "task-user", {}) \in Write /\ New("delete", "task-user", {}).heard
     /\ IsDelete(New("delete", "task-user", {}))
BY DEF New, Write, Doc, Field, IsMerge, IsUser, IsStatus, IsDelete

LEMMA SoundIs ==
  ASSUME NEW p, NEW q, NEW a, Sound(p, q, a)
  PROVE  /\ p \in Place /\ q \in Seq(Write) /\ a \in Seq(BOOLEAN)
         /\ Len(q) \in Nat /\ Len(a) \in Nat /\ Len(a) <= Len(q) /\ Shaped(q)
         /\ DOMAIN q = 1..Len(q) /\ DOMAIN a = 1..Len(a)
         /\ \A i \in 1..Len(q) : q[i] \in Write
         /\ \A i \in 1..Len(a) : a[i] \in BOOLEAN
         /\ q = <<>> <=> Len(q) = 0
         /\ a = <<>> <=> Len(a) = 0
BY SeqIs DEF Sound

LEMMA SoundGo ==
  ASSUME NEW p, NEW q, NEW a, Sound(p, q, a), p \notin Writing,
         NEW p2 \in Place, p2 \notin Writing, p2 # "rereading"
  PROVE  Sound(p2, q, a)
BY DEF Sound

LEMMA SoundDrop ==
  ASSUME NEW p, NEW q, NEW a, Sound(p, q, a)
  PROVE  /\ Sound(p, q, <<>>)
         /\ \A cr, rf : Calm(q, a, cr, rf) => Calm(q, <<>>, cr, rf)
<1>1. <<>> \in Seq(BOOLEAN) /\ Len(<<>>) = 0 /\ Len(q) \in Nat
  BY SoundIs
<1>2. QED
  BY <1>1 DEF Sound, Calm

LEMMA SoundWrite ==
  ASSUME NEW p, NEW q, NEW a, Sound(p, q, a), p \notin Writing,
         NEW p2 \in Writing, NEW w \in Write, w.heard, Early(w) \/ (Late(w) /\ q = <<>>)
  PROVE  LET to == Append(q, w) IN
         /\ Sound(p2, to, a)
         /\ \A cr, rf : Calm(q, a, cr, rf) => Calm(to, a, cr, rf)
<1> DEFINE to == Append(q, w)
<1>1. /\ to \in Seq(Write) /\ Len(to) = Len(q) + 1 /\ Len(q) \in Nat /\ Len(a) \in Nat
      /\ \A i \in 1..Len(q) : to[i] = q[i]
      /\ to[Len(q) + 1] = w
  BY SoundIs, AppendIs
<1>2. \A i \in 1..Len(to) : (i \in 1..Len(q) /\ to[i] = q[i]) \/ (i = Len(q) + 1 /\ to[i] = w)
  BY <1>1
<1>3. to # <<>>
  BY <1>1, SeqIs
<1>4. p2 \in Place /\ p2 # "rereading"
  BY DEF Place, Writing
<1> HIDE DEF to
<1>5. Shaped(to)
  <2>1. Early(w) \/ (Late(w) /\ Len(q) = 0)
    BY SoundIs
  <2>2. ASSUME NEW i \in 1..Len(to) PROVE Early(to[i]) \/ (i = 1 /\ Late(to[i]))
    <3>1. CASE i \in 1..Len(q) /\ to[i] = q[i]
      BY <3>1 DEF Sound, Shaped
    <3>2. CASE i = Len(q) + 1 /\ to[i] = w
      BY <2>1, <3>2
    <3>3. QED
      BY <1>2, <3>1, <3>2
  <2>3. QED
    BY <2>2 DEF Shaped
<1>6. ASSUME NEW i \in 1..Len(to) PROVE to[i].heard <=> i = Len(to) /\ p2 \in Writing
  <2>1. CASE i \in 1..Len(q) /\ to[i] = q[i]
    BY <1>1, <2>1 DEF Sound
  <2>2. CASE i = Len(q) + 1 /\ to[i] = w
    BY <1>1, <2>2
  <2>3. QED
    BY <1>2, <2>1, <2>2
<1>7. Sound(p2, to, a)
  BY <1>1, <1>3, <1>4, <1>5, <1>6 DEF Sound
<1>8. \A cr, rf : Calm(q, a, cr, rf) => Calm(to, a, cr, rf)
  BY <1>2 DEF Calm
<1>9. QED
  BY <1>7, <1>8 DEF to

LEMMA SoundAnswer ==
  ASSUME NEW p, NEW q, NEW a, Sound(p, q, a), Len(a) < Len(q), NEW b \in BOOLEAN
  PROVE  LET to == Append(a, b) IN
         /\ Sound(p, q, to) /\ Len(to) = Len(a) + 1
         /\ \A i \in 1..Len(to) : (i \in 1..Len(a) /\ to[i] = a[i]) \/ (i = Len(a) + 1 /\ to[i] = b)
         /\ to # <<>>
<1> DEFINE to == Append(a, b)
<1>1. /\ to \in Seq(BOOLEAN) /\ Len(to) = Len(a) + 1 /\ Len(q) \in Nat /\ Len(a) \in Nat
      /\ \A i \in 1..Len(a) : to[i] = a[i]
      /\ to[Len(a) + 1] = b
  BY SoundIs, AppendIs
<1>2. \A i \in 1..Len(to) : (i \in 1..Len(a) /\ to[i] = a[i]) \/ (i = Len(a) + 1 /\ to[i] = b)
  BY <1>1
<1>3. to # <<>>
  BY <1>1, SeqIs
<1> HIDE DEF to
<1>4. Sound(p, q, to)
  BY <1>1 DEF Sound
<1>5. QED
  BY <1>1, <1>2, <1>3, <1>4 DEF to

(* The head is settled, and nobody hears of it. *)
LEMMA SoundPass ==
  ASSUME NEW p, NEW q, NEW a, Sound(p, q, a), q # <<>>, ~q[1].heard,
         NEW a2 \in Seq(BOOLEAN), Len(a2) <= Len(q) - 1
  PROVE  LET to == Tail(q) IN
         /\ Sound(p, to, a2) /\ Len(to) = Len(q) - 1 /\ Len(q) \in Nat \ {0}
         /\ \A i \in 1..Len(to) : to[i] = q[i + 1] /\ i + 1 \in 1..Len(q) /\ Early(to[i])
<1> DEFINE to == Tail(q)
<1>1. /\ to \in Seq(Write) /\ Len(q) \in Nat \ {0} /\ Len(to) = Len(q) - 1
      /\ \A i \in 1..Len(to) : to[i] = q[i + 1] /\ i + 1 \in 1..Len(q)
      /\ Len(to) \in Nat
  BY SoundIs, TailIs
<1> HIDE DEF to
<1>2. ASSUME NEW i \in 1..Len(to) PROVE Early(to[i])
  <2>1. i + 1 \in 1..Len(q) /\ i + 1 # 1 /\ to[i] = q[i + 1]
    BY <1>1
  <2>2. QED
    BY <2>1 DEF Sound, Shaped
<1>3. ASSUME NEW i \in 1..Len(to) PROVE to[i].heard <=> i = Len(to) /\ p \in Writing
  <2>1. i + 1 \in 1..Len(q) /\ to[i] = q[i + 1] /\ (i + 1 = Len(q) <=> i = Len(to))
    BY <1>1
  <2>2. QED
    BY <2>1 DEF Sound
<1>4. p \in Writing => Len(q) # 1
  <2>1. 1 \in 1..Len(q)
    BY <1>1
  <2>2. q[1].heard <=> 1 = Len(q) /\ p \in Writing
    BY <2>1 DEF Sound
  <2>3. QED
    BY <2>2
<1>5. p \in Writing => to # <<>>
  BY <1>1, <1>4, SeqIs
<1>6. p # "rereading"
  BY DEF Sound
<1>7. Sound(p, to, a2)
  BY <1>1, <1>2, <1>3, <1>5, <1>6 DEF Sound, Shaped
<1>8. QED
  BY <1>1, <1>2, <1>7 DEF to

(* The head is settled, and the device goes on: it was the only write. *)
LEMMA SoundHeard ==
  ASSUME NEW p, NEW q, NEW a, Sound(p, q, a), q # <<>>, q[1].heard
  PROVE  /\ Len(q) = 1 /\ p \in Writing /\ Tail(q) = <<>> /\ q[1] \in Write
         /\ a # <<>> => Tail(a) = <<>> /\ Len(a) = 1
<1>1. Len(q) \in Nat \ {0} /\ 1 \in 1..Len(q) /\ q[1] \in Write
  BY SoundIs
<1>2. Len(q) = 1 /\ p \in Writing
  BY <1>1 DEF Sound
<1>3. Tail(q) = <<>>
  BY <1>2, SoundIs, TailIs, SeqIs
<1>4. ASSUME a # <<>> PROVE Tail(a) = <<>> /\ Len(a) = 1
  <2>1. Len(a) = 1 /\ a \in Seq(BOOLEAN)
    BY <1>2, <1>4, SoundIs
  <2>2. QED
    BY <1>4, <2>1, TailIs, SeqIs
<1>5. QED
  BY <1>1, <1>2, <1>3, <1>4

LEMMA SoundNext ==
  ASSUME NEW p \in Place
  PROVE  /\ p \notin Writing => Sound(p, <<>>, <<>>)
         /\ p \in Writing => \A w \in Write : w.heard /\ (Early(w) \/ Late(w)) => Sound(p, <<w>>, <<>>)
         /\ \A cr, rf : Calm(<<>>, <<>>, cr, rf) /\ \A w \in Write : w.heard => Calm(<<w>>, <<>>, cr, rf)
<1>1. <<>> \in Seq(BOOLEAN) /\ <<>> \in Seq(Write) /\ Len(<<>>) = 0
  OBVIOUS
<1>2. ASSUME NEW w \in Write PROVE <<w>> \in Seq(Write) /\ Len(<<w>>) = 1 /\ <<w>>[1] = w /\ <<w>> # <<>>
  BY SeqIs
<1>3. p \notin Writing => Sound(p, <<>>, <<>>)
  BY <1>1 DEF Sound, Shaped
<1>4. ASSUME p \in Writing, NEW w \in Write, w.heard, Early(w) \/ Late(w) PROVE Sound(p, <<w>>, <<>>)
  <2>1. p # "rereading"
    BY <1>4 DEF Writing
  <2> DEFINE q == <<w>>
             e == <<>>
  <2>2. /\ q \in Seq(Write) /\ Len(q) = 1 /\ q[1] = w /\ q # <<>> /\ \A i \in 1..Len(q) : i = 1
        /\ e \in Seq(BOOLEAN) /\ Len(e) = 0
    BY <1>1, <1>2
  <2> HIDE DEF q, e
  <2>3. Sound(p, q, e)
    BY <1>4, <2>1, <2>2 DEF Sound, Shaped
  <2>4. QED
    BY <2>3 DEF q, e
<1>5. ASSUME NEW cr, NEW rf PROVE Calm(<<>>, <<>>, cr, rf) /\ \A w \in Write : w.heard => Calm(<<w>>, <<>>, cr, rf)
  BY <1>1, <1>2 DEF Calm
<1>6. QED
  BY <1>3, <1>4, <1>5

Unheard(q) == [i \in DOMAIN q |-> [q[i] EXCEPT !.heard = FALSE]]

LEMMA SoundCrash ==
  ASSUME NEW p, NEW q, NEW a, Sound(p, q, a)
  PROVE  LET to == Unheard(q) IN
         /\ Sound("askStatus", to, <<>>) /\ Len(to) = Len(q)
         /\ \A i \in 1..Len(q) : /\ to[i].op = q[i].op /\ to[i].doc = q[i].doc
                                 /\ to[i].fields = q[i].fields
         /\ q = <<>> => to = <<>>
<1> DEFINE to == Unheard(q)
<1>1. /\ DOMAIN q = 1..Len(q) /\ Len(q) \in Nat /\ q \in Seq(Write)
      /\ \A i \in 1..Len(q) : q[i] \in Write
  BY SoundIs
<1>2. \A i \in 1..Len(q) : /\ to[i] \in Write /\ ~to[i].heard /\ to[i].op = q[i].op
                           /\ to[i].doc = q[i].doc /\ to[i].fields = q[i].fields
  BY <1>1 DEF Unheard, Write
<1>3. DOMAIN to = 1..Len(q)
  BY <1>1 DEF Unheard
<1>4. to \in [1..Len(q) -> Write]
  BY <1>1, <1>2, <1>3 DEF Unheard
<1>5. to \in Seq(Write) /\ Len(to) = Len(q)
  <2>1. to \in Seq(Write)
    BY <1>1, <1>4, SeqDef
  <2>2. DOMAIN to = 1..Len(to) /\ Len(to) \in Nat
    BY <2>1, SeqIs
  <2>3. QED
    BY <1>1, <1>3, <2>1, <2>2
<1> HIDE DEF to
<1>6. Shaped(to)
  <2>1. ASSUME NEW i \in 1..Len(q)
        PROVE  (Early(q[i]) => Early(to[i])) /\ (Late(q[i]) => Late(to[i]))
    BY <1>2 DEF Early, Late, IsMerge, IsStatus, IsDelete, IsUser
  <2>2. QED
    BY <1>5, <2>1 DEF Sound, Shaped
<1>7. "askStatus" \in Place /\ "askStatus" \notin Writing /\ <<>> \in Seq(BOOLEAN) /\ Len(<<>>) = 0
  BY DEF Place, Waiting, Writing
<1>8. Sound("askStatus", to, <<>>)
  <2> DEFINE e == <<>>
  <2>1. /\ to \in Seq(Write) /\ e \in Seq(BOOLEAN) /\ Len(e) <= Len(to)
        /\ \A i \in 1..Len(to) : ~to[i].heard
    BY <1>1, <1>2, <1>5, <1>7
  <2> HIDE DEF e
  <2>2. Sound("askStatus", to, e)
    BY <1>6, <1>7, <2>1 DEF Sound
  <2>3. QED
    BY <2>2 DEF e
<1>9. q = <<>> => to = <<>>
  BY <1>5, SeqIs
<1>10. QED
  BY <1>2, <1>5, <1>8, <1>9 DEF to

-----------------------------------------------------------------------------
(* Steps that lead to another place *)

LEMMA Here ==
  ASSUME IInv, NEW d \in Device
  PROVE  /\ place = [place EXCEPT ![d] = place[d]] /\ queue = [queue EXCEPT ![d] = queue[d]]
         /\ answers = [answers EXCEPT ![d] = answers[d]] /\ auth = [auth EXCEPT ![d] = auth[d]]
         /\ profile = [profile EXCEPT ![d] = profile[d]]
         /\ docs \in Docs /\ docs["status"] \in Statuses
         /\ auth[d] \in BOOLEAN /\ profile[d] \in SUBSET Field
         /\ account \in {"none", "mail", "google"}
         /\ crashes \in Nat /\ breaks \in Nat /\ refusals \in Nat /\ errors \in Nat
         /\ Sound(place[d], queue[d], answers[d]) /\ Calm(queue[d], answers[d], crashes, refusals)
         /\ Held(place[d], auth[d], profile[d])
         /\ account = "none" => place[d] \in {"login", "askStatus"} /\ ~auth[d] /\ queue[d] = <<>>
         /\ ~raced /\ errors = 0 => Begun(docs, place[d], queue[d])
         /\ ~raced /\ refusals + errors = 0 =>
              Whole(docs) /\ InChain(docs, place[d], queue[d], answers[d], auth[d])
         /\ ~raced /\ (crashes = 0 \/ refusals = 0) =>
              MailDocs(docs) /\ MailFit(docs, place[d], queue[d], answers[d], profile[d], crashes)
BY DEF IInv, TypeOK, Pristine

LEMMA GoStep ==
  ASSUME IInv, NEW d \in Device, place[d] \notin Writing, Race,
         NEW p \in Place, p \notin Writing, p # "rereading", NEW au \in BOOLEAN, Held(p, au, profile[d]),
         Go(d, p), auth' = [auth EXCEPT ![d] = au],
         UNCHANGED <<docs, profile, queue, answers, crashes, breaks, refusals>>,
         errors' \in Nat, errors <= errors',
         account' \in {"mail", "google"} \/ (UNCHANGED account /\ account = "none" /\ p \in {"login", "askStatus"} /\ ~au),
         ~raced /\ errors' = 0 => (p \in {"created", "checkTask"} => Fresh(docs, queue[d])),
         ~raced /\ refusals + errors' = 0 =>
           /\ p \in Filling => Unfinished(docs, queue[d])
           /\ ~au \/ p \in {"feed", "login", "checkUser"} => queue[d] = <<>> \/ QueuedUser(docs, queue[d]),
         ~raced /\ (crashes = 0 \/ refusals = 0) =>
           (p \in Copying => /\ Covered(docs, queue[d], Len(queue[d]) + 1)
                             /\ crashes = 0 => Holds(docs, queue[d]))
  PROVE  IInv'
<1> DEFINE q == queue[d]
           a == answers[d]
<1>1. /\ docs' = docs /\ profile' = profile /\ queue' = queue /\ answers' = answers
      /\ crashes' = crashes /\ breaks' = breaks /\ refusals' = refusals
  OBVIOUS
<1>2. Local(d, p, q, a, au, profile[d])
  BY <1>1, Here DEF Local, Go
<1>3. Sound(p, q, a)
  BY Here, SoundGo
<1>4. p \notin {"registerTask", "finishing", "deleting", "rereading"}
  BY DEF Writing
<1>5. ~raced /\ errors' = 0 => Begun(docs, p, q)
  <2> HAVE ~raced /\ errors' = 0
  <2>1. errors = 0
    BY Here
  <2>2. Begun(docs, place[d], q)
    BY <2>1, Here
  <2>3. QED
    BY <1>4, <2>2 DEF Begun
<1>6. ~raced /\ refusals + errors' = 0 => Whole(docs) /\ InChain(docs, p, q, a, au)
  <2> HAVE ~raced /\ refusals + errors' = 0
  <2>1. refusals = 0 /\ errors' = 0
    BY Here, NoneOfTwo
  <2>2. refusals + errors = 0
    BY <2>1, Here
  <2>3. Whole(docs) /\ InChain(docs, place[d], q, a, auth[d])
    BY <2>2, Here
  <2>4. QED
    BY <1>4, <2>3 DEF InChain
<1>7. ~raced /\ (crashes = 0 \/ refusals = 0) => MailDocs(docs) /\ MailFit(docs, p, q, a, profile[d], crashes)
  <2> HAVE ~raced /\ (crashes = 0 \/ refusals = 0)
  <2>1. MailDocs(docs) /\ MailFit(docs, place[d], q, a, profile[d], crashes)
    BY Here
  <2>2. QED
    BY <1>4, <2>1 DEF MailFit
<1>8. account' \in {"mail", "google"} \/ (/\ UNCHANGED <<account, docs>> /\ account = "none"
                                          /\ p \in {"login", "askStatus"} /\ ~au /\ q = <<>>)
  BY Here
<1>9. Goes(d, p, q, a, au, profile[d])
  BY <1>1, <1>2, <1>3, <1>5, <1>6, <1>7, <1>8, Here DEF Goes
<1>10. QED
  BY <1>9, StepKeeps

(* Steps that begin with an early write. *)
LEMMA EarlyStep ==
  ASSUME IInv, NEW d \in Device, place[d] \notin Writing, Race,
         NEW w \in Write, w.heard, Early(w), NEW p \in Writing, p \in Filling,
         Go(d, p), auth' = [auth EXCEPT ![d] = TRUE], queue' = [queue EXCEPT ![d] = Append(@, w)],
         UNCHANGED <<account, docs, profile, answers, crashes, breaks, refusals>>,
         account # "none", errors' \in Nat, errors <= errors',
         ~raced /\ errors' = 0 =>
           (p = "registerTask" \/ IsStatus(w, "false") => Fresh(docs, queue[d])),
         ~raced /\ refusals + errors' = 0 => Unfinished(docs, queue[d]),
         ~raced /\ (crashes = 0 \/ refusals = 0) =>
           (Bare(w) \/ p \in Copying => /\ Covered(docs, queue[d], Len(queue[d]) + 1)
                                        /\ crashes = 0 => Holds(docs, queue[d]))
  PROVE  IInv'
<1> DEFINE q == queue[d]
           a == answers[d]
           to == Append(q, w)
<1>1. /\ docs' = docs /\ profile' = profile /\ answers' = answers /\ account' = account
      /\ crashes' = crashes /\ breaks' = breaks /\ refusals' = refusals
  OBVIOUS
<1>2. Local(d, p, to, a, TRUE, profile[d])
  BY <1>1, Here DEF Local, Go
<1>3. Sound(p, to, a) /\ Calm(to, a, crashes, refusals)
  BY Here, SoundWrite
<1>4. /\ Len(q) \in Nat /\ Len(to) = Len(q) + 1 /\ Len(a) \in Nat /\ Len(a) <= Len(q)
      /\ \A i \in 1..Len(q) : to[i] = q[i] /\ i \in 1..Len(to)
      /\ to[Len(q) + 1] = w
      /\ \A i \in 1..Len(to) : (i \in 1..Len(q) /\ to[i] = q[i]) \/ (i = Len(q) + 1 /\ to[i] = w)
  <2>1. /\ Len(q) \in Nat /\ Len(to) = Len(q) + 1 /\ Len(a) \in Nat /\ Len(a) <= Len(q)
        /\ \A i \in 1..Len(q) : to[i] = q[i]
        /\ to[Len(q) + 1] = w
    BY Here, SoundIs, AppendIs
  <2>2. QED
    BY <2>1
<1>5. p \notin {"checkTask", "created", "finishing", "rereading", "deleting", "feed", "login", "checkUser"}
  BY DEF Writing, Filling
<1>6. ~IsUser(w) /\ ~IsDelete(w)
  BY WritesAre DEF Early
<1> HIDE DEF to
<1>7. ~raced /\ errors' = 0 => Begun(docs, p, to)
  <2> HAVE ~raced /\ errors' = 0
  <2>1. errors = 0
    BY Here
  <2>2. Begun(docs, place[d], q)
    BY <2>1, Here
  <2>3. p \in {"created", "registerTask", "checkTask"} \/ (\E i \in 1..Len(to) : IsStatus(to[i], "false"))
          => Fresh(docs, q)
    BY <1>4, <1>5, <2>2 DEF Begun
  <2>4. Fresh(docs, q) => Fresh(docs, to)
    BY <1>4, <1>6 DEF Fresh
  <2>5. QED
    BY <2>3, <2>4 DEF Begun
<1>8. ~raced /\ refusals + errors' = 0 => Whole(docs) /\ InChain(docs, p, to, a, TRUE)
  <2> HAVE ~raced /\ refusals + errors' = 0
  <2>1. Unfinished(docs, to)
    BY <1>4 DEF Unfinished
  <2>2. Whole(docs)
    BY <2>1 DEF Whole, Unfinished
  <2>3. QED
    BY <1>5, <2>1, <2>2 DEF InChain
<1>9. ~raced /\ (crashes = 0 \/ refusals = 0) => MailDocs(docs) /\ MailFit(docs, p, to, a, profile[d], crashes)
  <2> HAVE ~raced /\ (crashes = 0 \/ refusals = 0)
  <2>1. MailDocs(docs) /\ MailFit(docs, place[d], q, a, profile[d], crashes)
    BY Here
  <2>2. Holds(docs, q) => Holds(docs, to)
    BY <1>4, <1>6 DEF Holds
  <2>3. \A n \in 1..(Len(q) + 1) : Covered(docs, q, n) => Covered(docs, to, n)
    BY <1>4, <2>2 DEF Covered
  <2>4. ASSUME NEW n \in 1..Len(to)
        PROVE  /\ IsUser(to[n]) => "mail" \in to[n].fields
               /\ Bare(to[n]) => Covered(docs, to, n)
               /\ n <= Len(a) /\ a[n] /\ Mailing(to[n]) => "mail" \in docs["task-user"]
    <3>1. CASE n \in 1..Len(q) /\ to[n] = q[n]
      BY <1>4, <2>1, <2>3, <3>1 DEF MailFit
    <3>2. CASE n = Len(q) + 1 /\ to[n] = w
      <4>1. ~(n <= Len(a))
        BY <1>4, <3>2
      <4>2. Bare(w) => Covered(docs, to, n)
        BY <1>4, <2>3, <3>2
      <4>3. QED
        BY <1>6, <3>2, <4>1, <4>2
    <3>3. QED
      BY <1>4, <3>1, <3>2
  <2>5. p \in Copying => Covered(docs, to, Len(to) + 1) /\ (crashes = 0 => Holds(docs, to))
    <3>1. Covered(docs, to, Len(q) + 1) => Covered(docs, to, Len(to) + 1)
      BY <1>4 DEF Covered
    <3>2. QED
      BY <1>4, <2>2, <2>3, <3>1
  <2>6. QED
    BY <1>5, <2>1, <2>4, <2>5 DEF MailFit
<1>10. Held(p, TRUE, profile[d])
  BY <1>5 DEF Held
<1>11. Goes(d, p, to, a, TRUE, profile[d])
  <2>1. /\ account' \in {"mail", "google"} /\ profile[d] \in SUBSET Field
        /\ docs' \in Docs /\ docs'["status"] \in Statuses
        /\ crashes' \in Nat /\ breaks' \in Nat /\ refusals' \in Nat
        /\ crashes <= crashes' /\ refusals <= refusals'
    BY <1>1, Here
  <2>2. /\ Calm(to, a, crashes', refusals')
        /\ ~raced /\ errors' = 0 => Begun(docs', p, to)
        /\ ~raced /\ refusals' + errors' = 0 => Whole(docs') /\ InChain(docs', p, to, a, TRUE)
        /\ ~raced /\ (crashes' = 0 \/ refusals' = 0) =>
             MailDocs(docs') /\ MailFit(docs', p, to, a, profile[d], crashes')
    BY <1>1, <1>3, <1>7, <1>8, <1>9
  <2>3. QED
    BY <1>1, <1>2, <1>3, <1>10, <2>1, <2>2 DEF Goes
<1>12. QED
  BY <1>11, StepKeeps

-----------------------------------------------------------------------------
(* Registering, signing in and the splash screen *)

LEMMA RegisterStep == ASSUME IInv, NEW d \in Device, Register(d), Race PROVE IInv'
<1>1. /\ place[d] = "login" /\ account = "none" /\ account' = "mail" /\ Go(d, "created")
      /\ UNCHANGED <<docs, auth, profile, queue, answers, crashes, breaks, refusals, errors>>
  BY DEF Register, faults
<1>2. ~auth[d] /\ queue[d] = <<>> /\ Len(queue[d]) = 0 /\ docs["user"] = {}
  BY <1>1, SeqIs DEF IInv, Pristine, Doc, TypeOK
<1>3. Fresh(docs, queue[d]) /\ Unfinished(docs, queue[d])
  BY <1>2 DEF Fresh, Unfinished
<1>4. /\ "login" \notin Writing /\ "created" \in Place /\ "created" \notin Writing /\ "created" \notin Copying
      /\ Held("created", auth[d], profile[d])
  BY DEF Writing, Waiting, Place, Copying, Held
<1>5. /\ auth' = [auth EXCEPT ![d] = auth[d]] /\ auth[d] \in BOOLEAN
      /\ errors' \in Nat /\ errors <= errors' /\ account' \in {"mail", "google"}
  BY <1>1, Here
<1>6. /\ "created" \in {"created", "checkTask"} => Fresh(docs, queue[d])
      /\ "created" \in Filling => Unfinished(docs, queue[d])
      /\ queue[d] = <<>> \/ QueuedUser(docs, queue[d])
      /\ "created" # "rereading" /\ place[d] \notin Writing
  BY <1>1, <1>2, <1>3, <1>4
<1>7. QED
  BY <1>1, <1>4, <1>5, <1>6, GoStep

LEMMA CreatedStep == ASSUME IInv, NEW d \in Device, Created(d), Race PROVE IInv'
<1> DEFINE w == New("merge", "task-user", {"mail"})
<1>1. /\ place[d] = "created" /\ Go(d, "registerTask") /\ auth' = [auth EXCEPT ![d] = TRUE]
      /\ queue' = [queue EXCEPT ![d] = Append(@, w)]
      /\ UNCHANGED <<account, docs, profile, answers, crashes, breaks, refusals, errors>>
  BY DEF Created, Enqueue, New, faults
<1>2. w \in Write /\ w.heard /\ IsMerge(w) /\ "mail" \in w.fields
  BY NewIs DEF Field
<1> HIDE DEF w
<1>3. Early(w) /\ ~Bare(w) /\ ~IsStatus(w, "false")
  BY <1>2, WritesAre DEF Early, Bare
<1>4. /\ "created" \notin Writing /\ "registerTask" \in Writing /\ "registerTask" \in Filling
      /\ "registerTask" \notin Copying /\ "created" \in Filling
  BY DEF Writing, Filling, Copying
<1>5. account # "none"
  BY <1>1, Here
<1>6. ~raced /\ errors' = 0 => Fresh(docs, queue[d])
  BY <1>1, Here DEF Begun
<1>7. ~raced /\ refusals + errors' = 0 => Unfinished(docs, queue[d])
  BY <1>1, <1>4, Here DEF InChain
<1>8. errors' \in Nat /\ errors <= errors'
  BY <1>1, Here
<1>9. QED
  BY <1>1, <1>2, <1>3, <1>4, <1>5, <1>6, <1>7, <1>8, EarlyStep

LEMMA SignInStep ==
  ASSUME IInv, NEW d \in Device, SignInMail(d) \/ SignInGoogle(d), Race
  PROVE  IInv'
<1>1. PICK p \in {"askStatus", "checkUser"} :
        /\ place[d] = "login" /\ account' \in {"mail", "google"} /\ Go(d, p)
        /\ auth' = [auth EXCEPT ![d] = TRUE]
        /\ UNCHANGED <<docs, profile, queue, answers, crashes, breaks, refusals, errors>>
  BY DEF SignInMail, SignInGoogle, faults
<1>2. /\ "login" \notin Writing /\ p \in Place /\ p \notin Writing /\ p \notin Copying /\ p \notin Filling
      /\ p \notin {"created", "checkTask", "rereading"} /\ Held(p, TRUE, profile[d])
  BY DEF Writing, Waiting, Place, Copying, Filling, Held
<1>3. ~raced /\ refusals + errors' = 0 => queue[d] = <<>> \/ QueuedUser(docs, queue[d])
  BY <1>1, Here DEF InChain
<1>4. errors' \in Nat /\ errors <= errors'
  BY <1>1, Here
<1>5. QED
  BY <1>1, <1>2, <1>3, <1>4, GoStep

LEMMA CheckUserStep == ASSUME IInv, NEW d \in Device, CheckUser(d), Race PROVE IInv'
<1>1. PICK p \in {"askStatus", "checkTask"} :
        /\ place[d] = "checkUser" /\ Go(d, p)
        /\ UNCHANGED <<account, docs, auth, profile, queue, answers, crashes, breaks, refusals>>
        /\ errors' = errors \/ errors' = errors + 1
        /\ p = "checkTask" /\ errors' = errors => View(d)["user"] = {}
  BY Here DEF CheckUser, Moves, Fails
<1>2. /\ "checkUser" \notin Writing /\ p \in Place /\ p \notin Writing /\ p \notin Copying
      /\ p \notin {"created", "rereading", "feed", "login", "checkUser"}
      /\ auth[d] /\ Held(p, TRUE, profile[d])
  BY <1>1, Here DEF Writing, Waiting, Place, Copying, Held
<1>3. errors' \in Nat /\ errors <= errors' /\ account # "none" /\ account' = account
      /\ auth' = [auth EXCEPT ![d] = TRUE] /\ (errors' = 0 => errors' = errors)
  BY <1>1, <1>2, Here
<1>4. p = "checkTask" /\ errors' = errors => Fresh(docs, queue[d])
  BY <1>1, Here, SoundIs, ViewIs, ViewUser DEF Fresh
<1>5. ~raced /\ errors' = 0 => (p \in {"created", "checkTask"} => Fresh(docs, queue[d]))
  BY <1>2, <1>3, <1>4
<1>6. ~raced /\ refusals + errors' = 0 => (p \in Filling => Unfinished(docs, queue[d]))
  <2> HAVE ~raced /\ refusals + errors' = 0
  <2> SUFFICES ASSUME p = "checkTask" PROVE Unfinished(docs, queue[d])
    BY DEF Filling
  <2>1. errors' = 0 /\ refusals = 0
    BY <1>3, Here, NoneOfTwo
  <2>2. Fresh(docs, queue[d]) /\ errors = 0 /\ refusals + errors = 0
    BY <1>3, <1>4, <2>1
  <2>3. InChain(docs, "checkUser", queue[d], answers[d], auth[d])
    BY <1>1, <2>2, Here
  <2>4. queue[d] = <<>> \/ QueuedUser(docs, queue[d])
    BY <2>3 DEF InChain
  <2>5. Len(queue[d]) = 0
    BY <2>2, <2>4, Here, SoundIs DEF Fresh, QueuedUser
  <2>6. QED
    BY <2>2, <2>5 DEF Fresh, Unfinished
<1>7. ~raced /\ refusals + errors' = 0 =>
        /\ p \in Filling => Unfinished(docs, queue[d])
        /\ ~TRUE \/ p \in {"feed", "login", "checkUser"} => queue[d] = <<>> \/ QueuedUser(docs, queue[d])
  BY <1>2, <1>6
<1>8. account' \in {"mail", "google"} /\ place[d] \notin Writing
  BY <1>1, <1>2, <1>3, Here
<1>9. QED
  BY <1>1, <1>2, <1>3, <1>5, <1>7, <1>8, GoStep

LEMMA CheckTaskStep == ASSUME IInv, NEW d \in Device, CheckTask(d), Race PROVE IInv'
<1> DEFINE w == New("set", "status", {"false"})
<1>1. /\ place[d] = "checkTask"
      /\ UNCHANGED <<account, docs, auth, profile, answers, crashes, breaks, refusals>>
      /\ \/ Go(d, "askStatus") /\ UNCHANGED <<queue, errors>>
         \/ /\ queue' = [queue EXCEPT ![d] = Append(@, w)] /\ Go(d, "googleStatus")
            /\ errors' = errors \/ errors' = errors + 1
  BY DEF CheckTask, Moves, StartGoogle, Enqueue, New
<1>2. errors' \in Nat /\ errors <= errors' /\ (errors' = 0 => errors = 0)
  BY <1>1, Here
<1>3. /\ "checkTask" \notin Writing /\ "checkTask" \in Filling /\ account # "none" /\ account' = account
      /\ auth[d] /\ auth' = [auth EXCEPT ![d] = TRUE]
  BY <1>1, Here DEF Writing, Filling, Held
<1>4. CASE Go(d, "askStatus") /\ UNCHANGED <<queue, errors>>
  <2>1. /\ "askStatus" \in Place /\ "askStatus" \notin Writing /\ "askStatus" \notin Copying
        /\ "askStatus" \notin Filling /\ Held("askStatus", TRUE, profile[d])
    BY DEF Writing, Waiting, Place, Copying, Filling, Held
  <2>2. QED
    BY <1>1, <1>2, <1>3, <1>4, <2>1, Here, GoStep
<1>5. CASE queue' = [queue EXCEPT ![d] = Append(@, w)] /\ Go(d, "googleStatus")
  <2>1. w \in Write /\ w.heard /\ IsStatus(w, "false")
    BY NewIs
  <2> HIDE DEF w
  <2>2. Early(w) /\ ~Bare(w)
    BY <2>1, WritesAre DEF Early, Bare
  <2>3. "googleStatus" \in Writing /\ "googleStatus" \in Filling /\ "googleStatus" \notin Copying
    BY DEF Writing, Filling, Copying
  <2>4. ~raced /\ errors' = 0 => Fresh(docs, queue[d])
    BY <1>1, <1>2, Here DEF Begun
  <2>5. ~raced /\ refusals + errors' = 0 => Unfinished(docs, queue[d])
    <3> HAVE ~raced /\ refusals + errors' = 0
    <3>1. errors' = 0 /\ refusals = 0
      BY <1>2, Here, NoneOfTwo
    <3>2. refusals + errors = 0
      BY <1>2, <3>1
    <3>3. InChain(docs, "checkTask", queue[d], answers[d], auth[d])
      BY <1>1, <3>2, Here
    <3>4. QED
      BY <1>3, <3>3 DEF InChain
  <2>6. QED
    BY <1>1, <1>2, <1>3, <1>5, <2>1, <2>2, <2>3, <2>4, <2>5, EarlyStep
<1>6. QED
  BY <1>1, <1>4, <1>5

LEMMA AskStatusStep == ASSUME IInv, NEW d \in Device, AskStatus(d), Race PROVE IInv'
<1> DEFINE V == Under(docs, queue[d])
<1>1. V["status"] \in Statuses
  BY Here, SoundIs, ViewTyped
<1>2. /\ place[d] = "askStatus" /\ View(d) = V
      /\ UNCHANGED <<account, docs, auth, profile, queue, answers, crashes, breaks, refusals>>
  BY ViewIs DEF AskStatus, Moves, Fails
<1> HIDE DEF V
<1>3. PICK p \in {"login", "stuck", "askUser", "askTask"} :
        /\ Go(d, p) /\ (errors' = errors \/ errors' = errors + 1)
        /\ ~auth[d] => p = "login"
        /\ p = "login" => ~auth[d] \/ errors' = errors + 1
        /\ p = "askTask" => V["status"] = {"false"}
  <2>1. CASE auth[d] /\ Fails(d, "login")
    BY <2>1 DEF Fails, Moves
  <2>2. CASE /\ Moves(d, CASE ~auth[d]                   -> "login"
                           [] auth[d] /\ V["status"] = {} -> "stuck"
                           [] auth[d] /\ V["status"] = {"true"}  -> "askUser"
                           [] auth[d] /\ V["status"] = {"false"} -> "askTask")
             /\ UNCHANGED errors
    <3>1. auth[d] \in BOOLEAN
      BY Here
    <3>2. {"true"} # {"false"} /\ {"true"} # {} /\ {"false"} # {}
      OBVIOUS
    <3>3. CASE ~auth[d]
      BY <2>2, <3>1, <3>3 DEF Moves
    <3>4. CASE auth[d] /\ V["status"] = {}
      BY <2>2, <3>2, <3>4 DEF Moves
    <3>5. CASE auth[d] /\ V["status"] = {"true"}
      BY <2>2, <3>2, <3>5 DEF Moves
    <3>6. CASE auth[d] /\ V["status"] = {"false"}
      BY <2>2, <3>2, <3>6 DEF Moves
    <3>7. QED
      BY <1>1, <3>1, <3>3, <3>4, <3>5, <3>6 DEF Statuses
  <2>3. QED
    BY <1>2, <2>1, <2>2 DEF AskStatus
<1>4. /\ "askStatus" \notin Writing /\ p \in Place /\ p \notin Writing /\ p \notin Copying
      /\ p \notin {"created", "checkTask", "rereading", "feed", "checkUser", "deleting"}
      /\ (p \in Filling => p = "askTask")
  BY DEF Writing, Waiting, Place, Resting, Copying, Filling
<1>5. Held(p, auth[d], profile[d])
  BY <1>3, <1>4 DEF Held
<1>6. errors' \in Nat /\ errors <= errors' /\ (errors' = 0 => errors' = errors)
  BY <1>3, Here
<1>7. ~raced /\ refusals + errors' = 0 =>
        /\ p \in Filling => Unfinished(docs, queue[d])
        /\ ~auth[d] \/ p \in {"feed", "login", "checkUser"} => queue[d] = <<>> \/ QueuedUser(docs, queue[d])
  <2> HAVE ~raced /\ refusals + errors' = 0
  <2>1. errors' = 0 /\ refusals = 0
    BY <1>6, Here, NoneOfTwo
  <2>2. errors = 0 /\ refusals + errors = 0
    BY <1>6, <2>1
  <2>3. Whole(docs) /\ InChain(docs, "askStatus", queue[d], answers[d], auth[d])
    BY <1>2, <2>2, Here
  <2>4. ~auth[d] \/ p \in {"feed", "login", "checkUser"} => ~auth[d]
    BY <1>3, <1>4, <2>1, <2>2
  <2>5. ASSUME p \in Filling PROVE Unfinished(docs, queue[d])
    <3>1. V["status"] = {"false"} /\ {"false"} # {"true"}
      BY <1>3, <1>4, <2>5
    <3>2. CASE queue[d] = <<>>
      <4>1. V = docs /\ Len(queue[d]) = 0
        BY <3>2, Here, SoundIs, ViewFew DEF V
      <4>2. QED
        BY <2>3, <3>1, <4>1 DEF Whole, Unfinished
    <3>3. CASE QueuedStatus(docs, queue[d], answers[d]) \/ QueuedDelete(docs, queue[d], answers[d])
                 \/ QueuedUser(docs, queue[d])
      <4>1. Len(queue[d]) = 1 /\ queue[d][1] \in Write /\ V = Apply(docs, queue[d][1])
        BY <3>3, Here, SoundIs, ViewFew DEF V, QueuedStatus, QueuedDelete, QueuedUser
      <4>2. V["status"] = {"true"}
        BY <3>3, <4>1, Here, ApplyIs DEF QueuedStatus, QueuedDelete, QueuedUser
      <4>3. QED
        BY <3>1, <4>2
    <3>4. QED
      BY <2>3, <3>2, <3>3 DEF InChain
  <2>6. QED
    BY <2>3, <2>4, <2>5 DEF InChain
<1>8. account' \in {"mail", "google"} \/
        (UNCHANGED account /\ account = "none" /\ p \in {"login", "askStatus"} /\ ~auth[d])
  BY <1>2, <1>3, Here
<1>9. auth' = [auth EXCEPT ![d] = auth[d]] /\ auth[d] \in BOOLEAN /\ place[d] \notin Writing
  BY <1>2, <1>4, Here
<1>10. ~raced /\ errors' = 0 => (p \in {"created", "checkTask"} => Fresh(docs, queue[d]))
  BY <1>4
<1>11. QED
  BY <1>2, <1>3, <1>4, <1>5, <1>6, <1>7, <1>8, <1>9, <1>10, GoStep

LEMMA AskUserStep == ASSUME IInv, NEW d \in Device, AskUser(d), Race PROVE IInv'
<1> DEFINE V == Under(docs, queue[d])
<1>1. PICK p \in {"feed", "stuck"} :
        /\ place[d] = "askUser" /\ Go(d, p)
        /\ UNCHANGED <<account, docs, auth, profile, queue, answers, crashes, breaks, refusals>>
        /\ errors' = errors \/ errors' = errors + 1
        /\ p = "feed" => V["user"] # {}
  BY ViewIs DEF AskUser, Moves, Fails
<1> HIDE DEF V
<1>2. /\ "askUser" \notin Writing /\ p \in Place /\ p \notin Writing /\ p \notin Copying /\ p \notin Filling
      /\ p \notin {"created", "checkTask", "rereading", "login", "checkUser"}
      /\ auth[d] /\ Held(p, TRUE, profile[d])
  BY <1>1, Here DEF Writing, Place, Resting, Copying, Filling, Held
<1>3. /\ errors' \in Nat /\ errors <= errors' /\ (errors' = 0 => errors' = errors)
      /\ account' \in {"mail", "google"} /\ auth' = [auth EXCEPT ![d] = TRUE] /\ place[d] \notin Writing
  BY <1>1, <1>2, Here
<1>4. ~raced /\ refusals + errors' = 0 =>
        /\ p \in Filling => Unfinished(docs, queue[d])
        /\ ~TRUE \/ p \in {"feed", "login", "checkUser"} => queue[d] = <<>> \/ QueuedUser(docs, queue[d])
  <2> HAVE ~raced /\ refusals + errors' = 0
  <2> SUFFICES ASSUME p = "feed", queue[d] # <<>> PROVE QueuedUser(docs, queue[d])
    BY <1>2
  <2>1. errors' = 0 /\ refusals = 0
    BY <1>3, Here, NoneOfTwo
  <2>2. errors = 0 /\ refusals + errors = 0
    BY <1>3, <2>1
  <2>3. InChain(docs, "askUser", queue[d], answers[d], auth[d])
    BY <1>1, <2>2, Here
  <2>4. V["user"] # {}
    BY <1>1
  <2>5. ~Unfinished(docs, queue[d])
    BY <2>4, Here, SoundIs, ViewEarly DEF V, Unfinished
  <2>6. CASE QueuedStatus(docs, queue[d], answers[d]) \/ QueuedDelete(docs, queue[d], answers[d])
    <3>1. Len(queue[d]) = 1 /\ queue[d][1] \in Write /\ V = Apply(docs, queue[d][1])
      BY <2>6, Here, SoundIs, ViewFew DEF V, QueuedStatus, QueuedDelete
    <3>2. V["user"] = {}
      BY <2>6, <3>1, Here, ApplyIs DEF QueuedStatus, QueuedDelete
    <3>3. QED
      BY <2>4, <3>2
  <2>7. QED
    BY <2>3, <2>5, <2>6 DEF InChain
<1>5. QED
  BY <1>1, <1>2, <1>3, <1>4, GoStep

LEMMA AskTaskStep == ASSUME IInv, NEW d \in Device, AskTask(d), Race PROVE IInv'
<1> DEFINE q == queue[d]
           V == Under(docs, q)
<1>1. PICK p \in {"form", "stuck"} :
        /\ place[d] = "askTask" /\ Go(d, p)
        /\ UNCHANGED <<account, docs, auth, profile, queue, answers, crashes, breaks, refusals>>
        /\ errors' = errors \/ errors' = errors + 1
        /\ p = "form" => V["task-user"] # {}
  BY ViewIs DEF AskTask, Moves, Fails
<1> HIDE DEF V
<1>2. /\ "askTask" \notin Writing /\ "askTask" \in Filling /\ p \in Place /\ p \notin Writing
      /\ p \notin {"created", "checkTask", "rereading", "login", "checkUser", "feed"}
      /\ (p \in Copying => p = "form") /\ auth[d] /\ Held(p, TRUE, profile[d])
  BY <1>1, Here DEF Writing, Place, Resting, Copying, Filling, Held
<1>3. /\ errors' \in Nat /\ errors <= errors' /\ (errors' = 0 => errors' = errors)
      /\ account' \in {"mail", "google"} /\ auth' = [auth EXCEPT ![d] = TRUE] /\ place[d] \notin Writing
  BY <1>1, <1>2, Here
<1>4. ~raced /\ refusals + errors' = 0 =>
        /\ p \in Filling => Unfinished(docs, queue[d])
        /\ ~TRUE \/ p \in {"feed", "login", "checkUser"} => queue[d] = <<>> \/ QueuedUser(docs, queue[d])
  <2> HAVE ~raced /\ refusals + errors' = 0
  <2>1. errors' = 0 /\ refusals = 0
    BY <1>3, Here, NoneOfTwo
  <2>2. refusals + errors = 0
    BY <1>3, <2>1
  <2>3. InChain(docs, "askTask", queue[d], answers[d], auth[d])
    BY <1>1, <2>2, Here
  <2>4. QED
    BY <1>2, <2>3 DEF InChain
<1>5. ~raced /\ (crashes = 0 \/ refusals = 0) =>
        (p \in Copying => Covered(docs, q, Len(q) + 1) /\ (crashes = 0 => Holds(docs, q)))
  <2> HAVE ~raced /\ (crashes = 0 \/ refusals = 0)
  <2> SUFFICES ASSUME p = "form" PROVE Covered(docs, q, Len(q) + 1) /\ (crashes = 0 => Holds(docs, q))
    BY <1>2
  <2>1. MailDocs(docs) /\ MailFit(docs, "askTask", q, answers[d], profile[d], crashes)
    BY <1>1, Here
  <2>2. V["task-user"] # {} /\ Len(q) \in Nat
    BY <1>1, Here, SoundIs
  <2>3. \/ \E i \in 1..Len(q) : IsMerge(q[i])
        \/ docs["task-user"] # {} /\ \A i \in 1..Len(q) : ~IsDelete(q[i])
    BY <2>2, Here, SoundIs, ViewTask DEF V
  <2>4. CASE docs["task-user"] # {} /\ \A i \in 1..Len(q) : ~IsDelete(q[i])
    BY <2>1, <2>4 DEF MailDocs, Holds, Covered
  <2>5. CASE \E i \in 1..Len(q) : IsMerge(q[i])
    <3>1. PICK i \in 1..Len(q) : IsMerge(q[i])
      BY <2>5
    <3>2. crashes # 0
      BY <1>1, <1>2, <3>1, Here DEF Sound, Calm
    <3>3. CASE Mailing(q[i])
      BY <2>2, <3>1, <3>2, <3>3 DEF Covered
    <3>4. CASE Bare(q[i])
      <4>1. Covered(docs, q, i)
        BY <2>1, <3>1, <3>4 DEF MailFit
      <4>2. Covered(docs, q, Len(q) + 1)
        BY <2>2, <3>1, <4>1 DEF Covered
      <4>3. QED
        BY <3>2, <4>2
    <3>5. QED
      BY <3>1, <3>3, <3>4 DEF Mailing, Bare
  <2>6. QED
    BY <2>3, <2>4, <2>5
<1>6. ~raced /\ errors' = 0 => (p \in {"created", "checkTask"} => Fresh(docs, queue[d]))
  BY <1>2
<1>7. QED
  BY <1>1, <1>2, <1>3, <1>4, <1>5, <1>6, GoStep

LEMMA SignOutStep == ASSUME IInv, NEW d \in Device, SignOut(d), Race PROVE IInv'
<1> DEFINE q == queue[d]
           e == <<>>
<1>1. /\ place[d] = "feed" /\ Go(d, "askStatus") /\ auth' = [auth EXCEPT ![d] = FALSE]
      /\ answers' = [answers EXCEPT ![d] = e]
      /\ account' = account /\ docs' = docs /\ profile' = profile /\ queue' = queue
      /\ crashes' = crashes /\ breaks' = breaks /\ refusals' = refusals /\ errors' = errors
  BY DEF SignOut, faults
<1>2. /\ "feed" \notin Writing /\ "askStatus" \in Place /\ "askStatus" \notin Writing
      /\ "askStatus" \notin Filling /\ "askStatus" \notin Copying
      /\ Held("askStatus", FALSE, profile[d])
  BY DEF Writing, Place, Waiting, Filling, Copying, Held
<1>3. Sound("askStatus", q, answers[d]) /\ Calm(q, answers[d], crashes, refusals)
  BY <1>1, <1>2, Here, SoundGo
<1>4. Sound("askStatus", q, e) /\ Calm(q, e, crashes, refusals) /\ Len(e) = 0
  BY <1>3, SoundDrop
<1>5. e = <<>>
  OBVIOUS
<1> HIDE DEF e
<1>6. Local(d, "askStatus", q, e, FALSE, profile[d])
  BY <1>1, Here DEF Local, Go
<1>7. ~raced /\ errors = 0 => Begun(docs, "askStatus", q)
  BY <1>1, Here DEF Begun
<1>8. ~raced /\ refusals + errors = 0 => Whole(docs) /\ InChain(docs, "askStatus", q, e, FALSE)
  <2> HAVE ~raced /\ refusals + errors = 0
  <2>1. Whole(docs) /\ InChain(docs, "feed", q, answers[d], auth[d])
    BY <1>1, Here
  <2>2. QED
    BY <1>2, <2>1 DEF InChain
<1>9. ~raced /\ (crashes = 0 \/ refusals = 0) =>
        MailDocs(docs) /\ MailFit(docs, "askStatus", q, e, profile[d], crashes)
  <2> HAVE ~raced /\ (crashes = 0 \/ refusals = 0)
  <2>1. MailDocs(docs) /\ MailFit(docs, "feed", q, answers[d], profile[d], crashes)
    BY <1>1, Here
  <2>2. \A n \in 1..Len(q) : ~(n <= Len(e))
    BY <1>4
  <2>3. QED
    BY <1>2, <2>1, <2>2 DEF MailFit
<1>10. Goes(d, "askStatus", q, e, FALSE, profile[d])
  <2>1. /\ account' \in {"mail", "google"} /\ docs' \in Docs /\ docs'["status"] \in Statuses
        /\ profile[d] \in SUBSET Field
        /\ crashes' \in Nat /\ breaks' \in Nat /\ refusals' \in Nat /\ errors' \in Nat
        /\ crashes <= crashes' /\ refusals <= refusals' /\ errors <= errors'
    BY <1>1, Here
  <2>2. QED
    BY <1>1, <1>2, <1>4, <1>6, <1>7, <1>8, <1>9, <2>1 DEF Goes
<1>11. QED
  BY <1>10, StepKeeps

-----------------------------------------------------------------------------
(* The form *)

LEMMA FillStep ==
  ASSUME IInv, NEW d \in Device, place[d] \in {"form", "uploading", "thumb"}, Race,
         NEW f \in {"name", "picture"}, Enqueue(d, "merge", "task-user", {f}),
         NEW p \in {"named", "picture", "thumbWritten"}, Go(d, p),
         UNCHANGED <<account, docs, auth, profile, answers, crashes, breaks, refusals>>,
         errors' \in Nat, errors <= errors'
  PROVE  IInv'
<1> DEFINE w == New("merge", "task-user", {f})
<1>1. queue' = [queue EXCEPT ![d] = Append(@, w)]
  BY DEF Enqueue, New
<1>2. w \in Write /\ w.heard /\ IsMerge(w)
  BY NewIs DEF Field
<1> HIDE DEF w
<1>3. Early(w) /\ ~IsStatus(w, "false")
  BY <1>2, WritesAre DEF Early
<1>4. /\ place[d] \notin Writing /\ place[d] \in Filling /\ place[d] \in Copying
      /\ p \in Writing /\ p \in Filling /\ p # "registerTask"
  BY DEF Writing, Filling, Copying
<1>5. auth[d]
  BY Here DEF Held
<1>6. account # "none" /\ auth' = [auth EXCEPT ![d] = TRUE]
  BY <1>5, Here
<1>7. ~raced /\ errors' = 0 => (p = "registerTask" \/ IsStatus(w, "false") => Fresh(docs, queue[d]))
  BY <1>3, <1>4
<1>8. ~raced /\ refusals + errors' = 0 => Unfinished(docs, queue[d])
  <2> HAVE ~raced /\ refusals + errors' = 0
  <2>1. refusals = 0 /\ errors' = 0
    BY Here, NoneOfTwo
  <2>2. refusals + errors = 0
    BY <2>1, Here
  <2>3. QED
    BY <1>4, <2>2, Here DEF InChain
<1>9. ~raced /\ (crashes = 0 \/ refusals = 0) =>
        (Bare(w) \/ p \in Copying => /\ Covered(docs, queue[d], Len(queue[d]) + 1)
                                     /\ crashes = 0 => Holds(docs, queue[d]))
  BY <1>4, Here DEF MailFit
<1>10. QED
  BY <1>1, <1>2, <1>3, <1>4, <1>6, <1>7, <1>8, <1>9, EarlyStep

LEMMA FillGo ==
  ASSUME IInv, NEW d \in Device, place[d] \in {"form", "uploading", "thumb"}, Race,
         NEW p \in {"form", "uploading", "stuck"}, Moves(d, p),
         UNCHANGED <<answers, crashes, breaks, refusals>>, errors' \in Nat, errors <= errors'
  PROVE  IInv'
<1>1. Go(d, p) /\ UNCHANGED <<account, docs, auth, profile, queue>>
  BY DEF Moves
<1>2. /\ place[d] \notin Writing /\ place[d] \in Filling /\ place[d] \in Copying
      /\ p \in Place /\ p \notin Writing
      /\ p \notin {"created", "checkTask", "rereading", "feed", "login", "checkUser"}
  BY DEF Writing, Filling, Copying, Place, Waiting, Resting
<1>3. auth[d] /\ Held(p, TRUE, profile[d])
  BY Here DEF Held
<1>4. account' \in {"mail", "google"} /\ auth' = [auth EXCEPT ![d] = TRUE]
  BY <1>1, <1>3, Here
<1>5. ~raced /\ errors' = 0 => (p \in {"created", "checkTask"} => Fresh(docs, queue[d]))
  BY <1>2
<1>6. ~raced /\ refusals + errors' = 0 =>
        /\ p \in Filling => Unfinished(docs, queue[d])
        /\ ~TRUE \/ p \in {"feed", "login", "checkUser"} => queue[d] = <<>> \/ QueuedUser(docs, queue[d])
  <2> HAVE ~raced /\ refusals + errors' = 0
  <2>1. refusals = 0 /\ errors' = 0
    BY Here, NoneOfTwo
  <2>2. refusals + errors = 0
    BY <2>1, Here
  <2>3. QED
    BY <1>2, <2>2, Here DEF InChain
<1>7. ~raced /\ (crashes = 0 \/ refusals = 0) =>
        (p \in Copying => /\ Covered(docs, queue[d], Len(queue[d]) + 1)
                          /\ crashes = 0 => Holds(docs, queue[d]))
  BY <1>2, Here DEF MailFit
<1>8. QED
  BY <1>1, <1>2, <1>3, <1>4, <1>5, <1>6, <1>7, GoStep

LEMMA FormStep ==
  ASSUME IInv, NEW d \in Device, FillIn(d) \/ FillInPicture(d) \/ Uploaded(d) \/ ThumbUploaded(d), Race
  PROVE  IInv'
<1>1. errors \in Nat
  BY Here
<1>2. CASE FillIn(d)
  <2>1. /\ place[d] = "form" /\ Enqueue(d, "merge", "task-user", {"name"}) /\ Go(d, "named")
        /\ UNCHANGED <<account, docs, auth, profile, answers, crashes, breaks, refusals>>
        /\ errors' = errors
    BY <1>2 DEF FillIn, faults
  <2>2. errors' \in Nat /\ errors <= errors'
    BY <1>1, <2>1
  <2>3. QED
    BY <2>1, <2>2, FillStep
<1>3. CASE FillInPicture(d)
  <2>1. /\ place[d] = "form" /\ Moves(d, "uploading")
        /\ UNCHANGED <<answers, crashes, breaks, refusals>> /\ errors' = errors
    BY <1>3 DEF FillInPicture, faults
  <2>2. errors' \in Nat /\ errors <= errors'
    BY <1>1, <2>1
  <2>3. QED
    BY <2>1, <2>2, FillGo
<1>4. CASE Uploaded(d)
  <2>1. place[d] = "uploading" /\ UNCHANGED <<answers, crashes, breaks, refusals>>
    BY <1>4 DEF Uploaded
  <2>2. CASE /\ Enqueue(d, "merge", "task-user", {"picture"}) /\ Go(d, "picture")
             /\ UNCHANGED <<account, docs, auth, profile, errors>>
    <3>1. errors' \in Nat /\ errors <= errors' /\ UNCHANGED <<account, docs, auth, profile>>
      BY <1>1, <2>2
    <3>2. QED
      BY <2>1, <2>2, <3>1, FillStep
  <2>3. ASSUME NEW p \in {"form", "stuck"}, Fails(d, p) PROVE IInv'
    <3>1. Moves(d, p) /\ errors' \in Nat /\ errors <= errors'
      BY <1>1, <2>3 DEF Fails
    <3>2. QED
      BY <2>1, <3>1, FillGo
  <2>4. QED
    BY <1>4, <2>2, <2>3 DEF Uploaded
<1>5. CASE ThumbUploaded(d)
  <2>1. place[d] = "thumb" /\ UNCHANGED <<answers, crashes, breaks, refusals>>
    BY <1>5 DEF ThumbUploaded
  <2>2. CASE /\ errors' \in IF MayFail THEN {errors, errors + 1} ELSE {errors}
             /\ Enqueue(d, "merge", "task-user", {"picture"}) /\ Go(d, "thumbWritten")
             /\ UNCHANGED <<account, docs, auth, profile>>
    <3>1. errors' \in Nat /\ errors <= errors'
      BY <1>1, <2>2
    <3>2. QED
      BY <2>1, <2>2, <3>1, FillStep
  <2>3. CASE Fails(d, "stuck")
    <3>1. Moves(d, "stuck") /\ errors' \in Nat /\ errors <= errors'
      BY <1>1, <2>3 DEF Fails
    <3>2. QED
      BY <2>1, <3>1, FillGo
  <2>4. QED
    BY <1>5, <2>2, <2>3 DEF ThumbUploaded
<1>6. QED
  BY <1>2, <1>3, <1>4, <1>5

LEMMA RereadStep == ASSUME IInv, NEW d \in Device, Reread(d), Race PROVE IInv'
<1> DEFINE q == queue[d]
           a == answers[d]
           task == docs["task-user"]
           w == New("delete", "task-user", {})
           to == Append(q, w)
<1>1. place[d] = "rereading" /\ answers' = answers /\ crashes' = crashes /\ breaks' = breaks /\ refusals' = refusals
  BY DEF Reread
<1>2. /\ q = <<>> /\ Len(q) = 0 /\ Under(docs, q) = docs /\ View(d) = docs
      /\ a = <<>> /\ Len(a) = 0 /\ "rereading" \notin Writing /\ auth[d] /\ account # "none"
  <2>1. q = <<>> /\ Len(q) = 0 /\ Len(a) = 0 /\ a = <<>>
    BY <1>1, Here, SoundIs DEF Sound
  <2>2. View(d) = docs /\ Under(docs, q) = docs
    BY <2>1, Here, SoundIs, ViewIs, ViewFew
  <2>3. "rereading" \notin Writing
    BY DEF Writing
  <2>4. auth[d]
    BY <1>1, Here DEF Held
  <2>5. account # "none"
    BY <2>4, Here
  <2>6. QED
    BY <2>1, <2>2, <2>3, <2>4, <2>5
<1>3. CASE Moves(d, "stuck") /\ errors' \in {errors, errors + 1}
  <2>1. Go(d, "stuck") /\ UNCHANGED <<account, docs, auth, profile, queue>>
    BY <1>3 DEF Moves
  <2>2. /\ "stuck" \in Place /\ "stuck" \notin Writing /\ "stuck" \notin Filling /\ "stuck" \notin Copying
        /\ Held("stuck", TRUE, profile[d])
    BY DEF Place, Resting, Writing, Filling, Copying, Held
  <2>3. /\ errors' \in Nat /\ errors <= errors' /\ account' \in {"mail", "google"}
        /\ auth' = [auth EXCEPT ![d] = TRUE] /\ place[d] \notin Writing
    BY <1>1, <1>2, <1>3, <2>1, Here
  <2>4. QED
    BY <1>1, <2>1, <2>2, <2>3, GoStep
<1>4. CASE /\ View(d)["task-user"] # {}
           /\ profile' = [profile EXCEPT ![d] = View(d)["task-user"]]
           /\ Enqueue(d, "delete", "task-user", {})
           /\ Go(d, "deleting")
           /\ UNCHANGED <<account, docs, auth, errors>>
  <2>1. /\ account' = account /\ docs' = docs /\ auth' = auth /\ errors' = errors /\ Go(d, "deleting")
        /\ task # {} /\ profile' = [profile EXCEPT ![d] = task]
        /\ queue' = [queue EXCEPT ![d] = Append(@, w)]
    BY <1>2, <1>4 DEF Enqueue, New
  <2>2. w \in Write /\ w.heard /\ IsDelete(w)
    BY NewIs
  <2> HIDE DEF w
  <2>3. "deleting" \in Writing /\ "deleting" \notin Filling /\ "deleting" \notin Copying /\ Late(w)
    BY <2>2 DEF Writing, Filling, Copying, Late
  <2>4. Sound("deleting", to, a) /\ Calm(to, a, crashes, refusals)
    BY <1>1, <1>2, <2>2, <2>3, Here, SoundWrite
  <2>5. Len(to) = 1 /\ to[1] = w /\ (\A i \in 1..Len(to) : i = 1)
    <3>1. Len(to) = Len(q) + 1 /\ to[Len(q) + 1] = w
      BY <2>2, Here, SoundIs, AppendIs
    <3>2. QED
      BY <1>2, <3>1
  <2>6. /\ \A v : ~IsStatus(w, v)
        /\ ~IsUser(w) /\ ~IsMerge(w) /\ ~Mailing(w) /\ ~Bare(w)
    BY <2>2, WritesAre DEF Mailing, Bare
  <2> HIDE DEF to
  <2>7. Local(d, "deleting", to, a, TRUE, task)
    <3>1. queue' = [queue EXCEPT ![d] = to]
      BY <2>1 DEF to
    <3>2. auth' = [auth EXCEPT ![d] = TRUE] /\ answers' = [answers EXCEPT ![d] = a]
      BY <1>1, <1>2, <2>1, Here
    <3>3. QED
      BY <2>1, <3>1, <3>2 DEF Local, Go
  <2>8. Begun(docs, "deleting", to)
    BY <2>5, <2>6 DEF Begun
  <2>9. ~raced /\ refusals + errors = 0 => Whole(docs) /\ InChain(docs, "deleting", to, a, TRUE)
    <3> HAVE ~raced /\ refusals + errors = 0
    <3>1. Whole(docs) /\ docs["status"] = {"true"} /\ docs["user"] = {}
      BY <1>1, Here DEF InChain
    <3>2. QueuedDelete(docs, to, a)
      BY <1>2, <2>2, <2>5, <3>1 DEF QueuedDelete
    <3>3. QED
      BY <2>3, <3>1, <3>2 DEF InChain
  <2>10. ~raced /\ (crashes = 0 \/ refusals = 0) =>
           MailDocs(docs) /\ MailFit(docs, "deleting", to, a, task, crashes)
    <3> HAVE ~raced /\ (crashes = 0 \/ refusals = 0)
    <3>1. MailDocs(docs)
      BY Here
    <3>2. "mail" \in task
      BY <2>1, <3>1 DEF MailDocs
    <3>3. QED
      BY <2>3, <2>5, <2>6, <3>1, <3>2 DEF MailFit
  <2>11. Held("deleting", TRUE, task)
    BY <2>1 DEF Held
  <2>12. Goes(d, "deleting", to, a, TRUE, task)
    <3>1. /\ account' \in {"mail", "google"} /\ docs' \in Docs /\ docs'["status"] \in Statuses
          /\ task \in SUBSET Field
          /\ crashes' \in Nat /\ breaks' \in Nat /\ refusals' \in Nat /\ errors' \in Nat
          /\ crashes <= crashes' /\ refusals <= refusals' /\ errors <= errors'
      BY <1>1, <1>2, <2>1, Here DEF Docs, Doc
    <3>2. /\ Calm(to, a, crashes', refusals') /\ Begun(docs', "deleting", to)
          /\ ~raced /\ refusals' + errors' = 0 => Whole(docs') /\ InChain(docs', "deleting", to, a, TRUE)
          /\ ~raced /\ (crashes' = 0 \/ refusals' = 0) =>
               MailDocs(docs') /\ MailFit(docs', "deleting", to, a, task, crashes')
      BY <1>1, <2>1, <2>4, <2>8, <2>9, <2>10
    <3> HIDE DEF task
    <3>3. QED
      BY <2>1, <2>4, <2>7, <2>11, <3>1, <3>2 DEF Goes
  <2>13. QED
    BY <2>12, StepKeeps
<1>5. QED
  <2>1. ASSUME Fails(d, "stuck") PROVE Moves(d, "stuck") /\ errors' \in {errors, errors + 1}
    BY <2>1 DEF Fails
  <2>2. QED
    BY <1>3, <1>4, <2>1 DEF Reread

-----------------------------------------------------------------------------
(* The server and the connection *)

(* Which of the late writes is queued. *)
LEMMA OneKind ==
  ASSUME NEW ds, NEW q \in Seq(Write), NEW a, q # <<>>
  PROVE  /\ Unfinished(ds, q) => ~QueuedStatus(ds, q, a) /\ ~QueuedDelete(ds, q, a) /\ ~QueuedUser(ds, q)
         /\ QueuedStatus(ds, q, a) => ~QueuedDelete(ds, q, a) /\ ~QueuedUser(ds, q)
         /\ QueuedDelete(ds, q, a) => ~QueuedUser(ds, q)
<1>1. Len(q) \in Nat /\ 1 \in 1..Len(q) /\ q[1] \in Write
  BY SeqIs
<1>2. Early(q[1]) => ~IsStatus(q[1], "true") /\ ~IsDelete(q[1]) /\ ~IsUser(q[1])
  BY <1>1, WritesAre DEF Early
<1>3. /\ IsDelete(q[1]) => ~IsUser(q[1]) /\ ~IsStatus(q[1], "true")
      /\ IsUser(q[1]) => ~IsStatus(q[1], "true")
  BY <1>1, WritesAre
<1>4. QED
  BY <1>1, <1>2, <1>3 DEF Unfinished, QueuedStatus, QueuedDelete, QueuedUser

LEMMA RefuseStep == ASSUME IInv, NEW d \in Device, Refuse(d), Race PROVE IInv'
<1> DEFINE p == place[d]
           q == queue[d]
           a == answers[d]
           to == Append(a, FALSE)
<1>1. /\ auth[d] /\ Len(a) < Len(q)
      /\ account' = account /\ docs' = docs /\ auth' = auth /\ place' = place /\ profile' = profile
      /\ queue' = queue /\ crashes' = crashes /\ breaks' = breaks /\ errors' = errors
      /\ refusals' = refusals + 1 /\ answers' = [answers EXCEPT ![d] = to]
  BY DEF Refuse, CanAnswer, device
<1>2. /\ Sound(p, q, to) /\ Len(to) = Len(a) + 1 /\ Len(a) \in Nat
      /\ \A i \in 1..Len(to) : (i \in 1..Len(a) /\ to[i] = a[i]) \/ (i = Len(a) + 1 /\ to[i] = FALSE)
  <2>1. Sound(p, q, a) /\ Len(a) < Len(q) /\ FALSE \in BOOLEAN
    BY <1>1, Here
  <2>2. Len(a) \in Nat
    BY <2>1, SoundIs
  <2>3. QED
    BY ONLY <2>1, <2>2, SoundAnswer
<1> HIDE DEF to
<1>3. /\ refusals' \in Nat /\ refusals <= refusals' /\ refusals' # 0 /\ refusals' + errors' # 0
      /\ crashes' \in Nat /\ breaks' \in Nat /\ errors' \in Nat /\ crashes <= crashes' /\ errors <= errors'
  BY <1>1, Here
<1>4. Calm(q, to, crashes', refusals')
  BY <1>1, <1>3, Here DEF Calm
<1>5. ~raced /\ errors' = 0 => Begun(docs', p, q)
  BY <1>1, Here
<1>6. ~raced /\ (crashes' = 0 \/ refusals' = 0) => MailDocs(docs') /\ MailFit(docs', p, q, to, profile[d], crashes')
  <2> HAVE ~raced /\ (crashes' = 0 \/ refusals' = 0)
  <2>1. MailDocs(docs) /\ MailFit(docs, p, q, a, profile[d], crashes)
    BY <1>1, <1>3, Here
  <2>2. \A n : n <= Len(to) /\ n \in 1..Len(q) /\ to[n] => n <= Len(a) /\ a[n]
    BY <1>2
  <2>3. QED
    BY <1>1, <2>1, <2>2 DEF MailFit
<1>7. Goes(d, p, q, to, auth[d], profile[d])
  <2>1. Local(d, p, q, to, auth[d], profile[d])
    BY <1>1, Here DEF Local
  <2>2. /\ account' \in {"mail", "google"} /\ docs' \in Docs /\ docs'["status"] \in Statuses
        /\ auth[d] \in BOOLEAN /\ profile[d] \in SUBSET Field /\ Held(p, auth[d], profile[d])
    BY <1>1, Here
  <2>3. ~raced /\ refusals' + errors' = 0 => Whole(docs') /\ InChain(docs', p, q, to, auth[d])
    BY <1>3
  <2>4. QED
    BY <1>1, <1>2, <1>3, <1>4, <1>5, <1>6, <2>1, <2>2, <2>3 DEF Goes
<1>8. QED
  BY <1>7, StepKeeps

LEMMA BreakStep == ASSUME IInv, NEW d \in Device, Break(d), Race PROVE IInv'
<1> DEFINE p == place[d]
           q == queue[d]
           a == answers[d]
           to == <<>>
<1>1. /\ account' = account /\ docs' = docs /\ auth' = auth /\ place' = place /\ profile' = profile
      /\ queue' = queue /\ crashes' = crashes /\ refusals' = refusals /\ errors' = errors
      /\ breaks' = breaks + 1 /\ answers' = [answers EXCEPT ![d] = to]
  BY DEF Break, device
<1>2. Sound(p, q, to) /\ Calm(q, to, crashes, refusals) /\ to = <<>> /\ Len(to) = 0
  BY Here, SoundDrop
<1> HIDE DEF to
<1>3. ~raced /\ refusals' + errors' = 0 => Whole(docs') /\ InChain(docs', p, q, to, auth[d])
  <2> HAVE ~raced /\ refusals' + errors' = 0
  <2>1. Whole(docs) /\ InChain(docs, p, q, a, auth[d])
    BY <1>1, Here
  <2>2. /\ QueuedStatus(docs, q, a) => QueuedStatus(docs, q, to)
        /\ QueuedDelete(docs, q, a) => QueuedDelete(docs, q, to)
    BY <1>2 DEF QueuedStatus, QueuedDelete
  <2>3. QED
    BY <1>1, <2>1, <2>2 DEF InChain
<1>4. ~raced /\ (crashes' = 0 \/ refusals' = 0) => MailDocs(docs') /\ MailFit(docs', p, q, to, profile[d], crashes')
  <2> HAVE ~raced /\ (crashes' = 0 \/ refusals' = 0)
  <2>1. MailDocs(docs) /\ MailFit(docs, p, q, a, profile[d], crashes)
    BY <1>1, Here
  <2>2. \A n \in 1..Len(q) : ~(n <= Len(to))
    BY <1>2
  <2>3. QED
    BY <1>1, <2>1, <2>2 DEF MailFit
<1>5. Goes(d, p, q, to, auth[d], profile[d])
  <2>1. Local(d, p, q, to, auth[d], profile[d])
    BY <1>1, Here DEF Local
  <2>2. account' \in {"mail", "google"} \/ (/\ UNCHANGED <<account, docs>> /\ account = "none"
                                            /\ p \in {"login", "askStatus"} /\ ~auth[d] /\ q = <<>>)
    BY <1>1, Here
  <2>3. /\ docs' \in Docs /\ docs'["status"] \in Statuses
        /\ auth[d] \in BOOLEAN /\ profile[d] \in SUBSET Field /\ Held(p, auth[d], profile[d])
        /\ crashes' \in Nat /\ breaks' \in Nat /\ refusals' \in Nat /\ errors' \in Nat
        /\ crashes <= crashes' /\ refusals <= refusals' /\ errors <= errors'
        /\ ~raced /\ errors' = 0 => Begun(docs', p, q)
    BY <1>1, Here
  <2>4. QED
    BY <1>1, <1>2, <1>3, <1>4, <2>1, <2>2, <2>3 DEF Goes
<1>6. QED
  BY <1>5, StepKeeps

LEMMA CrashStep == ASSUME IInv, NEW d \in Device, Crash(d), Race PROVE IInv'
<1> DEFINE q == queue[d]
           a == answers[d]
           e == <<>>
           to == Unheard(q)
           au == auth[d]
<1>1. /\ account' = account /\ docs' = docs /\ auth' = auth /\ profile' = [profile EXCEPT ![d] = {}]
      /\ Go(d, "askStatus") /\ queue' = [queue EXCEPT ![d] = to] /\ answers' = [answers EXCEPT ![d] = e]
      /\ crashes' = crashes + 1 /\ breaks' = breaks /\ refusals' = refusals /\ errors' = errors
  BY DEF Crash, Unheard
<1>2. /\ Sound("askStatus", to, e) /\ Len(to) = Len(q) /\ e = <<>> /\ Len(e) = 0
      /\ \A i \in 1..Len(q) : to[i].op = q[i].op /\ to[i].doc = q[i].doc /\ to[i].fields = q[i].fields
      /\ q = <<>> => to = <<>>
  BY Here, SoundCrash
<1> HIDE DEF to, e
<1>3. \A i \in 1..Len(q) :
        /\ IsMerge(to[i]) <=> IsMerge(q[i])
        /\ \A v : IsStatus(to[i], v) <=> IsStatus(q[i], v)
        /\ IsDelete(to[i]) <=> IsDelete(q[i])
        /\ IsUser(to[i]) <=> IsUser(q[i])
        /\ Mailing(to[i]) <=> Mailing(q[i])
        /\ Bare(to[i]) <=> Bare(q[i])
  BY <1>2 DEF IsMerge, IsStatus, IsDelete, IsUser, Mailing, Bare
<1>4. /\ crashes' \in Nat /\ breaks' \in Nat /\ refusals' \in Nat /\ errors' \in Nat /\ crashes' # 0
      /\ crashes <= crashes' /\ refusals <= refusals' /\ errors <= errors'
  BY <1>1, Here
<1>5. /\ "askStatus" \notin Filling /\ "askStatus" \notin Copying /\ Held("askStatus", au, {})
  BY DEF Filling, Copying, Held
<1>6. Calm(to, e, crashes', refusals')
  BY <1>2, <1>4 DEF Calm
<1>7. ~raced /\ errors' = 0 => Begun(docs', "askStatus", to)
  <2> HAVE ~raced /\ errors' = 0
  <2>1. Begun(docs, place[d], q)
    BY <1>1, Here
  <2>2. QED
    BY <1>1, <1>2, <1>3, <2>1 DEF Begun, Fresh
<1>8. ~raced /\ refusals' + errors' = 0 => Whole(docs') /\ InChain(docs', "askStatus", to, e, au)
  <2> HAVE ~raced /\ refusals' + errors' = 0
  <2>1. Whole(docs) /\ InChain(docs, place[d], q, a, au)
    BY <1>1, Here
  <2>2. Unfinished(docs, q) => Unfinished(docs, to)
    BY <1>2, <1>3 DEF Unfinished, Early
  <2>3. /\ QueuedStatus(docs, q, a) => QueuedStatus(docs, to, e)
        /\ QueuedDelete(docs, q, a) => QueuedDelete(docs, to, e)
        /\ QueuedUser(docs, q) => QueuedUser(docs, to)
    BY <1>2, <1>3 DEF QueuedStatus, QueuedDelete, QueuedUser
  <2>4. QED
    BY <1>1, <1>2, <1>5, <2>1, <2>2, <2>3 DEF InChain
<1>9. ~raced /\ (crashes' = 0 \/ refusals' = 0) => MailDocs(docs') /\ MailFit(docs', "askStatus", to, e, {}, crashes')
  <2> HAVE ~raced /\ (crashes' = 0 \/ refusals' = 0)
  <2>1. MailDocs(docs) /\ MailFit(docs, place[d], q, a, profile[d], crashes)
    BY <1>1, <1>4, Here
  <2>2. \A n \in 1..Len(q) : ~(n <= Len(e))
    BY <1>2
  <2>3. Len(q) \in Nat
    BY Here, SoundIs
  <2>4. \A n \in 1..Len(q) : Covered(docs, q, n) => Covered(docs, to, n)
    BY <1>2, <1>3, <2>3 DEF Covered, Holds
  <2>5. QED
    BY <1>1, <1>2, <1>3, <1>5, <2>1, <2>2, <2>4 DEF MailFit
<1>10. Goes(d, "askStatus", to, e, au, {})
  <2>1. Local(d, "askStatus", to, e, au, {})
    BY <1>1, Here DEF Local, Go
  <2>2. account' \in {"mail", "google"} \/ (/\ UNCHANGED <<account, docs>> /\ account = "none"
                                            /\ "askStatus" \in {"login", "askStatus"} /\ ~au /\ to = <<>>)
    BY <1>1, <1>2, Here
  <2>3. docs' \in Docs /\ docs'["status"] \in Statuses /\ au \in BOOLEAN /\ {} \in SUBSET Field
    BY <1>1, Here
  <2>4. QED
    BY <1>1, <1>2, <1>4, <1>5, <1>6, <1>7, <1>8, <1>9, <2>1, <2>2, <2>3 DEF Goes
<1>11. QED
  BY <1>10, StepKeeps

LEMMA CommitStep == ASSUME IInv, NEW d \in Device, Commit(d), Race PROVE IInv'
<1> DEFINE p == place[d]
           q == queue[d]
           a == answers[d]
           k == Len(a) + 1
           w == q[k]
           to == Append(a, TRUE)
           after == Apply(docs, w)
           au == auth[d]
<1>1. /\ au /\ Len(a) < Len(q) /\ (\A i \in DOMAIN a : a[i]) /\ docs' = after
      /\ account' = account /\ auth' = auth /\ place' = place /\ profile' = profile /\ queue' = queue
      /\ crashes' = crashes /\ breaks' = breaks /\ refusals' = refusals /\ errors' = errors
      /\ answers' = [answers EXCEPT ![d] = to]
  BY DEF Commit, CanAnswer, Refusing, NextWrite, device, faults
<1>2. /\ Sound(p, q, to) /\ Len(to) = k /\ Len(a) \in Nat /\ Len(q) \in Nat /\ to # <<>>
      /\ \A i \in 1..Len(to) : (i \in 1..Len(a) /\ to[i] = a[i]) \/ (i = k /\ to[i] = TRUE)
  <2>1. Sound(p, q, a) /\ Len(a) < Len(q) /\ TRUE \in BOOLEAN
    BY <1>1, Here
  <2>2. Len(a) \in Nat /\ Len(q) \in Nat
    BY <2>1, SoundIs
  <2>3. QED
    BY ONLY <2>1, <2>2, SoundAnswer
<1>3. /\ q \in Seq(Write) /\ Shaped(q) /\ q # <<>> /\ k \in 1..Len(q) /\ w \in Write
      /\ \A i \in 1..Len(a) : a[i]
  BY <1>1, <1>2, Here, SoundIs
<1>4. /\ IsMerge(w) \/ IsStatus(w, "false")
           \/ (k = 1 /\ (IsStatus(w, "true") \/ IsDelete(w) \/ IsUser(w)))
      /\ \A i \in 1..Len(q) : IsDelete(q[i]) => i = 1
  BY <1>3, ShapedIs, WritesAre
<1>5. /\ after \in Docs
      /\ IsMerge(w) => /\ after["task-user"] = docs["task-user"] \cup w.fields
                       /\ after["status"] = docs["status"] /\ after["user"] = docs["user"]
      /\ IsDelete(w) => /\ after["task-user"] = {}
                        /\ after["status"] = docs["status"] /\ after["user"] = docs["user"]
      /\ IsUser(w) => /\ after["user"] = w.fields
                      /\ after["status"] = docs["status"] /\ after["task-user"] = docs["task-user"]
      /\ \A v : IsStatus(w, v) => /\ after["status"] = {v}
                                  /\ after["user"] = docs["user"] /\ after["task-user"] = docs["task-user"]
  BY <1>3, Here, ApplyIs
<1>6. after["status"] \in Statuses
  BY <1>4, <1>5, Here DEF Statuses
<1> HIDE DEF to, after
<1>7. Calm(q, to, crashes, refusals)
  BY <1>2, Here DEF Calm
<1>8. ~raced /\ errors = 0 => Begun(after, p, q)
  <2> HAVE ~raced /\ errors = 0
  <2>1. Begun(docs, p, q)
    BY Here
  <2>2. ASSUME Fresh(docs, q) PROVE Fresh(after, q)
    <3>1. ~IsUser(w) /\ docs["user"] = {}
      BY <1>3, <2>2 DEF Fresh
    <3>2. after["user"] = {}
      BY <1>4, <1>5, <3>1
    <3>3. QED
      BY <2>2, <3>2 DEF Fresh
  <2>3. QED
    BY <2>1, <2>2 DEF Begun
<1>9. ~raced /\ refusals + errors = 0 => Whole(after) /\ InChain(after, p, q, to, au)
  <2> HAVE ~raced /\ refusals + errors = 0
  <2>1. InChain(docs, p, q, a, au)
    BY Here
  <2>2. p # "rereading"
    BY <1>3, Here DEF Sound
  <2>3. CASE Unfinished(docs, q)
    <3>1. Early(w) /\ docs["user"] = {}
      BY <1>3, <2>3 DEF Unfinished
    <3>2. after["user"] = {}
      BY <1>5, <3>1 DEF Early
    <3>3. Unfinished(after, q) /\ Whole(after)
      BY <2>3, <3>2 DEF Unfinished, Whole
    <3>4. ~QueuedStatus(docs, q, a) /\ ~QueuedDelete(docs, q, a) /\ ~QueuedUser(docs, q)
      BY <1>3, <2>3, OneKind
    <3>5. QED
      BY <1>3, <2>1, <2>2, <3>3, <3>4 DEF InChain
  <2>4. CASE QueuedStatus(docs, q, a)
    <3>1. Len(q) = 1 /\ k = 1 /\ IsStatus(w, "true") /\ docs["user"] = {}
      BY <1>2, <1>3, <2>4 DEF QueuedStatus
    <3>2. QueuedStatus(after, q, to) /\ Whole(after)
      BY <1>5, <3>1 DEF QueuedStatus, Whole
    <3>3. ~Unfinished(docs, q) /\ ~QueuedDelete(docs, q, a) /\ ~QueuedUser(docs, q)
      BY <1>3, <2>4, OneKind
    <3>4. QED
      BY <1>3, <2>1, <2>2, <3>2, <3>3 DEF InChain
  <2>5. CASE QueuedDelete(docs, q, a)
    <3>1. Len(q) = 1 /\ k = 1 /\ IsDelete(w) /\ docs["user"] = {} /\ docs["status"] = {"true"}
      BY <1>2, <1>3, <2>5 DEF QueuedDelete
    <3>2. QueuedDelete(after, q, to) /\ Whole(after)
      BY <1>5, <3>1 DEF QueuedDelete, Whole
    <3>3. ~Unfinished(docs, q) /\ ~QueuedStatus(docs, q, a) /\ ~QueuedUser(docs, q)
      BY <1>3, <2>5, OneKind
    <3>4. QED
      BY <1>3, <2>1, <2>2, <3>2, <3>3 DEF InChain
  <2>6. CASE QueuedUser(docs, q)
    <3>1. /\ Len(q) = 1 /\ k = 1 /\ IsUser(w)
          /\ docs["task-user"] = {} /\ docs["status"] = {"true"}
      BY <1>2, <1>3, <2>6 DEF QueuedUser
    <3>2. QueuedUser(after, q) /\ Whole(after)
      BY <1>5, <3>1 DEF QueuedUser, Whole
    <3>3. ~Unfinished(docs, q) /\ ~QueuedStatus(docs, q, a) /\ ~QueuedDelete(docs, q, a)
      BY <1>3, <2>6, OneKind
    <3>4. QED
      BY <1>3, <2>1, <2>2, <3>2, <3>3 DEF InChain
  <2>7. QED
    BY <1>3, <2>1, <2>3, <2>4, <2>5, <2>6 DEF InChain
<1>10. ~raced /\ (crashes = 0 \/ refusals = 0) => MailDocs(after) /\ MailFit(after, p, q, to, profile[d], crashes)
  <2> HAVE ~raced /\ (crashes = 0 \/ refusals = 0)
  <2>1. MailDocs(docs)
    BY Here
  <2>2. /\ \A n \in 1..Len(q) : /\ IsUser(q[n]) => "mail" \in q[n].fields
                                /\ Bare(q[n]) => Covered(docs, q, n)
                                /\ n <= Len(a) /\ a[n] /\ Mailing(q[n]) => "mail" \in docs["task-user"]
        /\ p = "deleting" => "mail" \in profile[d]
        /\ p \in Copying => Covered(docs, q, Len(q) + 1) /\ (crashes = 0 => Holds(docs, q))
    BY Here DEF MailFit
  <2>3. Mailing(w) => "mail" \in after["task-user"]
    BY <1>5 DEF Mailing
  <2>4. ASSUME Bare(w) PROVE "mail" \in docs["task-user"]
    <3>1. Covered(docs, q, k)
      BY <1>3, <2>2, <2>4
    <3>2. ASSUME NEW i \in 1..(k - 1), Mailing(q[i]) PROVE "mail" \in docs["task-user"]
      <4>1. i \in 1..Len(q) /\ i <= Len(a) /\ a[i]
        BY <1>2, <1>3
      <4>2. QED
        BY <2>2, <3>2, <4>1
    <3>3. QED
      BY <3>1, <3>2 DEF Covered, Holds
  <2>5. MailDocs(after)
    <3>1. "mail" \in docs["task-user"] /\ IsMerge(w) => "mail" \in after["task-user"]
      BY <1>5
    <3>2. IsUser(w) => "mail" \in w.fields
      BY <1>3, <2>2
    <3>3. IsMerge(w) => Mailing(w) \/ Bare(w)
      BY DEF Mailing, Bare
    <3>4. IsMerge(w) => "mail" \in after["task-user"]
      BY <2>3, <2>4, <3>1, <3>3
    <3>5. after["task-user"] # {} => "mail" \in after["task-user"]
      BY <1>4, <1>5, <2>1, <3>4 DEF MailDocs
    <3>6. after["user"] # {} => "mail" \in after["user"]
      BY <1>4, <1>5, <2>1, <3>2 DEF MailDocs
    <3>7. QED
      BY <3>5, <3>6 DEF MailDocs
  <2>6. ~IsDelete(w) /\ "mail" \in docs["task-user"] => "mail" \in after["task-user"]
    BY <1>4, <1>5
  <2>7. Holds(docs, q) => Holds(after, q)
    BY <1>3, <2>6 DEF Holds
  <2>8. \A n \in 1..(Len(q) + 1) : Covered(docs, q, n) => Covered(after, q, n)
    BY <2>7 DEF Covered
  <2>9. ASSUME NEW n \in 1..Len(q), n <= Len(to), Mailing(q[n]) PROVE "mail" \in after["task-user"]
    <3>1. CASE n = k
      BY <2>3, <2>9, <3>1
    <3>2. CASE n # k
      <4>1. n <= Len(a) /\ a[n] /\ k # 1
        BY <1>2, <1>3, <2>9, <3>2
      <4>2. ~IsDelete(w)
        BY <1>3, <1>4, <4>1
      <4>3. QED
        BY <2>2, <2>6, <2>9, <4>1, <4>2
    <3>3. QED
      BY <3>1, <3>2
  <2>10. Len(q) + 1 \in 1..(Len(q) + 1) /\ \A n \in 1..Len(q) : n \in 1..(Len(q) + 1)
    BY <1>2
  <2>11. QED
    BY <2>2, <2>5, <2>7, <2>8, <2>9, <2>10 DEF MailFit
<1>11. Goes(d, p, q, to, au, profile[d])
  <2>1. Local(d, p, q, to, au, profile[d])
    BY <1>1, Here DEF Local
  <2>2. /\ account' \in {"mail", "google"} /\ docs' \in Docs /\ docs'["status"] \in Statuses
        /\ au \in BOOLEAN /\ profile[d] \in SUBSET Field /\ Held(p, au, profile[d])
        /\ crashes' \in Nat /\ breaks' \in Nat /\ refusals' \in Nat /\ errors' \in Nat
        /\ crashes <= crashes' /\ refusals <= refusals' /\ errors <= errors'
    <3>1. docs' \in Docs /\ docs'["status"] \in Statuses
      BY <1>1, <1>5, <1>6
    <3>2. account' = account /\ au
      BY <1>1
    <3>3. account' \in {"mail", "google"}
      BY <3>2, Here
    <3>4. /\ crashes' = crashes /\ breaks' = breaks /\ refusals' = refusals /\ errors' = errors
          /\ crashes \in Nat /\ breaks \in Nat /\ refusals \in Nat /\ errors \in Nat
      BY <1>1, Here
    <3>5. au \in BOOLEAN /\ profile[d] \in SUBSET Field /\ Held(p, au, profile[d])
      BY Here
    <3>6. QED
      BY ONLY <3>1, <3>3, <3>4, <3>5
  <2>3. AtWork(p, q)
    BY <1>3 DEF AtWork
  <2>4. /\ Calm(q, to, crashes', refusals') /\ (~raced /\ errors' = 0 => Begun(docs', p, q))
        /\ ~raced /\ refusals' + errors' = 0 => Whole(docs') /\ InChain(docs', p, q, to, au)
        /\ ~raced /\ (crashes' = 0 \/ refusals' = 0) =>
             MailDocs(docs') /\ MailFit(docs', p, q, to, profile[d], crashes')
    BY <1>1, <1>7, <1>8, <1>9, <1>10
  <2>5. QED
    BY <1>2, <2>1, <2>2, <2>3, <2>4 DEF Goes
<1>12. QED
  BY <1>11, StepKeeps

(* The head is settled without a completion: somebody crashed before. *)
LEMMA PassStep ==
  ASSUME IInv, NEW d \in Device, Race, queue[d] # <<>>, ~queue[d][1].heard,
         UNCHANGED <<account, docs, auth, place, profile, crashes, breaks, refusals, errors>>,
         queue' = [queue EXCEPT ![d] = Tail(@)],
         NEW to \in Seq(BOOLEAN), answers' = [answers EXCEPT ![d] = to], Len(to) <= Len(queue[d]) - 1,
         refusals = 0 => /\ answers[d] # <<>> /\ Len(to) = Len(answers[d]) - 1
                         /\ \A i \in 1..Len(to) : to[i] = answers[d][i + 1]
  PROVE  IInv'
<1> DEFINE p == place[d]
           q == queue[d]
           a == answers[d]
           left == Tail(q)
           au == auth[d]
<1>1. /\ account' = account /\ docs' = docs /\ auth' = auth /\ place' = place /\ profile' = profile
      /\ crashes' = crashes /\ breaks' = breaks /\ refusals' = refusals /\ errors' = errors
  OBVIOUS
<1>2. /\ Sound(p, left, to) /\ Len(left) = Len(q) - 1 /\ Len(q) \in Nat \ {0}
      /\ \A i \in 1..Len(left) : left[i] = q[i + 1] /\ i + 1 \in 1..Len(q) /\ Early(left[i])
  BY Here, SoundPass
<1>3. /\ Len(left) = 0 <=> left = <<>>
      /\ Len(q) \in Nat /\ Len(a) \in Nat /\ Len(to) \in Nat
      /\ \A i \in 1..Len(a) : a[i] \in BOOLEAN
      /\ \A i \in 1..Len(left) : left[i] \in Write
  BY <1>2, Here, SoundIs
<1>4. crashes # 0
  <2>1. 1 \in 1..Len(q) /\ ~q[1].heard
    BY <1>2
  <2>2. Calm(q, a, crashes, refusals)
    BY Here
  <2>3. QED
    BY ONLY <2>1, <2>2 DEF Calm
<1> HIDE DEF left
<1>5. Calm(left, to, crashes, refusals)
  <2>1. ASSUME refusals = 0, NEW i \in 1..Len(to) PROVE to[i]
    <3>1. to[i] = a[i + 1] /\ i + 1 \in 1..Len(a)
      BY <1>3, <2>1
    <3>2. a[i + 1]
      BY <2>1, <3>1, Here DEF Calm
    <3>3. QED
      BY <3>1, <3>2
  <2>2. QED
    BY <1>4, <2>1 DEF Calm
<1>6. ~raced /\ errors = 0 => Begun(docs, p, left)
  <2> HAVE ~raced /\ errors = 0
  <2>1. Begun(docs, p, q)
    BY Here
  <2>2. QED
    BY <1>2, <2>1 DEF Begun, Fresh
<1>7. ~raced /\ refusals + errors = 0 => Whole(docs) /\ InChain(docs, p, left, to, au)
  <2> HAVE ~raced /\ refusals + errors = 0
  <2>1. Whole(docs) /\ InChain(docs, p, q, a, au)
    BY Here
  <2>2. Unfinished(docs, q) => Unfinished(docs, left)
    BY <1>2 DEF Unfinished
  <2>3. Len(q) = 1 => left = <<>>
    BY <1>2, <1>3
  <2>4. p \notin {"rereading", "finishing", "deleting"}
    <3>1. Sound(p, q, a)
      BY Here
    <3>2. p # "rereading"
      BY <3>1 DEF Sound
    <3>3. 1 \in 1..Len(q) /\ ~q[1].heard
      BY <1>2
    <3>4. p \in Writing => Len(q) # 1
      BY ONLY <3>1, <3>3 DEF Sound
    <3>5. p \in {"finishing", "deleting"} => Len(q) = 1
      BY ONLY <2>1 DEF InChain, QueuedStatus, QueuedDelete
    <3>6. p \in {"finishing", "deleting"} => p \in Writing
      BY DEF Writing
    <3>7. QED
      BY ONLY <3>2, <3>4, <3>5, <3>6
  <2>6. QED
    BY <2>1, <2>2, <2>3, <2>4 DEF InChain, QueuedStatus, QueuedDelete, QueuedUser
<1>8. ~raced /\ (crashes = 0 \/ refusals = 0) => MailDocs(docs) /\ MailFit(docs, p, left, to, profile[d], crashes)
  <2> HAVE ~raced /\ (crashes = 0 \/ refusals = 0)
  <2>1. MailDocs(docs)
    BY Here
  <2>2. /\ \A n \in 1..Len(q) : /\ IsUser(q[n]) => "mail" \in q[n].fields
                                /\ Bare(q[n]) => Covered(docs, q, n)
                                /\ n <= Len(a) /\ a[n] /\ Mailing(q[n]) => "mail" \in docs["task-user"]
        /\ p = "deleting" => "mail" \in profile[d]
        /\ p \in Copying => Covered(docs, q, Len(q) + 1)
    BY Here DEF MailFit
  <2>3. refusals = 0 /\ a # <<>> /\ Len(a) \in Nat \ {0} /\ a[1] /\ Len(to) = Len(a) - 1
    <3>1. refusals = 0 /\ a # <<>> /\ Len(to) = Len(a) - 1
      BY <1>4
    <3>2. Sound(p, q, a) /\ Calm(q, a, crashes, refusals)
      BY Here
    <3>3. Len(a) \in Nat \ {0}
      BY ONLY <3>1, <3>2, SoundIs
    <3>4. 1 \in 1..Len(a)
      BY ONLY <3>3
    <3>5. QED
      BY ONLY <3>1, <3>2, <3>3, <3>4 DEF Calm
  <2>4. \A i \in 1..Len(left) : ~IsDelete(left[i])
    BY <1>2, <1>3, WritesAre DEF Early
  <2>5. Mailing(q[1]) => "mail" \in docs["task-user"]
    BY <1>2, <2>2, <2>3
  <2>6. ASSUME NEW n \in 1..(Len(left) + 1), Covered(docs, q, n + 1) PROVE Covered(docs, left, n)
    <3>1. CASE Holds(docs, q)
      BY <2>4, <3>1 DEF Holds, Covered
    <3>2. CASE Mailing(q[1])
      BY <2>4, <2>5, <3>2 DEF Holds, Covered
    <3>3. ASSUME NEW i \in 2..n, Mailing(q[i]) PROVE Covered(docs, left, n)
      <4>1. i - 1 \in 1..Len(left) /\ i - 1 \in 1..(n - 1) /\ left[i - 1] = q[i]
        BY <1>2
      <4>2. QED
        BY <3>3, <4>1 DEF Covered
    <3>4. (\E i \in 1..n : Mailing(q[i])) \/ Holds(docs, q)
      BY <1>2, <2>6 DEF Covered
    <3>5. QED
      BY <1>2, <3>1, <3>2, <3>3, <3>4
  <2>7. ASSUME NEW n \in 1..Len(left)
        PROVE  /\ IsUser(left[n]) => "mail" \in left[n].fields
               /\ Bare(left[n]) => Covered(docs, left, n)
               /\ n <= Len(to) /\ to[n] /\ Mailing(left[n]) => "mail" \in docs["task-user"]
    <3>1. n + 1 \in 1..Len(q) /\ left[n] = q[n + 1] /\ n \in 1..(Len(left) + 1)
      BY <1>2
    <3>2. n <= Len(to) /\ to[n] => n + 1 <= Len(a) /\ a[n + 1]
      BY <1>3, <2>3
    <3>3. QED
      BY <2>2, <2>6, <3>1, <3>2
  <2>8. p \in Copying => Covered(docs, left, Len(left) + 1)
    <3>1. Len(left) + 1 \in 1..(Len(left) + 1) /\ (Len(left) + 1) + 1 = Len(q) + 1
      BY <1>2
    <3>2. QED
      BY <2>2, <2>6, <3>1
  <2>9. QED
    BY <1>4, <2>1, <2>2, <2>7, <2>8 DEF MailFit
<1>9. Goes(d, p, left, to, au, profile[d])
  <2>1. Local(d, p, left, to, au, profile[d])
    BY <1>1, Here DEF Local, left
  <2>2. /\ account' \in {"mail", "google"} /\ docs' \in Docs /\ docs'["status"] \in Statuses
        /\ au \in BOOLEAN /\ profile[d] \in SUBSET Field /\ Held(p, au, profile[d])
        /\ crashes' \in Nat /\ breaks' \in Nat /\ refusals' \in Nat /\ errors' \in Nat
        /\ crashes <= crashes' /\ refusals <= refusals' /\ errors <= errors'
    BY <1>1, Here
  <2>3. /\ Calm(left, to, crashes', refusals') /\ (~raced /\ errors' = 0 => Begun(docs', p, left))
        /\ ~raced /\ refusals' + errors' = 0 => Whole(docs') /\ InChain(docs', p, left, to, au)
        /\ ~raced /\ (crashes' = 0 \/ refusals' = 0) =>
             MailDocs(docs') /\ MailFit(docs', p, left, to, profile[d], crashes')
    BY <1>1, <1>5, <1>6, <1>7, <1>8
  <2>4. QED
    BY <1>1, <1>2, <2>1, <2>2, <2>3 DEF Goes
<1>10. QED
  BY <1>9, StepKeeps

(* The head is settled with its completion: it was the only write. *)
LEMMA HeardStep ==
  ASSUME IInv, NEW d \in Device, Race, place[d] \in Writing,
         UNCHANGED <<account, docs, auth, profile, crashes, breaks, refusals, errors>>,
         NEW p, NEW q, Go(d, p), queue' = [queue EXCEPT ![d] = q],
         NEW to, to = <<>>, answers' = [answers EXCEPT ![d] = to],
         Sound(p, q, to), Calm(q, to, crashes, refusals), Held(p, TRUE, profile[d]),
         ~raced /\ errors = 0 => Begun(docs, p, q),
         ~raced /\ refusals + errors = 0 => InChain(docs, p, q, to, TRUE),
         ~raced /\ (crashes = 0 \/ refusals = 0) => MailFit(docs, p, q, to, profile[d], crashes)
  PROVE  IInv'
<1>1. /\ account' = account /\ docs' = docs /\ auth' = auth /\ profile' = profile
      /\ crashes' = crashes /\ breaks' = breaks /\ refusals' = refusals /\ errors' = errors
  OBVIOUS
<1>2. auth[d]
  BY Here DEF Held, Writing
<1>3. Local(d, p, q, to, TRUE, profile[d])
  BY <1>1, <1>2, Here DEF Local, Go
<1>4. AtWork(place[d], queue[d])
  BY DEF AtWork, Resting, Writing
<1>5. /\ account' \in {"mail", "google"} /\ docs' \in Docs /\ docs'["status"] \in Statuses
      /\ profile[d] \in SUBSET Field
      /\ crashes' \in Nat /\ breaks' \in Nat /\ refusals' \in Nat /\ errors' \in Nat
      /\ crashes <= crashes' /\ refusals <= refusals' /\ errors <= errors'
  BY <1>1, <1>2, Here
<1>6. /\ Calm(q, to, crashes', refusals') /\ (~raced /\ errors' = 0 => Begun(docs', p, q))
      /\ ~raced /\ refusals' + errors' = 0 => Whole(docs') /\ InChain(docs', p, q, to, TRUE)
      /\ ~raced /\ (crashes' = 0 \/ refusals' = 0) =>
           MailDocs(docs') /\ MailFit(docs', p, q, to, profile[d], crashes')
  BY <1>1, Here
<1>7. Goes(d, p, q, to, TRUE, profile[d])
  BY <1>3, <1>4, <1>5, <1>6 DEF Goes
<1>8. QED
  BY <1>7, StepKeeps

(* ... and no other write follows. *)
LEMMA EndsStep ==
  ASSUME IInv, NEW d \in Device, Race, place[d] \in Writing,
         UNCHANGED <<account, docs, auth, profile, crashes, breaks, refusals, errors>>,
         NEW p \in {"login", "stuck", "askStatus", "thumb", "rereading"}, Go(d, p),
         queue' = [queue EXCEPT ![d] = <<>>], answers' = [answers EXCEPT ![d] = <<>>],
         ~raced /\ refusals + errors = 0 =>
           /\ p = "thumb" => docs["user"] = {}
           /\ p = "rereading" => docs["status"] = {"true"} /\ docs["user"] = {},
         ~raced /\ (crashes = 0 \/ refusals = 0) => (p = "thumb" => "mail" \in docs["task-user"])
  PROVE  IInv'
<1> DEFINE q == <<>>
<1>1. /\ p \in Place /\ p \notin Writing /\ (p \in Filling => p = "thumb") /\ (p \in Copying => p = "thumb")
      /\ p \notin {"created", "registerTask", "checkTask", "finishing", "deleting"}
      /\ Held(p, TRUE, profile[d])
  BY DEF Place, Resting, Waiting, Writing, Filling, Copying, Held
<1>2. Sound(p, q, q) /\ Calm(q, q, crashes, refusals) /\ q = <<>> /\ \A i : i \notin 1..Len(q)
  BY <1>1, SoundNext
<1>3. queue' = [queue EXCEPT ![d] = q] /\ answers' = [answers EXCEPT ![d] = q]
  OBVIOUS
<1> HIDE DEF q
<1>4. Begun(docs, p, q)
  BY <1>1, <1>2 DEF Begun
<1>5. ~raced /\ refusals + errors = 0 => InChain(docs, p, q, q, TRUE)
  BY <1>1, <1>2 DEF InChain, Unfinished
<1>6. ~raced /\ (crashes = 0 \/ refusals = 0) => MailFit(docs, p, q, q, profile[d], crashes)
  BY <1>1, <1>2 DEF MailFit, Covered, Holds
<1>7. QED
  BY <1>1, <1>2, <1>3, <1>4, <1>5, <1>6, HeardStep

(* ... and the next write of the chain follows. *)
LEMMA FollowsStep ==
  ASSUME IInv, NEW d \in Device, Race, place[d] \in Writing,
         UNCHANGED <<account, docs, auth, profile, crashes, breaks, refusals, errors>>,
         NEW p \in {"registerStatus", "googleTask", "named", "finishing", "saving"}, Go(d, p),
         NEW w \in Write, w.heard, Early(w) \/ Late(w),
         queue' = [queue EXCEPT ![d] = <<w>>], answers' = [answers EXCEPT ![d] = <<>>],
         ~raced /\ errors = 0 => (IsStatus(w, "false") => docs["user"] = {}),
         ~raced /\ refusals + errors = 0 =>
           \/ p \notin {"finishing", "saving"} /\ Early(w) /\ docs["user"] = {}
           \/ p = "finishing" /\ IsStatus(w, "true") /\ docs["user"] = {}
           \/ p = "saving" /\ IsUser(w) /\ docs["status"] = {"true"} /\ docs["task-user"] = {},
         ~raced /\ (crashes = 0 \/ refusals = 0) =>
           /\ IsUser(w) => "mail" \in w.fields
           /\ Bare(w) => "mail" \in docs["task-user"]
  PROVE  IInv'
<1> DEFINE q == <<w>>
           e == <<>>
<1>1. /\ p \in Place /\ p \in Writing /\ p \notin Copying /\ (p \in Filling => p \notin {"finishing", "saving"})
      /\ p \notin {"created", "registerTask", "checkTask", "rereading", "deleting", "feed", "login", "checkUser"}
      /\ Held(p, TRUE, profile[d])
  BY DEF Place, Writing, Filling, Copying, Held
<1>2. Sound(p, q, e) /\ Calm(q, e, crashes, refusals)
  BY <1>1, SoundNext
<1>3. /\ Len(q) = 1 /\ q[1] = w /\ (\A i \in 1..Len(q) : i = 1) /\ e = <<>> /\ Len(e) = 0
      /\ queue' = [queue EXCEPT ![d] = q] /\ answers' = [answers EXCEPT ![d] = e]
  OBVIOUS
<1> HIDE DEF q, e
<1>4. ~raced /\ errors = 0 => Begun(docs, p, q)
  BY <1>1, <1>3, WritesAre DEF Begun, Fresh
<1>5. ~raced /\ refusals + errors = 0 => InChain(docs, p, q, e, TRUE)
  <2> HAVE ~raced /\ refusals + errors = 0
  <2>1. CASE p \notin {"finishing", "saving"} /\ Early(w) /\ docs["user"] = {}
    BY <1>1, <1>3, <2>1 DEF InChain, Unfinished
  <2>2. CASE p = "finishing" /\ IsStatus(w, "true") /\ docs["user"] = {}
    BY <1>1, <1>3, <2>2 DEF InChain, QueuedStatus
  <2>3. CASE p = "saving" /\ IsUser(w) /\ docs["status"] = {"true"} /\ docs["task-user"] = {}
    BY <1>1, <1>3, <2>3 DEF InChain, QueuedUser
  <2>4. QED
    BY <2>1, <2>2, <2>3
<1>6. ~raced /\ (crashes = 0 \/ refusals = 0) => MailFit(docs, p, q, e, profile[d], crashes)
  <2> HAVE ~raced /\ (crashes = 0 \/ refusals = 0)
  <2>1. Bare(w) => Holds(docs, q)
    <3>1. IsMerge(w) => ~IsDelete(w)
      BY WritesAre
    <3>2. QED
      BY <1>3, <3>1 DEF Holds, Bare
  <2>2. QED
    BY <1>1, <1>3, <2>1 DEF MailFit, Covered
<1>7. QED
  BY <1>1, <1>2, <1>3, <1>4, <1>5, <1>6, HeardStep

LEMMA AnsweredStep ==
  ASSUME IInv, NEW d \in Device, Race, queue[d] # <<>>, queue[d][1].heard, answers[d] # <<>>,
         NEW ok \in BOOLEAN, Settle(d, ok), answers' = [answers EXCEPT ![d] = <<>>],
         ok => answers[d][1], ~ok => refusals # 0
  PROVE  IInv'
<1> DEFINE p == place[d]
           q == queue[d]
           a == answers[d]
           next == NextStep(d, p, ok)
           w == New(next.write[1], next.write[2], next.write[3])
<1>1. /\ Len(q) = 1 /\ p \in Writing /\ Tail(q) = <<>> /\ q[1] \in Write /\ Head(q) = q[1]
      /\ Len(a) = 1 /\ 1 \in 1..Len(q)
  <2>1. Len(q) = 1 /\ p \in Writing /\ Tail(q) = <<>> /\ q[1] \in Write /\ Len(a) = 1
    BY Here, SoundHeard
  <2>2. Head(q) = q[1]
    BY Here, SoundIs, TailIs
  <2>3. QED
    BY <2>1, <2>2
<1>2. /\ UNCHANGED <<account, docs, auth, profile, crashes, breaks, refusals, errors>>
      /\ Go(d, next.to)
      /\ next.write = <<>> => queue' = [queue EXCEPT ![d] = <<>>]
      /\ next.write # <<>> => queue' = [queue EXCEPT ![d] = <<w>>]
  <2>1. Append(<<>>, w) = <<w>>
    OBVIOUS
  <2>2. /\ UNCHANGED <<account, docs, auth, profile, faults>> /\ Go(d, next.to)
        /\ queue' = [queue EXCEPT ![d] = IF next.write = <<>> THEN Tail(q) ELSE Append(Tail(q), w)]
    BY <1>1 DEF Settle, New
  <2>3. QED
    BY <1>1, <2>1, <2>2 DEF faults
<1>3. ~raced /\ refusals + errors = 0 =>
        /\ p \in Filling => docs["user"] = {}
        /\ p = "finishing" => docs["status"] = {"true"} /\ docs["user"] = {}
        /\ p = "deleting" => docs["status"] = {"true"} /\ docs["task-user"] = {}
  <2> HAVE ~raced /\ refusals + errors = 0
  <2>1. InChain(docs, p, q, a, auth[d])
    BY Here
  <2>2. QED
    BY <2>1 DEF InChain, Unfinished, QueuedStatus, QueuedDelete
<1>4. ~raced /\ (crashes = 0 \/ refusals = 0) =>
        /\ p \in Copying => "mail" \in docs["task-user"]
        /\ p = "deleting" => "mail" \in profile[d]
  <2> HAVE ~raced /\ (crashes = 0 \/ refusals = 0)
  <2>1. MailFit(docs, p, q, a, profile[d], crashes)
    BY Here
  <2>2. p = "deleting" => "mail" \in profile[d]
    BY <2>1 DEF MailFit
  <2>3. ASSUME p \in Copying PROVE "mail" \in docs["task-user"]
    <3>1. CASE crashes = 0
      BY <2>1, <2>3, <3>1 DEF MailFit, Holds
    <3>2. CASE refusals = 0
      <4>1. a[1]
        BY <3>2
      <4>2. \A i \in 1..((Len(q) + 1) - 1) : i = 1
        BY <1>1
      <4>3. Mailing(q[1]) => "mail" \in docs["task-user"]
        <5>1. 1 \in 1..Len(q) /\ 1 <= Len(a)
          BY <1>1
        <5>2. QED
          BY <2>1, <4>1, <5>1 DEF MailFit
      <4>4. Covered(docs, q, Len(q) + 1)
        BY <2>1, <2>3 DEF MailFit
      <4>5. QED
        BY <4>2, <4>3, <4>4 DEF Covered, Holds
    <3>3. QED
      BY <3>1, <3>2
  <2>4. QED
    BY <2>2, <2>3
<1>5. ~raced /\ errors = 0 => (p = "registerTask" => docs["user"] = {})
  BY Here DEF Begun, Fresh
<1>6. refusals + errors = 0 => refusals = 0
  BY Here, NoneOfTwo
<1>7. CASE /\ next.write = <<>>
           /\ \/ next.to = "login" /\ ~ok
              \/ next.to = "stuck" /\ ~ok
              \/ next.to = "thumb" /\ p = "picture" /\ ok
              \/ next.to = "rereading" /\ p = "finishing"
              \/ next.to = "askStatus"
  <2> DEFINE to == next.to
  <2>1. /\ to \in {"login", "stuck", "askStatus", "thumb", "rereading"}
        /\ to = "thumb" => p = "picture"
        /\ to = "rereading" => p = "finishing"
        /\ Go(d, to) /\ queue' = [queue EXCEPT ![d] = <<>>]
    BY <1>2, <1>7
  <2> HIDE DEF next, to
  <2>2. "picture" \in Filling /\ "picture" \in Copying
    BY DEF Filling, Copying
  <2>3. ~raced /\ refusals + errors = 0 =>
          /\ to = "thumb" => docs["user"] = {}
          /\ to = "rereading" => docs["status"] = {"true"} /\ docs["user"] = {}
    BY <1>3, <2>1, <2>2
  <2>4. ~raced /\ (crashes = 0 \/ refusals = 0) => (to = "thumb" => "mail" \in docs["task-user"])
    BY <1>4, <2>1, <2>2
  <2>5. QED
    BY <1>1, <1>2, <2>1, <2>3, <2>4, EndsStep
<1>8. ASSUME NEW op, NEW doc, NEW fields, NEW to \in {"registerStatus", "googleTask", "named", "finishing", "saving"},
             next = [to |-> to, write |-> <<op, doc, fields>>]
      PROVE  Go(d, to) /\ queue' = [queue EXCEPT ![d] = <<New(op, doc, fields)>>]
  <2>1. /\ next.to = to /\ next.write = <<op, doc, fields>> /\ next.write # <<>>
        /\ next.write[1] = op /\ next.write[2] = doc /\ next.write[3] = fields
    BY <1>8
  <2>2. w = New(op, doc, fields)
    BY <2>1
  <2>3. QED
    BY <1>2, <2>1, <2>2
<1>9. CASE next = [to |-> "registerStatus", write |-> <<"set", "status", {"false"}>>] /\ p = "registerTask"
  <2> DEFINE new == New("set", "status", {"false"})
  <2>1. Go(d, "registerStatus") /\ queue' = [queue EXCEPT ![d] = <<new>>]
    BY <1>8, <1>9
  <2>2. new \in Write /\ new.heard /\ IsStatus(new, "false")
    BY NewIs
  <2> HIDE DEF new, next, w
  <2>3. Early(new) /\ ~IsUser(new) /\ ~Bare(new) /\ "registerTask" \in Filling
    BY <2>2, WritesAre DEF Early, Bare, Filling
  <2>4. QED
    BY <1>1, <1>2, <1>3, <1>5, <1>9, <2>1, <2>2, <2>3, FollowsStep
<1>10. CASE /\ next = [to |-> "googleTask", write |-> <<"merge", "task-user", {"mail", "name", "picture"}>>]
            /\ p = "googleStatus"
  <2> DEFINE new == New("merge", "task-user", {"mail", "name", "picture"})
  <2>1. Go(d, "googleTask") /\ queue' = [queue EXCEPT ![d] = <<new>>]
    BY <1>8, <1>10
  <2>2. new \in Write /\ new.heard /\ IsMerge(new) /\ "mail" \in new.fields
    BY NewIs DEF Field
  <2> HIDE DEF new, next, w
  <2>3. Early(new) /\ ~IsUser(new) /\ ~Bare(new) /\ ~IsStatus(new, "false") /\ "googleStatus" \in Filling
    BY <2>2, WritesAre DEF Early, Bare, Filling
  <2>4. QED
    BY <1>1, <1>2, <1>3, <1>10, <2>1, <2>2, <2>3, FollowsStep
<1>11. CASE next = [to |-> "named", write |-> <<"merge", "task-user", {"name"}>>] /\ p = "thumbWritten"
  <2> DEFINE new == New("merge", "task-user", {"name"})
  <2>1. Go(d, "named") /\ queue' = [queue EXCEPT ![d] = <<new>>]
    BY <1>8, <1>11
  <2>2. new \in Write /\ new.heard /\ IsMerge(new)
    BY NewIs DEF Field
  <2> HIDE DEF new, next, w
  <2>3. /\ Early(new) /\ ~IsUser(new) /\ ~IsStatus(new, "false")
        /\ "thumbWritten" \in Filling /\ "thumbWritten" \in Copying
    BY <2>2, WritesAre DEF Early, Filling, Copying
  <2>4. QED
    BY <1>1, <1>2, <1>3, <1>4, <1>11, <2>1, <2>2, <2>3, FollowsStep
<1>12. CASE next = [to |-> "finishing", write |-> <<"set", "status", {"true"}>>] /\ p = "named"
  <2> DEFINE new == New("set", "status", {"true"})
  <2>1. Go(d, "finishing") /\ queue' = [queue EXCEPT ![d] = <<new>>]
    BY <1>8, <1>12
  <2>2. new \in Write /\ new.heard /\ IsStatus(new, "true")
    BY NewIs
  <2> HIDE DEF new, next, w
  <2>3. Late(new) /\ ~IsUser(new) /\ ~Bare(new) /\ ~IsStatus(new, "false") /\ "named" \in Filling
    BY <2>2, WritesAre DEF Late, Bare, Filling
  <2>4. QED
    BY <1>1, <1>2, <1>3, <1>12, <2>1, <2>2, <2>3, FollowsStep
<1>13. CASE next = [to |-> "saving", write |-> <<"set", "user", profile[d]>>] /\ p = "deleting"
  <2> DEFINE new == New("set", "user", profile[d])
  <2>1. Go(d, "saving") /\ queue' = [queue EXCEPT ![d] = <<new>>]
    BY <1>8, <1>13
  <2>2. profile[d] \in SUBSET Field /\ profile[d] # {}
    BY <1>13, Here DEF Held
  <2>3. new \in Write /\ new.heard /\ IsUser(new) /\ new.fields = profile[d]
    BY <2>2, NewIs
  <2> HIDE DEF new, next, w
  <2>4. Late(new) /\ ~Bare(new) /\ ~IsStatus(new, "false")
    BY <2>3, WritesAre DEF Late, Bare
  <2>5. QED
    BY <1>1, <1>2, <1>3, <1>4, <1>13, <2>1, <2>3, <2>4, FollowsStep
<1>14. QED
  <2>1. p \in Writing
    BY <1>1
  <2> HIDE DEF p
  <2>2. \/ /\ next.write = <<>>
           /\ \/ next.to = "login" /\ ~ok
              \/ next.to = "stuck" /\ ~ok
              \/ next.to = "thumb" /\ p = "picture" /\ ok
              \/ next.to = "rereading" /\ p = "finishing"
              \/ next.to = "askStatus"
        \/ /\ next = [to |-> "registerStatus", write |-> <<"set", "status", {"false"}>>]
           /\ p = "registerTask"
        \/ /\ next = [to |-> "googleTask", write |-> <<"merge", "task-user", {"mail", "name", "picture"}>>]
           /\ p = "googleStatus"
        \/ next = [to |-> "named", write |-> <<"merge", "task-user", {"name"}>>] /\ p = "thumbWritten"
        \/ next = [to |-> "finishing", write |-> <<"set", "status", {"true"}>>] /\ p = "named"
        \/ next = [to |-> "saving", write |-> <<"set", "user", profile[d]>>] /\ p = "deleting"
    BY ONLY <2>1, ok \in BOOLEAN DEF NextStep, Writing
  <2> HIDE DEF next, w
  <2>3. QED
    BY <1>7, <1>9, <1>10, <1>11, <1>12, <1>13, <2>2

LEMMA AcknowledgeStep == ASSUME IInv, NEW d \in Device, Acknowledge(d), Race PROVE IInv'
<1> DEFINE q == queue[d]
           a == answers[d]
           to == Tail(a)
<1>1. /\ a # <<>> /\ Head(a) /\ answers' = [answers EXCEPT ![d] = to] /\ Settle(d, TRUE)
  BY DEF Acknowledge
<1>2. /\ q \in Seq(Write) /\ a \in Seq(BOOLEAN) /\ Len(q) \in Nat /\ Len(a) \in Nat /\ Len(a) <= Len(q)
      /\ (q = <<>> <=> Len(q) = 0) /\ (a = <<>> <=> Len(a) = 0)
  BY Here, SoundIs
<1>3. q # <<>> /\ Head(q) = q[1] /\ q[1] \in Write /\ q[1].heard \in BOOLEAN
  <2>1. q # <<>>
    <3>1. a # <<>>
      BY <1>1
    <3>2. QED
      BY ONLY <1>2, <3>1
  <2>2. Head(q) = q[1] /\ q[1] \in Write
    BY ONLY <1>2, <2>1, TailIs
  <2>3. QED
    BY ONLY <2>1, <2>2 DEF Write
<1>4. /\ to \in Seq(BOOLEAN) /\ Len(to) = Len(a) - 1 /\ a[1]
      /\ \A i \in 1..(Len(a) - 1) : to[i] = a[i + 1]
  <2>1. a \in Seq(BOOLEAN) /\ a # <<>> /\ Head(a)
    BY <1>1, <1>2
  <2>2. QED
    BY ONLY <2>1, TailIs
<1>5. CASE q[1].heard
  <2>1. Tail(a) = <<>>
    <3>1. Sound(place[d], q, a) /\ a # <<>>
      BY <1>1, Here
    <3>2. QED
      BY ONLY <1>3, <1>5, <3>1, SoundHeard
  <2>2. answers' = [answers EXCEPT ![d] = <<>>]
    BY <1>1, <2>1
  <2>3. QED
    BY <1>1, <1>3, <1>4, <1>5, <2>2, AnsweredStep
<1>6. CASE ~q[1].heard
  <2>1. /\ UNCHANGED <<account, docs, auth, place, profile, crashes, breaks, refusals, errors>>
        /\ queue' = [queue EXCEPT ![d] = Tail(@)]
    BY <1>1, <1>3, <1>6 DEF Settle, faults
  <2> HIDE DEF to
  <2>2. Len(to) <= Len(q) - 1 /\ \A i \in 1..Len(to) : to[i] = a[i + 1]
    BY <1>2, <1>4
  <2>3. QED
    BY <1>1, <1>3, <1>4, <1>6, <2>1, <2>2, PassStep
<1>7. QED
  BY <1>3, <1>5, <1>6

LEMMA RejectStep == ASSUME IInv, NEW d \in Device, Reject(d), Race PROVE IInv'
<1> DEFINE q == queue[d]
           a == answers[d]
           to == <<>>
<1>1. /\ (\E i \in DOMAIN a : ~a[i]) /\ answers' = [answers EXCEPT ![d] = to] /\ Settle(d, FALSE)
  BY DEF Reject, Refusing
<1>2. /\ q \in Seq(Write) /\ DOMAIN a = 1..Len(a) /\ Len(q) \in Nat /\ Len(a) \in Nat /\ Len(a) <= Len(q)
      /\ (q = <<>> <=> Len(q) = 0) /\ (a = <<>> <=> Len(a) = 0)
  BY Here, SoundIs
<1>3. q # <<>> /\ a # <<>> /\ Len(q) - 1 \in Nat
  BY <1>1, <1>2
<1>4. Head(q) = q[1] /\ q[1].heard \in BOOLEAN
  <2>1. Head(q) = q[1] /\ q[1] \in Write
    BY ONLY <1>2, <1>3, TailIs
  <2>2. QED
    BY ONLY <2>1 DEF Write
<1>5. refusals # 0
  BY <1>1, <1>2, Here DEF Calm
<1>6. CASE q[1].heard
  BY <1>1, <1>3, <1>5, <1>6, AnsweredStep
<1>7. CASE ~q[1].heard
  <2>1. /\ UNCHANGED <<account, docs, auth, place, profile, crashes, breaks, refusals, errors>>
        /\ queue' = [queue EXCEPT ![d] = Tail(@)]
    BY <1>1, <1>4, <1>7 DEF Settle, faults
  <2>2. to \in Seq(BOOLEAN) /\ Len(to) <= Len(q) - 1
    BY <1>3
  <2> HIDE DEF to
  <2>3. QED
    BY <1>1, <1>3, <1>5, <1>7, <2>1, <2>2, PassStep
<1>8. QED
  BY <1>4, <1>6, <1>7

-----------------------------------------------------------------------------
(* The theorems *)

LEMMA InitHolds == ASSUME Init PROVE IInv
<1>1. docs \in Docs /\ docs["status"] = {} /\ docs["user"] = {} /\ docs["task-user"] = {}
  BY DEF Init, Docs, Doc
<1>2. "login" \in Place /\ "login" \notin Writing /\ "login" \in Resting
  BY DEF Place, Resting, Writing
<1> DEFINE e == <<>>
<1>3. Sound("login", e, e) /\ e \in Seq(Write) /\ e \in Seq(BOOLEAN) /\ Len(e) = 0 /\ DOMAIN e = {}
  BY <1>2, SoundNext
<1>4. \A cr, rf : Calm(e, e, cr, rf)
  BY <1>3 DEF Calm
<1>5. \A au \in BOOLEAN : Held("login", au, {})
  BY DEF Held
<1>6. ~AtWork("login", e)
  BY <1>2 DEF AtWork
<1>7. account = "none" /\ raced = FALSE /\ crashes = 0 /\ breaks = 0 /\ refusals = 0 /\ errors = 0
  BY DEF Init
<1> HIDE DEF e
<1>8. \A d \in Device : place[d] = "login" /\ queue[d] = e /\ answers[d] = e /\ auth[d] = FALSE /\ profile[d] = {}
  BY DEF Init, e
<1>9. TypeOK
  <2>1. /\ place \in [Device -> Place] /\ queue \in [Device -> Seq(Write)]
        /\ answers \in [Device -> Seq(BOOLEAN)] /\ auth \in [Device -> BOOLEAN]
        /\ profile \in [Device -> SUBSET Field]
    BY <1>2, <1>3 DEF Init, e
  <2>2. \A d \in Device :
          /\ Len(answers[d]) <= Len(queue[d]) /\ DOMAIN queue[d] = {}
          /\ place[d] \notin Writing
    BY <1>2, <1>3, <1>8
  <2>3. QED
    BY <1>1, <1>7, <2>1, <2>2 DEF TypeOK
<1>10. \A d \in Device : /\ Begun(docs, place[d], queue[d])
                         /\ InChain(docs, place[d], queue[d], answers[d], auth[d])
                         /\ MailFit(docs, place[d], queue[d], answers[d], profile[d], crashes)
  BY <1>3, <1>6, <1>8, Rests
<1>11. Pristine
  BY <1>8 DEF Init, Pristine, e
<1>12. OneAtWork
  BY <1>6, <1>8 DEF OneAtWork
<1>13. Whole(docs) /\ MailDocs(docs)
  BY <1>1 DEF Whole, MailDocs
<1>14. \A d \in Device : /\ Sound(place[d], queue[d], answers[d])
                         /\ Calm(queue[d], answers[d], crashes, refusals)
                         /\ Held(place[d], auth[d], profile[d])
  BY <1>3, <1>4, <1>5, <1>8
<1>15. QED
  BY <1>1, <1>9, <1>10, <1>11, <1>12, <1>13, <1>14 DEF IInv, Statuses

LEMMA NextKeeps == ASSUME IInv, Next PROVE IInv'
<1> PICK d \in Device : Owner(d) \/ Completes(d) \/ App(d) \/ Server(d) \/ Faults(d)
  BY DEF Next
<1>1. CASE Owner(d)
  BY <1>1, RegisterStep, SignInStep, SignOutStep DEF Owner
<1>2. CASE Completes(d)
  BY <1>2, FormStep DEF Completes
<1>3. CASE App(d)
  BY <1>3, CreatedStep, CheckUserStep, CheckTaskStep, AskStatusStep, AskUserStep, AskTaskStep,
     FormStep, RereadStep DEF App
<1>4. CASE Server(d)
  BY <1>4, CommitStep, AcknowledgeStep, RejectStep DEF Server
<1>5. CASE Faults(d)
  BY <1>5, RefuseStep, BreakStep, CrashStep DEF Faults
<1>6. QED
  BY <1>1, <1>2, <1>3, <1>4, <1>5

LEMMA Stutters == ASSUME IInv, UNCHANGED vars PROVE IInv'
BY DEF vars, device, faults, IInv, TypeOK, Pristine, OneAtWork

LEMMA OnlyCommitWrites ==
  ASSUME NEW d \in Device, Owner(d) \/ Completes(d) \/ App(d) \/ Server(d) \/ Faults(d)
  PROVE  Commit(d) \/ UNCHANGED docs
<1>1. CASE Owner(d)
  BY <1>1 DEF Owner, Register, SignInMail, SignInGoogle, SignOut
<1>2. CASE Completes(d)
  BY <1>2 DEF Completes, FillIn, FillInPicture, Moves
<1>3. CASE App(d)
  BY <1>3 DEF App, Created, CheckUser, CheckTask, StartGoogle, AskStatus, AskUser, AskTask,
     Uploaded, ThumbUploaded, Reread, Moves, Fails
<1>4. CASE Server(d)
  BY <1>4 DEF Server, Acknowledge, Reject, Settle
<1>5. CASE Faults(d)
  BY <1>5 DEF Faults, Refuse, Break, Crash
<1>6. QED
  BY <1>1, <1>2, <1>3, <1>4, <1>5

LEMMA StaysFinished ==
  ASSUME IInv, Next, Finished, errors' = 0, ~raced'
  PROVE  Finished'
<1>1. PICK d \in Device : Owner(d) \/ Completes(d) \/ App(d) \/ Server(d) \/ Faults(d)
  BY DEF Next
<1>2. ~raced
  BY <1>1 DEF Owner, Completes, App, Server, Faults, Race
<1>3. CASE UNCHANGED docs
  BY <1>3 DEF Finished
<1>4. CASE Commit(d)
  <2> DEFINE q == queue[d]
             k == Len(answers[d]) + 1
             w == q[k]
             after == Apply(docs, w)
  <2>1. Len(answers[d]) < Len(q) /\ docs' = after /\ errors = 0
    BY <1>4 DEF Commit, CanAnswer, NextWrite, faults
  <2>2. q \in Seq(Write) /\ Shaped(q) /\ k \in 1..Len(q) /\ w \in Write
    BY <2>1, Here, SoundIs
  <2>3. \/ IsMerge(w) \/ IsStatus(w, "false") \/ IsStatus(w, "true")
        \/ IsDelete(w) \/ (IsUser(w) /\ w.fields # {})
    BY <2>2, ShapedIs DEF IsUser
  <2>4. ~IsStatus(w, "false")
    <3>1. Begun(docs, place[d], q) /\ docs["user"] # {}
      BY <1>2, <2>1, Here DEF Finished
    <3>2. QED
      BY <2>2, <3>1 DEF Begun, Fresh
  <2>5. after["user"] # {} /\ after["status"] = {"true"}
    BY <2>2, <2>3, <2>4, Here, ApplyIs DEF Finished
  <2>6. QED
    BY <2>1, <2>5 DEF Finished
<1>5. QED
  BY <1>1, <1>3, <1>4, OnlyCommitWrites

(* The account is in order in every state: the queues and answers have     *)
(* their shape, and what the chains of the screens rest on holds: the late *)
(* writes are queued one by one, a status "f" only where nobody has        *)
(* finished, and a write without the address only behind one that has it.  *)
THEOREM Invariance == Spec => []IInv
<1>1. Init => IInv
  BY InitHolds
<1>2. IInv /\ [Next]_vars => IInv'
  BY NextKeeps, Stutters
<1>3. QED
  BY <1>1, <1>2, PTL DEF Spec

(* The user document is the last write of CompleteSignUpVC's chain, so where *)
(* there is one status is "t" and task-user is gone, and it has the address  *)
(* that RegisterController or the Google sign-in wrote first; every value    *)
(* and every queue is of its type.                                           *)
THEOREM AccountInOrder == Spec => []AccountInv
<1>1. IInv => AccountInv
  <2> HAVE IInv
  <2>1. TypeOK
    BY DEF IInv
  <2>2. FinishedIsWhole
    BY DEF IInv, Whole, FinishedIsWhole
  <2>3. MailKept
    BY DEF IInv, MailDocs, MailKept
  <2>4. QED
    BY <2>1, <2>2, <2>3 DEF AccountInv
<1>2. QED
  BY <1>1, Invariance, PTL

(* No sign-in, restart or repeated write sends a finished account back to the *)
(* form, unless a query failed, which RegisterController and LoginController  *)
(* take for "no account", or a second device is at work.                      *)
THEOREM FinishedForGood == Spec => FinishedStaysFinished
<1>1. IInv /\ [Next]_vars => [Finished /\ errors' = 0 /\ ~raced' => Finished']_vars
  BY StaysFinished
<1>2. QED
  BY <1>1, Invariance, PTL DEF Spec, FinishedStaysFinished

=============================================================================
