---------------------------- MODULE PiBridgeProofs ----------------------------
(***************************************************************************)
(* NoOrphan and WorkIsAwaited of PiBridge for any number of calls, child   *)
(* processes, restarts and crashes.  A state is the client's record k and  *)
(* the table sv of the child processes; the lemmas are about such pairs,   *)
(* so that one of them serves every turn of the event loop.                *)
(***************************************************************************)
EXTENDS PiBridge, TLAPS

Messages == [id : Nat, cancel : BOOLEAN]

ServerRecords ==
  [life : {"none", "alive", "ending", "killed", "dead"}, ear : BOOLEAN,
   news : {"none", "error", "exit"}, inbox : Seq(Messages), work : SUBSET Nat, outbox : SUBSET Nat]

MaybeProc == {0} \cup Procs

ClientRecords ==
  [proc : MaybeProc, ready : BOOLEAN, stage : {"no", "initialize", "tools/list", "closing"},
   hello : Nat, starters : SUBSET {"session", "timer"}, stopped : BOOLEAN, halted : BOOLEAN,
   closing : [start : MaybeProc, stop : MaybeProc], attempts : Nat, timer : BOOLEAN,
   nextId : Nat, pending : SUBSET Nat]

CallRecords ==
  [pc : {"new", "starting", "started", "waiting", "broken", "mending", "done"},
   id : Nat, aborted : BOOLEAN]

(* The client's own fields agree. *)
Coherent(k) ==
  /\ k.stage = "no" /\ ~k.ready /\ ~k.stopped => k.proc = 0
  /\ k.ready => k.proc # 0 /\ k.stage = "no"
  /\ Greeting(k) => k.proc # 0
  /\ k.hello \in k.pending => Greeting(k)
  /\ k.stage = "closing" <=> k.closing.start # 0
  /\ k.closing.stop # 0 => k.stopped
  /\ k.halted => k.stopped
  /\ k.hello < k.nextId
  /\ \A id \in k.pending : 0 < id /\ id < k.nextId
  /\ k.nextId > 0

(* Only the process that the client has runs or is listened to; one that   *)
(* is being closed is not replaced before that is over.                    *)
Kept(k, sv) ==
  /\ \A p \in Procs : sv[p].life = "alive" => k.proc = p /\ ~k.halted
  /\ \A p \in Procs : sv[p].ear = TRUE => k.proc = p
  /\ \A p \in Procs : sv[p].news # "none" => sv[p].life = "dead"
  /\ \A p \in {k.closing.start, k.closing.stop} \ {0} :
       k.proc \in {0, p} /\ sv[p].life # "alive" /\ sv[p].ear = FALSE

(* s has been asked id: the request is on its way to it, at work, or answered. *)
Asked(s, id) ==
  id \in s.work \/ id \in s.outbox \/ \E i \in DOMAIN s.inbox : s.inbox[i] = Req(id)

(* A process is asked once, and is in one place with it. *)
Once(s) ==
  /\ \A id \in s.work : id \notin s.outbox
  /\ \A i \in DOMAIN s.inbox : s.inbox[i].cancel = FALSE =>
       /\ s.inbox[i].id \notin s.work /\ s.inbox[i].id \notin s.outbox
       /\ \A j \in DOMAIN s.inbox : s.inbox[j] = s.inbox[i] => i = j

(* Requests have numbers below n, each for one process. *)
Numbered(n, sv) ==
  \A p \in Procs :
    /\ Once(sv[p])
    /\ \A id : Asked(sv[p], id) => id < n /\ \A q \in Procs \ {p} : ~Asked(sv[q], id)

(* What WorkIsAwaited says of one process. *)
Awaited(s, pending) ==
  /\ \A id \in s.work \ pending : \E i \in DOMAIN s.inbox : s.inbox[i] = Cancel(id)
  /\ \A i \in DOMAIN s.inbox : s.inbox[i].cancel = FALSE /\ s.inbox[i].id \notin pending =>
       \E j \in DOMAIN s.inbox : j > i /\ s.inbox[j] = Cancel(s.inbox[i].id)

AllAwaited(pending, sv) == \A p \in Procs : sv[p].life = "alive" => Awaited(sv[p], pending)

PiOK(k, sv) ==
  /\ k \in ClientRecords /\ sv \in [Procs -> ServerRecords]
  /\ Coherent(k) /\ Kept(k, sv) /\ Numbered(k.nextId, sv) /\ AllAwaited(k.pending, sv)

PiInv == PiOK(client, server) /\ piCall \in [PiCalls -> CallRecords]

-----------------------------------------------------------------------------
(* One process. *)

LEMMA MessageTypes ==
  ASSUME NEW id \in Nat
  PROVE  /\ Req(id) \in Messages /\ Req(id).id = id /\ Req(id).cancel = FALSE
         /\ Cancel(id) \in Messages /\ Cancel(id).id = id /\ Cancel(id).cancel = TRUE
  BY DEF Req, Cancel, Messages

(* A message that is a request is the request of its number. *)
LEMMA RequestsAreReq ==
  ASSUME NEW m \in Messages, m.cancel = FALSE
  PROVE  m = Req(m.id)
  BY DEF Messages, Req

LEMMA AppendFacts ==
  ASSUME NEW b \in Seq(Messages), NEW m \in Messages
  PROVE  /\ Append(b, m) \in Seq(Messages)
         /\ DOMAIN Append(b, m) = DOMAIN b \cup {Len(b) + 1}
         /\ Append(b, m)[Len(b) + 1] = m
         /\ \A i \in DOMAIN b : Append(b, m)[i] = b[i] /\ i < Len(b) + 1 /\ i \in Int
         /\ Len(b) \in Nat
  OBVIOUS

LEMMA TailFacts ==
  ASSUME NEW b \in Seq(Messages), b # <<>>
  PROVE  /\ Tail(b) \in Seq(Messages) /\ Head(b) = b[1] /\ 1 \in DOMAIN b /\ Head(b) \in Messages
         /\ \A i \in DOMAIN Tail(b) : i \in Int /\ i >= 1 /\ i + 1 \in DOMAIN b /\ Tail(b)[i] = b[i + 1]
         /\ \A i \in DOMAIN b : i \in Int /\ i >= 1 /\ (i # 1 => i - 1 \in DOMAIN Tail(b) /\ Tail(b)[i - 1] = b[i] /\ i > 1)
  OBVIOUS

(* A new request. *)
LEMMA SendsRequest ==
  ASSUME NEW s \in ServerRecords, Once(s), NEW id \in Nat, ~Asked(s, id),
         NEW t, t.inbox = Append(s.inbox, Req(id)), t.work = s.work, t.outbox = s.outbox
  PROVE  /\ Once(t)
         /\ \A x : Asked(t, x) => Asked(s, x) \/ x = id
         /\ \A P : id \in P /\ Awaited(s, P) => Awaited(t, P)
<1> DEFINE b == s.inbox
<1>1. /\ b \in Seq(Messages) /\ Req(id) \in Messages /\ Req(id).id = id /\ Req(id).cancel = FALSE
      /\ s.work \in SUBSET Nat
  BY MessageTypes DEF ServerRecords
<1>2. t.inbox = Append(b, Req(id)) /\ t.work = s.work /\ t.outbox = s.outbox
  OBVIOUS
<1>3. /\ DOMAIN t.inbox = DOMAIN b \cup {Len(b) + 1} /\ t.inbox[Len(b) + 1] = Req(id)
      /\ \A i \in DOMAIN b : t.inbox[i] = b[i] /\ i < Len(b) + 1 /\ i \in Int
      /\ Len(b) \in Nat
  BY <1>1, <1>2, AppendFacts
<1>4. \A i \in DOMAIN b : b[i] # Req(id)
  BY DEF Asked
<1>5. id \notin s.work /\ id \notin s.outbox
  BY DEF Asked
<1> HIDE DEF b
<1>6. Once(t)
  BY <1>1, <1>2, <1>3, <1>4, <1>5 DEF Once, b
<1>7. \A x : Asked(t, x) => Asked(s, x) \/ x = id
  <2> SUFFICES ASSUME NEW x, Asked(t, x), ~Asked(s, x) PROVE x = id
    OBVIOUS
  <2>1. Req(x).id = x
    BY DEF Req
  <2> QED BY <1>1, <1>2, <1>3, <2>1 DEF Asked, b
<1>8. ASSUME NEW P, id \in P, Awaited(s, P) PROVE Awaited(t, P)
  <2>1. \A x \in t.work \ P : \E i \in DOMAIN t.inbox : t.inbox[i] = Cancel(x)
    BY <1>2, <1>3, <1>8 DEF Awaited, b
  <2>2. ASSUME NEW i \in DOMAIN t.inbox, t.inbox[i].cancel = FALSE, t.inbox[i].id \notin P
        PROVE  \E j \in DOMAIN t.inbox : j > i /\ t.inbox[j] = Cancel(t.inbox[i].id)
    BY <1>1, <1>3, <1>8, <2>2 DEF Awaited, b
  <2> QED BY <2>1, <2>2 DEF Awaited
<1> QED BY <1>6, <1>7, <1>8

(* A cancel behind everything that was sent before. *)
LEMMA SendsCancel ==
  ASSUME NEW s \in ServerRecords, Once(s), NEW id \in Nat,
         NEW t, t.inbox = Append(s.inbox, Cancel(id)), t.work = s.work, t.outbox = s.outbox
  PROVE  /\ Once(t)
         /\ \A x : Asked(t, x) => Asked(s, x)
         /\ \A P : Awaited(s, P) => Awaited(t, P \ {id})
<1> DEFINE b == s.inbox
<1>1. /\ b \in Seq(Messages) /\ Cancel(id) \in Messages /\ Cancel(id).id = id /\ Cancel(id).cancel = TRUE
      /\ s.work \in SUBSET Nat
  BY MessageTypes DEF ServerRecords
<1>2. t.inbox = Append(b, Cancel(id)) /\ t.work = s.work /\ t.outbox = s.outbox
  OBVIOUS
<1>3. /\ DOMAIN t.inbox = DOMAIN b \cup {Len(b) + 1} /\ t.inbox[Len(b) + 1] = Cancel(id)
      /\ \A i \in DOMAIN b : t.inbox[i] = b[i] /\ i < Len(b) + 1 /\ i \in Int
      /\ Len(b) \in Nat
  BY <1>1, <1>2, AppendFacts
<1> HIDE DEF b
<1>6. Once(t)
  BY <1>1, <1>2, <1>3 DEF Once, b
<1>7. \A x : Asked(t, x) => Asked(s, x)
  <2> SUFFICES ASSUME NEW x, Asked(t, x), ~Asked(s, x) PROVE FALSE
    OBVIOUS
  <2>1. Req(x).cancel = FALSE
    BY DEF Req
  <2> QED BY <1>1, <1>2, <1>3, <2>1 DEF Asked, b
<1>8. ASSUME NEW P, Awaited(s, P) PROVE Awaited(t, P \ {id})
  <2>1. \A x \in t.work \ (P \ {id}) : \E i \in DOMAIN t.inbox : t.inbox[i] = Cancel(x)
    BY <1>2, <1>3, <1>8 DEF Awaited, b
  <2>2. ASSUME NEW i \in DOMAIN t.inbox, t.inbox[i].cancel = FALSE, t.inbox[i].id \notin P \ {id}
        PROVE  \E j \in DOMAIN t.inbox : j > i /\ t.inbox[j] = Cancel(t.inbox[i].id)
    BY <1>1, <1>3, <1>8, <2>2 DEF Awaited, b
  <2> QED BY <2>1, <2>2 DEF Awaited
<1> QED BY <1>6, <1>7, <1>8

(* The server takes a message off its pipe. *)
Taken(s, m, t) ==
  /\ s.inbox # <<>> /\ m = Head(s.inbox) /\ t.inbox = Tail(s.inbox) /\ t.outbox = s.outbox
  /\ m.cancel = TRUE => t.work = s.work \ {m.id}
  /\ m.cancel = FALSE => t.work = s.work \cup {m.id}

LEMMA TakesMessage ==
  ASSUME NEW s \in ServerRecords, Once(s), NEW m, NEW t, Taken(s, m, t)
  PROVE  /\ Once(t)
         /\ \A x : Asked(t, x) => Asked(s, x)
         /\ \A P : Awaited(s, P) => Awaited(t, P)
<1> DEFINE b == s.inbox
<1>1. /\ b \in Seq(Messages) /\ b # <<>> /\ m \in Messages /\ m = b[1] /\ 1 \in DOMAIN b
      /\ s.work \in SUBSET Nat /\ s.outbox \in SUBSET Nat
      /\ m.id \in Nat /\ m.cancel \in BOOLEAN
  BY TailFacts DEF ServerRecords, Messages, Taken
<1>2. /\ t.inbox = Tail(b) /\ t.outbox = s.outbox
      /\ m.cancel = TRUE => t.work = s.work \ {m.id}
      /\ m.cancel = FALSE => t.work = s.work \cup {m.id}
  BY DEF Taken
<1>3. /\ \A i \in DOMAIN t.inbox : i \in Int /\ i >= 1 /\ i + 1 \in DOMAIN b /\ t.inbox[i] = b[i + 1]
      /\ \A i \in DOMAIN b : i \in Int /\ i >= 1 /\ (i # 1 => i - 1 \in DOMAIN t.inbox /\ t.inbox[i - 1] = b[i] /\ i > 1)
  BY <1>1, <1>2, TailFacts
<1>4. \A i \in DOMAIN b : b[i] \in Messages
  BY <1>1
<1> HIDE DEF b
<1>5. ASSUME NEW i \in DOMAIN t.inbox, t.inbox[i].cancel = FALSE
      PROVE  /\ i + 1 \in DOMAIN b /\ b[i + 1] = t.inbox[i] /\ i \in Int
             /\ t.inbox[i].id \notin s.work /\ t.inbox[i].id \notin s.outbox
             /\ m.cancel = FALSE => t.inbox[i].id # m.id
             /\ \A j \in DOMAIN t.inbox : t.inbox[j] = t.inbox[i] => i = j
  <2>a. i + 1 \in DOMAIN b /\ b[i + 1] = t.inbox[i] /\ i \in Int /\ i >= 1
    BY <1>3
  <2>1. i + 1 \in DOMAIN b /\ b[i + 1] = t.inbox[i] /\ i \in Int /\ i + 1 # 1
    BY <2>a
  <2>2. /\ t.inbox[i].id \notin s.work /\ t.inbox[i].id \notin s.outbox
        /\ \A j \in DOMAIN b : b[j] = b[i + 1] => i + 1 = j
    BY <1>5, <2>1 DEF Once, b
  <2>3. m.cancel = FALSE => t.inbox[i].id # m.id
    BY <1>1, <1>4, <1>5, <2>1, <2>2, RequestsAreReq
  <2>4. \A j \in DOMAIN t.inbox : t.inbox[j] = t.inbox[i] => i = j
    BY <1>3, <2>1, <2>2
  <2> QED BY <2>1, <2>2, <2>3, <2>4
<1>6. m.cancel = FALSE => m.id \notin s.outbox
  BY <1>1 DEF Once, b
<1>7. Once(t)
  BY <1>1, <1>2, <1>5, <1>6 DEF Once
<1>8. \A x : Asked(t, x) => Asked(s, x)
  <2>1. m.cancel = FALSE => Asked(s, m.id)
    BY <1>1, RequestsAreReq DEF Asked, b
  <2>2. \A x : (\E i \in DOMAIN t.inbox : t.inbox[i] = Req(x)) => Asked(s, x)
    BY <1>3 DEF Asked, b
  <2> QED BY <1>1, <1>2, <2>1, <2>2 DEF Asked
<1>9. ASSUME NEW P, Awaited(s, P) PROVE Awaited(t, P)
  <2>1. ASSUME NEW x \in t.work \ P PROVE \E i \in DOMAIN t.inbox : t.inbox[i] = Cancel(x)
    <3>1. PICK i \in DOMAIN b : b[i] = Cancel(x) /\ i # 1
      <4>1. CASE m.cancel = FALSE /\ x = m.id
        <5>1. PICK j \in DOMAIN b : j > 1 /\ b[j] = Cancel(x)
          BY <1>1, <1>9, <2>1, <4>1 DEF Awaited, b
        <5> QED BY <5>1
      <4>2. CASE x \in s.work /\ (m.cancel = TRUE => x # m.id)
        <5>1. PICK i \in DOMAIN b : b[i] = Cancel(x)
          BY <1>9, <2>1, <4>2 DEF Awaited, b
        <5>2. Cancel(x).id = x /\ Cancel(x).cancel = TRUE
          BY DEF Cancel
        <5> QED BY <1>1, <4>2, <5>1, <5>2
      <4> QED BY <1>1, <1>2, <2>1, <4>1, <4>2
    <3> QED BY <1>3, <3>1
  <2>2. ASSUME NEW i \in DOMAIN t.inbox, t.inbox[i].cancel = FALSE, t.inbox[i].id \notin P
        PROVE  \E j \in DOMAIN t.inbox : j > i /\ t.inbox[j] = Cancel(t.inbox[i].id)
    <3>1. PICK j \in DOMAIN b : j > i + 1 /\ b[j] = Cancel(t.inbox[i].id)
      BY <1>3, <1>9, <2>2 DEF Awaited, b
    <3>a. i \in Int /\ i + 1 \in DOMAIN b
      BY <1>5, <2>2
    <3>2. i \in Int /\ j \in Int /\ i + 1 >= 1
      BY <1>3, <3>a
    <3>3. j # 1
      BY <3>1, <3>2
    <3>4. j - 1 \in DOMAIN t.inbox /\ t.inbox[j - 1] = b[j]
      BY <1>3, <3>3
    <3> QED BY <3>1, <3>2, <3>4
  <2> QED BY <2>1, <2>2 DEF Awaited
<1> QED BY <1>7, <1>8, <1>9

(* The server answers. *)
LEMMA AnswersRequest ==
  ASSUME NEW s, Once(s), NEW id \in s.work, NEW t, t.inbox = s.inbox, t.work = s.work \ {id},
         t.outbox = s.outbox \cup {id}
  PROVE  /\ Once(t)
         /\ \A x : Asked(t, x) => Asked(s, x)
         /\ \A P : Awaited(s, P) => Awaited(t, P)
<1>2. Once(t) /\ \A x : Asked(t, x) => Asked(s, x)
  BY DEF Once, Asked
<1>3. \A P : Awaited(s, P) => Awaited(t, P)
  BY DEF Awaited
<1> QED BY <1>2, <1>3

(* What a process loses never harms. *)
LEMMA LosesMessages ==
  ASSUME NEW s, NEW t, Once(s), t.work \subseteq s.work, t.outbox \subseteq s.outbox,
         t.inbox = s.inbox \/ t.inbox = <<>>
  PROVE  Once(t) /\ \A x : Asked(t, x) => Asked(s, x)
<1>1. DOMAIN <<>> = {}
  OBVIOUS
<1> QED BY <1>1 DEF Once, Asked

-----------------------------------------------------------------------------
(* All processes. *)

(* From sv to tv the processes are asked for nothing new, or one of them   *)
(* for n.                                                                  *)
Grows(n, n2, sv, tv) ==
  /\ \A o \in Procs : Once(tv[o])
  /\ \E p \in Procs : \A o \in Procs : \A x :
       Asked(tv[o], x) => Asked(sv[o], x) \/ (o = p /\ x = n /\ n < n2)

(* No process is asked for what another one has been asked for. *)
LEMMA NumbersKept ==
  ASSUME NEW n \in Nat, NEW n2 \in Nat, n <= n2, NEW sv, NEW tv,
         sv \in [Procs -> ServerRecords], Numbered(n, sv), Grows(n, n2, sv, tv)
  PROVE  Numbered(n2, tv)
<1>1. PICK p \in Procs : \A o \in Procs : \A x :
        Asked(tv[o], x) => Asked(sv[o], x) \/ (o = p /\ x = n /\ n < n2)
  BY DEF Grows
<1>2. \A q \in Procs : \A x : Asked(sv[q], x) => x \in Nat
  BY DEF Asked, ServerRecords, Messages, Req
<1>3. \A q \in Procs : ~Asked(sv[q], n)
  BY DEF Numbered
<1>5. ASSUME NEW q \in Procs, NEW x, Asked(tv[q], x) PROVE x < n2
  BY <1>1, <1>2, <1>5 DEF Numbered
<1>6. ASSUME NEW q \in Procs, NEW x, Asked(tv[q], x), NEW o \in Procs \ {q} PROVE ~Asked(tv[o], x)
  BY <1>1, <1>3, <1>6 DEF Numbered
<1> QED BY <1>5, <1>6 DEF Numbered, Grows

(* The processes live alike in sv and tv. *)
Alike(sv, tv) ==
  \A o \in Procs : tv[o].life = sv[o].life /\ tv[o].ear = sv[o].ear /\ tv[o].news = sv[o].news

LEMMA KeptAlike ==
  ASSUME NEW k, NEW q, NEW sv, NEW tv, k \in ClientRecords, Kept(k, sv), Alike(sv, tv),
         q.proc = k.proc, q.halted = k.halted, q.closing = k.closing
  PROVE  Kept(q, tv)
<1>1. k.closing.start \in MaybeProc /\ k.closing.stop \in MaybeProc
  BY DEF ClientRecords
<1> QED BY <1>1 DEF Kept, MaybeProc, Alike

(* What Sent does beside the pipe. *)
LEMMA SentAlike ==
  ASSUME NEW s \in ServerRecords, NEW m \in Messages
  PROVE  /\ Sent(s, m) \in ServerRecords
         /\ Sent(s, m).life = s.life /\ Sent(s, m).ear = s.ear /\ Sent(s, m).news = s.news
         /\ s.life # "alive" => Sent(s, m) = s
         /\ s.life = "alive" => /\ Sent(s, m).inbox = Append(s.inbox, m)
                               /\ Sent(s, m).work = s.work /\ Sent(s, m).outbox = s.outbox
  BY AppendFacts DEF Sent, ServerRecords

(* The client asks its process for something new. *)
LEMMA RequestKeeps ==
  ASSUME 0 \notin Procs, NEW k, NEW sv, PiOK(k, sv), k.proc # 0,
         NEW q \in ClientRecords, Coherent(q), q.proc = k.proc, q.halted = k.halted, q.closing = k.closing,
         q.nextId = k.nextId + 1, q.pending = k.pending \cup {k.nextId}
  PROVE  PiOK(q, [sv EXCEPT ![k.proc] = Sent(@, Req(k.nextId))])
<1> DEFINE p == k.proc
           n == k.nextId
           t == Sent(sv[p], Req(n))
           tv == [sv EXCEPT ![p] = Sent(@, Req(n))]
<1>1. /\ p \in Procs /\ n \in Nat /\ sv \in [Procs -> ServerRecords] /\ sv[p] \in ServerRecords
      /\ Once(sv[p]) /\ Numbered(n, sv) /\ Kept(k, sv) /\ k \in ClientRecords
      /\ AllAwaited(k.pending, sv)
  BY DEF PiOK, ClientRecords, MaybeProc, Numbered
<1>2. ~Asked(sv[p], n)
  BY <1>1 DEF Numbered
<1>3. Req(n) \in Messages
  BY <1>1, MessageTypes
<1>4. /\ t \in ServerRecords /\ Once(t) /\ \A x : Asked(t, x) => Asked(sv[p], x) \/ x = n
      /\ t.life = sv[p].life /\ t.ear = sv[p].ear /\ t.news = sv[p].news
  <2>1. CASE sv[p].life = "alive"
    BY <1>1, <1>2, <1>3, <2>1, SentAlike, SendsRequest
  <2>2. CASE sv[p].life # "alive"
    BY <1>1, <1>3, <2>2, SentAlike
  <2> QED BY <2>1, <2>2
<1>5. sv[p].life = "alive" => \A P : n \in P /\ Awaited(sv[p], P) => Awaited(t, P)
  BY <1>1, <1>2, <1>3, SentAlike, SendsRequest
<1> HIDE DEF p, n, t
<1>6. tv = [sv EXCEPT ![p] = t] /\ tv \in [Procs -> ServerRecords] /\ tv[p] = t /\ \A o \in Procs \ {p} : tv[o] = sv[o]
  BY <1>1, <1>4 DEF t
<1> HIDE DEF tv
<1>7. Numbered(n + 1, tv)
  <2>1. n + 1 \in Nat /\ n <= n + 1 /\ n < n + 1
    BY <1>1
  <2>2. \A o \in Procs : Once(tv[o])
    BY <1>1, <1>4, <1>6 DEF Numbered
  <2>3. \A o \in Procs : \A x : Asked(tv[o], x) => Asked(sv[o], x) \/ (o = p /\ x = n /\ n < n + 1)
    BY <1>4, <1>6, <2>1
  <2>4. Grows(n, n + 1, sv, tv)
    BY <1>1, <2>2, <2>3 DEF Grows
  <2> QED BY <1>1, <2>1, <2>4, NumbersKept
<1>8. Kept(q, tv)
  <2>1. Alike(sv, tv)
    BY <1>4, <1>6 DEF Alike
  <2> QED BY <1>1, <2>1, KeptAlike
<1>9. AllAwaited(q.pending, tv)
  <2>1. \A o \in Procs : sv[o].life = "alive" => Awaited(sv[o], q.pending)
    BY <1>1 DEF AllAwaited, Awaited, n
  <2>2. n \in q.pending
    BY DEF n
  <2> QED BY <1>4, <1>5, <1>6, <2>1, <2>2 DEF AllAwaited
<1> QED BY <1>6, <1>7, <1>8, <1>9 DEF PiOK, tv, p, n

(* A cancel goes out, if it still can. *)
LEMMA CancelFacts ==
  ASSUME NEW s \in ServerRecords, Once(s), NEW id \in Nat
  PROVE  LET t == Sent(s, Cancel(id))
         IN  /\ t \in ServerRecords /\ Once(t) /\ \A x : Asked(t, x) => Asked(s, x)
             /\ t.life = s.life /\ t.ear = s.ear /\ t.news = s.news
             /\ s.life = "alive" => \A P : Awaited(s, P) => Awaited(t, P \ {id})
<1>1. Cancel(id) \in Messages
  BY MessageTypes
<1>2. CASE s.life = "alive"
  BY <1>1, <1>2, SentAlike, SendsCancel
<1>3. CASE s.life # "alive"
  BY <1>1, <1>3, SentAlike
<1> QED BY <1>2, <1>3

(* The client gives a request up, and cancels it. *)
LEMMA GivenUpKeeps ==
  ASSUME 0 \notin Procs, NEW k, NEW sv, PiOK(k, sv), NEW id \in Nat,
         NEW q \in ClientRecords, Coherent(q), q.proc = k.proc, q.halted = k.halted, q.closing = k.closing,
         q.nextId = k.nextId, q.pending = k.pending \ {id},
         NEW tv, tv = [sv EXCEPT ![k.proc] = Sent(@, Cancel(id))]
  PROVE  PiOK(q, tv)
<1> DEFINE p == k.proc
           t == Sent(sv[p], Cancel(id))
<1>1. /\ k.nextId \in Nat /\ sv \in [Procs -> ServerRecords] /\ Numbered(k.nextId, sv)
      /\ Kept(k, sv) /\ k \in ClientRecords /\ AllAwaited(k.pending, sv) /\ p \in MaybeProc
  BY DEF PiOK, ClientRecords
<1>2. CASE p = 0
  <2>1. tv = sv /\ \A o \in Procs : sv[o].life # "alive"
    BY <1>1, <1>2 DEF Kept
  <2>2. AllAwaited(q.pending, sv)
    BY <2>1 DEF AllAwaited
  <2>3. Kept(q, sv)
    <3>1. Alike(sv, sv)
      BY DEF Alike
    <3> QED BY <1>1, <3>1, KeptAlike
  <2> QED BY <1>1, <2>1, <2>2, <2>3 DEF PiOK
<1>3. CASE p \in Procs
  <2>1. sv[p] \in ServerRecords /\ Once(sv[p]) /\ Cancel(id) \in Messages
    BY <1>1, <1>3, MessageTypes DEF Numbered
  <2>2. /\ t \in ServerRecords /\ Once(t) /\ \A x : Asked(t, x) => Asked(sv[p], x)
        /\ t.life = sv[p].life /\ t.ear = sv[p].ear /\ t.news = sv[p].news
        /\ sv[p].life = "alive" => \A P : Awaited(sv[p], P) => Awaited(t, P \ {id})
    BY <2>1, CancelFacts
  <2> HIDE DEF t, p
  <2>4. tv = [sv EXCEPT ![p] = t] /\ tv \in [Procs -> ServerRecords] /\ tv[p] = t /\ \A o \in Procs \ {p} : tv[o] = sv[o]
    BY <1>1, <1>3, <2>2 DEF t, p
  <2>5. Numbered(k.nextId, tv)
    <3>1. \A o \in Procs : Once(tv[o]) /\ \A x : Asked(tv[o], x) => Asked(sv[o], x)
      BY <1>1, <2>2, <2>4 DEF Numbered
    <3>2. k.nextId <= k.nextId
      BY <1>1
    <3>3. Grows(k.nextId, k.nextId, sv, tv)
      BY <1>3, <3>1 DEF Grows
    <3> QED BY <1>1, <3>2, <3>3, NumbersKept
  <2>6. Kept(q, tv)
    <3>1. Alike(sv, tv)
      BY <2>2, <2>4 DEF Alike
    <3> QED BY <1>1, <3>1, KeptAlike
  <2>7. \A o \in Procs \ {p} : tv[o].life # "alive"
    BY <1>1, <2>4 DEF Kept, p
  <2>8. AllAwaited(q.pending, tv)
    BY <1>1, <1>3, <2>2, <2>4, <2>7 DEF AllAwaited
  <2> QED BY <2>4, <2>5, <2>6, <2>8 DEF PiOK
<1> QED BY <1>1, <1>2, <1>3 DEF MaybeProc

(* An answer arrives: nobody works on that request any more.               *)
LEMMA AnsweredKeeps ==
  ASSUME 0 \notin Procs, NEW k, NEW sv, PiOK(k, sv), NEW p \in Procs, NEW id \in sv[p].outbox,
         NEW q \in ClientRecords, Coherent(q), q.proc = k.proc, q.halted = k.halted, q.closing = k.closing,
         q.nextId = k.nextId, q.pending = k.pending \ {id}
  PROVE  PiOK(q, [sv EXCEPT ![p].outbox = @ \ {id}])
<1> DEFINE t == [sv[p] EXCEPT !.outbox = @ \ {id}]
           tv == [sv EXCEPT ![p].outbox = @ \ {id}]
<1>1. /\ k.nextId \in Nat /\ sv \in [Procs -> ServerRecords] /\ Numbered(k.nextId, sv)
      /\ Kept(k, sv) /\ k \in ClientRecords /\ AllAwaited(k.pending, sv)
  BY DEF PiOK, ClientRecords
<1>2. /\ t \in ServerRecords /\ t.life = sv[p].life /\ t.ear = sv[p].ear /\ t.news = sv[p].news
      /\ t.work = sv[p].work /\ t.inbox = sv[p].inbox /\ t.outbox \subseteq sv[p].outbox
  BY <1>1 DEF ServerRecords
<1> HIDE DEF t
<1>3. Once(t) /\ \A x : Asked(t, x) => Asked(sv[p], x)
  BY <1>1, <1>2, LosesMessages DEF Numbered
<1>4. tv = [sv EXCEPT ![p] = t] /\ tv \in [Procs -> ServerRecords] /\ tv[p] = t /\ \A o \in Procs \ {p} : tv[o] = sv[o]
  BY <1>1, <1>2 DEF t
<1> HIDE DEF tv
<1>5. Numbered(k.nextId, tv)
  <2>1. \A o \in Procs : Once(tv[o]) /\ \A x : Asked(tv[o], x) => Asked(sv[o], x)
    BY <1>1, <1>3, <1>4 DEF Numbered
  <2>2. k.nextId <= k.nextId
    BY <1>1
  <2>3. Grows(k.nextId, k.nextId, sv, tv)
    BY <2>1 DEF Grows
  <2> QED BY <1>1, <2>2, <2>3, NumbersKept
<1>6. Kept(q, tv)
  <2>1. Alike(sv, tv)
    BY <1>2, <1>4 DEF Alike
  <2> QED BY <1>1, <2>1, KeptAlike
<1>7. AllAwaited(q.pending, tv)
  <2>1. ASSUME NEW o \in Procs
        PROVE  /\ id \notin tv[o].work /\ tv[o].inbox = sv[o].inbox /\ tv[o].work = sv[o].work
               /\ \A i \in DOMAIN tv[o].inbox : tv[o].inbox[i].cancel = FALSE => tv[o].inbox[i].id # id
    <3>1. tv[o].inbox = sv[o].inbox /\ tv[o].work = sv[o].work /\ sv[o].inbox \in Seq(Messages)
      BY <1>1, <1>2, <1>4 DEF ServerRecords
    <3>2. Asked(sv[p], id)
      BY DEF Asked
    <3>3. CASE o = p
      BY <1>1, <3>1, <3>3 DEF Numbered, Once
    <3>4. CASE o # p
      <4>1. ~Asked(sv[o], id)
        BY <1>1, <3>2, <3>4 DEF Numbered
      <4>2. \A i \in DOMAIN sv[o].inbox : sv[o].inbox[i] \in Messages
        BY <3>1
      <4> QED BY <3>1, <4>1, <4>2, RequestsAreReq DEF Asked
    <3> QED BY <3>3, <3>4
  <2>2. ASSUME NEW o \in Procs, Awaited(sv[o], k.pending) PROVE Awaited(tv[o], q.pending)
    BY <2>1, <2>2 DEF Awaited
  <2> QED BY <1>1, <1>2, <1>4, <2>2 DEF AllAwaited
<1> QED BY <1>4, <1>5, <1>6, <1>7 DEF PiOK, tv

(* doStart makes a process and greets it; it may have failed to be made. *)
LEMMA SpawnKeeps ==
  ASSUME 0 \notin Procs, NEW k, NEW sv, PiOK(k, sv), k.proc = 0, ~k.stopped, k.stage = "no",
         NEW q \in ClientRecords, Coherent(q), NEW p \in Procs, q.proc = p, q.halted = k.halted,
         q.closing = k.closing, q.nextId = k.nextId + 1, q.pending = k.pending \cup {k.nextId},
         NEW t \in ServerRecords, t.work = {}, t.outbox = {}, t.inbox \in {<<>>, <<Req(k.nextId)>>},
         t.news # "none" => t.life = "dead",
         NEW tv, tv = [sv EXCEPT ![p] = t]
  PROVE  PiOK(q, tv)
<1> DEFINE n == k.nextId
<1>1. /\ n \in Nat /\ n + 1 \in Nat /\ n <= n + 1 /\ n < n + 1
      /\ sv \in [Procs -> ServerRecords] /\ Numbered(n, sv) /\ Kept(k, sv) /\ Coherent(k)
      /\ k \in ClientRecords
  BY DEF PiOK, ClientRecords
<1> HIDE DEF n
<1>2. tv \in [Procs -> ServerRecords] /\ tv[p] = t /\ \A o \in Procs \ {p} : tv[o] = sv[o]
  BY <1>1
<1>3. Once(t) /\ \A x : Asked(t, x) => x = n
  <2>1. \A x : Req(x).id = x /\ Req(x).cancel = FALSE
    BY DEF Req
  <2>2. DOMAIN t.inbox \in {{}, {1}} /\ \A i \in DOMAIN t.inbox : i = 1 /\ t.inbox[i] = Req(n)
    BY DEF n
  <2>3. \A x : Asked(t, x) => x = n
    BY <2>1, <2>2 DEF Asked
  <2> QED BY <2>2, <2>3 DEF Once
<1>4. Numbered(n + 1, tv)
  <2>1. Grows(n, n + 1, sv, tv)
    BY <1>1, <1>2, <1>3 DEF Grows, Numbered
  <2> QED BY <1>1, <2>1, NumbersKept
<1>5. \A o \in Procs : sv[o].life # "alive" /\ sv[o].ear = FALSE
  BY <1>1 DEF Kept, ServerRecords
<1>6. k.closing.start = 0 /\ k.closing.stop = 0 /\ k.halted = FALSE
  BY <1>1 DEF Coherent, ClientRecords, MaybeProc
<1>7. Kept(q, tv)
  BY <1>1, <1>2, <1>5, <1>6 DEF Kept
<1>8. AllAwaited(q.pending, tv)
  <2>1. n \in q.pending /\ Req(n).id = n
    BY DEF n, Req
  <2>2. \A i \in DOMAIN t.inbox : t.inbox[i] = Req(n)
    BY DEF n
  <2>3. Awaited(t, q.pending)
    BY <2>1, <2>2 DEF Awaited
  <2> QED BY <1>2, <1>5, <2>3 DEF AllAwaited
<1> QED BY <1>1, <1>2, <1>4, <1>7, <1>8 DEF PiOK, n

(* Processes only lose what they had, and none is left that runs. *)
Quiet(q, sv, tv) ==
  /\ \A o \in Procs :
       /\ tv[o].life # "alive" /\ (tv[o].ear = TRUE => q.proc = o)
       /\ tv[o].news # "none" => tv[o].life = "dead"
       /\ tv[o].work \subseteq sv[o].work /\ tv[o].outbox \subseteq sv[o].outbox
       /\ tv[o].inbox = sv[o].inbox \/ tv[o].inbox = <<>>
  /\ \A o \in {q.closing.start, q.closing.stop} \ {0} : q.proc \in {0, o} /\ tv[o].ear = FALSE

LEMMA QuietKeeps ==
  ASSUME 0 \notin Procs, NEW k, NEW sv, PiOK(k, sv),
         NEW q \in ClientRecords, Coherent(q), q.nextId = k.nextId,
         NEW tv \in [Procs -> ServerRecords],
         Quiet(q, sv, tv)
  PROVE  PiOK(q, tv)
<1>1. /\ k.nextId \in Nat /\ k.nextId <= k.nextId
      /\ sv \in [Procs -> ServerRecords] /\ Numbered(k.nextId, sv)
      /\ q.closing.start \in MaybeProc /\ q.closing.stop \in MaybeProc
  BY DEF PiOK, ClientRecords
<1>2. ASSUME NEW o \in Procs PROVE Once(tv[o]) /\ \A x : Asked(tv[o], x) => Asked(sv[o], x)
  <2>1. Once(sv[o])
    BY <1>1 DEF Numbered
  <2> QED BY <2>1, LosesMessages DEF Quiet
<1>3. Numbered(k.nextId, tv)
  <2>1. CASE Procs = {}
    BY <2>1 DEF Numbered
  <2>2. CASE Procs # {}
    <3>1. Grows(k.nextId, k.nextId, sv, tv)
      BY <1>2, <2>2 DEF Grows
    <3> QED BY <1>1, <3>1, NumbersKept
  <2> QED BY <2>1, <2>2
<1>4. Kept(q, tv)
  BY <1>1 DEF Kept, MaybeProc, Quiet
<1>5. AllAwaited(q.pending, tv)
  BY DEF AllAwaited, Quiet
<1> QED BY <1>3, <1>4, <1>5 DEF PiOK

(* disposeProc. *)
LEMMA DisposedFields ==
  ASSUME NEW s \in ServerRecords
  PROVE  LET t == Disposed(s)
         IN  /\ t \in ServerRecords /\ t.ear = FALSE /\ t.news = "none" /\ t.inbox = <<>> /\ t.outbox = {}
             /\ t.work = s.work /\ t.life # "alive"
<1> <<>> \in Seq(Messages) /\ {} \in SUBSET Nat
  OBVIOUS
<1>1. CASE s.life = "alive"
  BY <1>1 DEF Disposed, ServerRecords
<1>2. CASE s.life # "alive"
  BY <1>2 DEF Disposed, ServerRecords
<1> QED BY <1>1, <1>2

LEMMA DisposedKeeps ==
  ASSUME 0 \notin Procs, NEW k, NEW sv, PiOK(k, sv), k.proc # 0,
         NEW q \in ClientRecords, Coherent(q), q.proc = k.proc, q.nextId = k.nextId,
         q.closing.start \in {k.closing.start, k.proc}, q.closing.stop \in {k.closing.stop, k.proc},
         NEW tv, tv = [sv EXCEPT ![k.proc] = Disposed(@)]
  PROVE  PiOK(q, tv)
<1> DEFINE p == k.proc
           t == Disposed(sv[p])
<1>1. /\ p \in Procs /\ sv \in [Procs -> ServerRecords] /\ sv[p] \in ServerRecords /\ Kept(k, sv)
      /\ k.closing.start \in MaybeProc /\ k.closing.stop \in MaybeProc
  BY DEF PiOK, ClientRecords, MaybeProc
<1>2. /\ t \in ServerRecords /\ t.ear = FALSE /\ t.news = "none" /\ t.inbox = <<>> /\ t.outbox = {}
      /\ t.work = sv[p].work /\ t.life # "alive"
  BY <1>1, DisposedFields
<1> HIDE DEF t, p
<1>3. tv \in [Procs -> ServerRecords] /\ tv[p] = t /\ \A o \in Procs \ {p} : tv[o] = sv[o]
  BY <1>1, <1>2 DEF t, p
<1>4. \A o \in Procs \ {p} : sv[o].life # "alive" /\ sv[o].ear = FALSE
  BY <1>1 DEF Kept, ServerRecords, p
<1>5. ASSUME NEW o \in Procs
      PROVE /\ tv[o].life # "alive" /\ (tv[o].ear = TRUE => q.proc = o)
            /\ tv[o].news # "none" => tv[o].life = "dead"
            /\ tv[o].work \subseteq sv[o].work /\ tv[o].outbox \subseteq sv[o].outbox
            /\ tv[o].inbox = sv[o].inbox \/ tv[o].inbox = <<>>
  <2>1. CASE o = p
    BY <1>2, <1>3, <2>1
  <2>2. CASE o # p
    BY <1>1, <1>3, <1>4, <2>2 DEF Kept
  <2> QED BY <2>1, <2>2
<1>6. ASSUME NEW o \in {q.closing.start, q.closing.stop} \ {0}
      PROVE q.proc \in {0, o} /\ tv[o].ear = FALSE
  <2>1. CASE o = p
    BY <1>2, <1>3, <2>1 DEF p
  <2>2. CASE o # p
    <3>1. o \in {k.closing.start, k.closing.stop} \ {0} /\ o \in Procs
      BY <1>1, <2>2 DEF p, MaybeProc
    <3>2. tv[o] = sv[o]
      BY <1>3, <2>2, <3>1
    <3> QED BY <1>1, <3>1, <3>2 DEF Kept
  <2> QED BY <2>1, <2>2
<1>7. Quiet(q, sv, tv)
  BY <1>5, <1>6 DEF Quiet
<1> QED BY <1>3, <1>7, QuietKeeps

(* A process works, or ends. *)
LEMMA ServerKeeps ==
  ASSUME NEW k, NEW sv, PiOK(k, sv), NEW p \in Procs, NEW t \in ServerRecords, Once(t),
         \A x : Asked(t, x) => Asked(sv[p], x), t.life \in {sv[p].life, "dead"},
         t.ear = sv[p].ear, t.news # "none" => t.life = "dead",
         t.life = "alive" => \A P : Awaited(sv[p], P) => Awaited(t, P),
         NEW tv, tv = [sv EXCEPT ![p] = t]
  PROVE  PiOK(k, tv)
<1>1. /\ k.nextId \in Nat /\ k.nextId <= k.nextId
      /\ sv \in [Procs -> ServerRecords] /\ Numbered(k.nextId, sv) /\ Kept(k, sv)
      /\ AllAwaited(k.pending, sv) /\ k.closing.start \in MaybeProc /\ k.closing.stop \in MaybeProc
  BY DEF PiOK, ClientRecords
<1>2. tv \in [Procs -> ServerRecords] /\ tv[p] = t /\ \A o \in Procs \ {p} : tv[o] = sv[o]
  BY <1>1
<1>3. Numbered(k.nextId, tv)
  <2>1. Grows(k.nextId, k.nextId, sv, tv)
    BY <1>1, <1>2 DEF Grows, Numbered
  <2> QED BY <1>1, <2>1, NumbersKept
<1>4. Kept(k, tv)
  BY <1>1, <1>2 DEF Kept, MaybeProc
<1>5. AllAwaited(k.pending, tv)
  BY <1>1, <1>2 DEF AllAwaited
<1> QED BY <1>2, <1>3, <1>4, <1>5 DEF PiOK

-----------------------------------------------------------------------------
(* The actions. *)

LEMMA NoProcessIsZero == 0 \notin Procs
  BY PiParameters

(* What start() does, whoever calls it. *)
LEMMA StartKeeps ==
  ASSUME NEW k, PiOK(k, server), Start(k)
  PROVE  PiOK(client', server')
<1>1. CASE k.stopped \/ Connected(k) \/ k.stage # "no"
  BY <1>1 DEF Start
<1>2. CASE ~(k.stopped \/ Connected(k) \/ k.stage # "no")
  <2>1. PICK p \in Procs : Spawn(k, p)
    BY <1>2 DEF Start
  <2> DEFINE n == k.nextId
             q == [k EXCEPT !.proc = p, !.stage = "initialize", !.hello = n,
                            !.nextId = n + 1, !.pending = @ \cup {n}]
             t1 == [NoServer EXCEPT !.ear = TRUE, !.life = "alive", !.inbox = <<Req(n)>>]
             t2 == [NoServer EXCEPT !.ear = TRUE, !.life = "dead", !.news = "error"]
  <2>2. k \in ClientRecords /\ Coherent(k) /\ n \in Nat /\ server \in [Procs -> ServerRecords]
    BY DEF PiOK, ClientRecords
  <2>3. k.proc = 0 /\ ~k.stopped /\ k.stage = "no" /\ ~k.ready
    BY <1>2, <2>2 DEF Coherent, Connected
  <2>4. /\ q \in ClientRecords /\ q.proc = p /\ q.halted = k.halted /\ q.closing = k.closing
        /\ q.nextId = n + 1 /\ q.pending = k.pending \cup {n} /\ q.stage = "initialize"
        /\ q.ready = k.ready /\ q.stopped = k.stopped /\ q.hello = n
    <3>1. n + 1 \in Nat /\ k.pending \cup {n} \in SUBSET Nat /\ p \in MaybeProc
      BY <2>2 DEF ClientRecords, MaybeProc
    <3> HIDE DEF n
    <3> QED BY <2>2, <3>1 DEF ClientRecords
  <2>5. client' = q
    BY <2>1 DEF Spawn, NextId
  <2> HIDE DEF q
  <2>6. Coherent(q)
    <3>1. n > 0 /\ n < n + 1 /\ \A id \in k.pending : 0 < id /\ id < n /\ id \in Nat
      BY <2>2 DEF Coherent, ClientRecords
    <3>2. \A id \in q.pending : 0 < id /\ id < n + 1
      BY <2>2, <2>4, <3>1
    <3>3. k.closing.start = 0 /\ k.closing.stop = 0 /\ ~k.halted /\ p # 0
      BY <2>2, <2>3, NoProcessIsZero DEF Coherent
    <3> HIDE DEF n
    <3> QED BY <2>2, <2>3, <2>4, <3>1, <3>2, <3>3 DEF Coherent, Greeting
  <2>7. /\ t1 \in ServerRecords /\ t1.work = {} /\ t1.outbox = {} /\ t1.inbox = <<Req(n)>> /\ t1.news = "none"
        /\ t2 \in ServerRecords /\ t2.work = {} /\ t2.outbox = {} /\ t2.inbox = <<>> /\ t2.life = "dead"
    <3>0. Req(n) \in Messages
      BY <2>2, MessageTypes
    <3>1. <<Req(n)>> \in Seq(Messages) /\ <<>> \in Seq(Messages) /\ {} \in SUBSET Nat
      BY <3>0
    <3> QED BY <3>1 DEF ServerRecords, NoServer
  <2>8. server' = [server EXCEPT ![p] = t1] \/ server' = [server EXCEPT ![p] = t2]
    BY <2>1 DEF Spawn, NextId
  <2> HIDE DEF t1, t2
  <2>9. CASE server' = [server EXCEPT ![p] = t1]
    BY <2>2, <2>3, <2>4, <2>5, <2>6, <2>7, <2>9, NoProcessIsZero, SpawnKeeps
  <2>10. CASE server' = [server EXCEPT ![p] = t2]
    BY <2>2, <2>3, <2>4, <2>5, <2>6, <2>7, <2>10, NoProcessIsZero, SpawnKeeps
  <2> QED BY <2>8, <2>9, <2>10
<1> QED BY <1>1, <1>2

(* A call's record is replaced by another one. *)
LEMMA GoesTyped ==
  ASSUME PiInv, NEW c \in PiCalls,
         NEW pc \in {"new", "starting", "started", "waiting", "broken", "mending", "done"}
  PROVE  Goes(c, pc) \in [PiCalls -> CallRecords]
  BY DEF Goes, PiInv, CallRecords

LEMMA LosersTyped ==
  ASSUME PiInv, NEW pending, NEW start, CallsLose(pending, start)
  PROVE  piCall' \in [PiCalls -> CallRecords]
  BY DEF PiInv, CallsLose, CallRecords

(* The types and the invariant's parts of a state that satisfies it. *)
LEMMA Invariant ==
  ASSUME PiInv
  PROVE  /\ PiOK(client, server) /\ client \in ClientRecords /\ server \in [Procs -> ServerRecords]
         /\ Coherent(client) /\ Kept(client, server) /\ client.nextId \in Nat
         /\ client.proc \in MaybeProc /\ piCall \in [PiCalls -> CallRecords]
         /\ client.pending \in SUBSET Nat
         /\ client.closing.start \in MaybeProc /\ client.closing.stop \in MaybeProc
  BY DEF PiInv, PiOK, ClientRecords

(* A call sends its request. *)
LEMMA SendKeeps ==
  ASSUME PiInv, NEW c \in PiCalls, client.ready = TRUE, SendRequest(c)
  PROVE  PiInv'
<1> DEFINE n == client.nextId
           q == [client EXCEPT !.nextId = n + 1, !.pending = @ \cup {n}]
<1>1. client.proc # 0 /\ client.stage = "no"
  BY Invariant DEF Coherent
<1>2. /\ q \in ClientRecords /\ q.nextId = n + 1 /\ q.pending = client.pending \cup {n}
      /\ q.proc = client.proc /\ q.ready = client.ready /\ q.stage = client.stage
      /\ q.hello = client.hello /\ q.stopped = client.stopped /\ q.halted = client.halted
      /\ q.closing = client.closing
  <2>1. n \in Nat /\ n + 1 \in Nat /\ client.pending \cup {n} \in SUBSET Nat
    BY Invariant
  <2> HIDE DEF n
  <2> QED BY <2>1, Invariant DEF ClientRecords
<1>3. client' = q
  BY DEF SendRequest, NextId
<1>4. client.hello < n /\ client.hello \in Nat
  BY Invariant DEF Coherent, ClientRecords
<1> HIDE DEF q
<1>5. Coherent(q)
  BY <1>1, <1>2, <1>4, Invariant DEF Coherent, Greeting
<1>6. server' = [server EXCEPT ![client.proc] = Sent(@, Req(client.nextId))]
  BY DEF SendRequest, NextId
<1>7. PiOK(q, server')
  BY <1>1, <1>2, <1>5, <1>6, Invariant, NoProcessIsZero, RequestKeeps
<1>8. piCall' \in [PiCalls -> CallRecords]
  BY Invariant DEF SendRequest, NextId, CallRecords
<1> QED BY <1>3, <1>7, <1>8 DEF PiInv

(* A call starts the client; what else it does is to go on. *)
LEMMA CallStepKeeps ==
  ASSUME PiInv, NEW c \in PiCalls, CallStep(c)
  PROVE  PiInv'
<1>1. CASE Begin(c)
  <2>1. CASE client.ready
    <3>1. client.ready = TRUE
      BY <2>1, Invariant DEF ClientRecords
    <3> QED BY <1>1, <2>1, <3>1, SendKeeps DEF Begin
  <2>2. CASE ~client.ready
    <3>1. Start(client) /\ piCall' \in [PiCalls -> CallRecords]
      BY <1>1, <2>2, GoesTyped DEF Begin
    <3> QED BY <3>1, Invariant, StartKeeps DEF PiInv
  <2> QED BY <2>1, <2>2
<1>2. CASE Continue(c)
  <2>1. CASE piCall[c].aborted \/ ~client.ready
    BY <1>2, <2>1, Invariant, GoesTyped DEF Continue, PiInv
  <2>2. CASE ~(piCall[c].aborted \/ ~client.ready)
    <3>1. client.ready = TRUE
      BY <2>2, Invariant DEF ClientRecords
    <3> QED BY <1>2, <2>2, <3>1, SendKeeps DEF Continue
  <2> QED BY <2>1, <2>2
<1>3. CASE Mend(c)
  <2>1. Start(client) /\ piCall' \in [PiCalls -> CallRecords]
    BY <1>3, GoesTyped DEF Mend
  <2> QED BY <2>1, Invariant, StartKeeps DEF PiInv
<1> QED BY <1>1, <1>2, <1>3 DEF CallStep

(* start() of session_start and of the restart timer. *)
LEMMA StartersKeep ==
  ASSUME PiInv, SessionStarts \/ TimerFires
  PROVE  PiInv'
<1>1. CASE SessionStarts
  BY <1>1, Invariant, StartKeeps DEF SessionStarts, PiInv
<1>2. CASE TimerFires
  <2> DEFINE q == [client EXCEPT !.timer = FALSE,
                     !.starters = IF client.stopped \/ Connected(client) THEN @ ELSE @ \cup {"timer"}]
  <2>1. Start(q) /\ UNCHANGED piCall
    BY <1>2 DEF TimerFires
  <2>2. /\ q \in ClientRecords /\ q.nextId = client.nextId /\ q.pending = client.pending
        /\ q.proc = client.proc /\ q.ready = client.ready /\ q.stage = client.stage
        /\ q.hello = client.hello /\ q.stopped = client.stopped /\ q.halted = client.halted
        /\ q.closing = client.closing
    BY Invariant DEF ClientRecords
  <2> HIDE DEF q
  <2>3. PiOK(q, server)
    BY <2>2, Invariant DEF PiOK, Coherent, Greeting, Kept
  <2> QED BY <2>1, <2>3, Invariant, StartKeeps DEF PiInv
<1> QED BY <1>1, <1>2

(* A request is given up: by its user or by its timer. *)
LEMMA GivenUpLemma ==
  ASSUME PiInv, NEW id \in Nat, client' = [client EXCEPT !.pending = @ \ {id}], server' = GivenUp(id)
  PROVE  PiOK(client', server')
<1> DEFINE q == [client EXCEPT !.pending = @ \ {id}]
<1>1. /\ q \in ClientRecords /\ q.nextId = client.nextId /\ q.pending = client.pending \ {id}
      /\ q.proc = client.proc /\ q.ready = client.ready /\ q.stage = client.stage
      /\ q.hello = client.hello /\ q.stopped = client.stopped /\ q.halted = client.halted
      /\ q.closing = client.closing
  BY Invariant DEF ClientRecords
<1>2. client' = q
  OBVIOUS
<1> HIDE DEF q
<1>3. Coherent(q)
  BY <1>1, Invariant DEF Coherent, Greeting
<1>4. server' = [server EXCEPT ![client.proc] = Sent(@, Cancel(id))]
  BY DEF GivenUp
<1>5. PiOK(q, server')
  BY <1>1, <1>3, <1>4, Invariant, NoProcessIsZero, GivenUpKeeps
<1> QED BY <1>2, <1>5

LEMMA AbortKeeps ==
  ASSUME PiInv, NEW c \in PiCalls, Abort(c)
  PROVE  PiInv'
<1>1. CASE piCall[c].pc = "waiting"
  <2>1. /\ client' = [client EXCEPT !.pending = @ \ {piCall[c].id}]
        /\ server' = GivenUp(piCall[c].id) /\ piCall' = Goes(c, "done")
    BY <1>1 DEF Abort
  <2>2. piCall[c].id \in Nat
    BY Invariant DEF CallRecords
  <2>3. PiOK(client', server')
    BY <2>1, <2>2, GivenUpLemma
  <2> QED BY <2>1, <2>3, GoesTyped DEF PiInv
<1>2. CASE piCall[c].pc # "waiting"
  <2>1. piCall' = [piCall EXCEPT ![c].aborted = TRUE] /\ UNCHANGED <<client, server>>
    BY <1>2 DEF Abort
  <2>2. piCall' \in [PiCalls -> CallRecords]
    BY <2>1, Invariant DEF CallRecords
  <2> QED BY <2>1, <2>2, Invariant DEF PiInv
<1> QED BY <1>1, <1>2

(* The frame of disposeProc: the client's own fields, and one that it sets. *)
LEMMA TimesOutKeeps ==
  ASSUME PiInv, NEW id \in client.pending, TimesOut(id)
  PROVE  PiInv'
<1>0. id \in Nat
  BY Invariant
<1>1. CASE id = client.hello
  <2> DEFINE q == [client EXCEPT !.pending = @ \ {id}, !.stage = "closing", !.closing.start = client.proc]
  <2>1. client' = q /\ server' = [server EXCEPT ![client.proc] = Disposed(@)] /\ UNCHANGED piCall
    BY <1>1 DEF TimesOut
  <2>2. /\ q \in ClientRecords /\ q.nextId = client.nextId /\ q.pending = client.pending \ {id}
        /\ q.proc = client.proc /\ q.ready = client.ready /\ q.stage = "closing"
        /\ q.hello = client.hello /\ q.stopped = client.stopped /\ q.halted = client.halted
        /\ q.closing.start = client.proc /\ q.closing.stop = client.closing.stop
    BY Invariant DEF ClientRecords
  <2> HIDE DEF q
  <2>3. Greeting(client) /\ client.proc # 0 /\ client.ready = FALSE
    BY <1>1, Invariant DEF Coherent, ClientRecords, Greeting
  <2>4. Coherent(q)
    BY <1>1, <2>2, <2>3, Invariant DEF Coherent, Greeting
  <2>5. PiOK(q, server')
    BY <2>1, <2>2, <2>3, <2>4, Invariant, NoProcessIsZero, DisposedKeeps
  <2> QED BY <2>1, <2>5, Invariant DEF PiInv
<1>2. CASE id # client.hello
  <2>1. client' = [client EXCEPT !.pending = @ \ {id}] /\ server' = GivenUp(id)
    BY <1>2 DEF TimesOut
  <2>2. PiOK(client', server')
    BY <1>0, <2>1, GivenUpLemma
  <2>3. piCall' \in [PiCalls -> CallRecords]
    BY <1>2, Invariant DEF TimesOut, CallRecords
  <2> QED BY <2>2, <2>3 DEF PiInv
<1> QED BY <1>1, <1>2

LEMMA StopKeeps ==
  ASSUME PiInv, Stop
  PROVE  PiInv'
<1> DEFINE k == [client EXCEPT !.stopped = TRUE, !.timer = FALSE]
<1>1. CASE client.proc = 0
  <2> DEFINE q == [k EXCEPT !.halted = TRUE]
  <2>1. client' = q /\ UNCHANGED <<server, piCall>>
    BY <1>1 DEF Stop
  <2>2. /\ q \in ClientRecords /\ q.nextId = client.nextId /\ q.pending = client.pending
        /\ q.proc = 0 /\ q.ready = client.ready /\ q.stage = client.stage
        /\ q.hello = client.hello /\ q.stopped = TRUE /\ q.halted = TRUE
        /\ q.closing = client.closing
    BY <1>1, Invariant DEF ClientRecords, MaybeProc
  <2> HIDE DEF q
  <2>3. Coherent(q)
    BY <1>1, <2>2, Invariant DEF Coherent, Greeting
  <2>4. PiOK(q, server)
    BY <1>1, <2>2, <2>3, Invariant, NoProcessIsZero DEF PiOK, Kept
  <2> QED BY <2>1, <2>4, Invariant DEF PiInv
<1>2. CASE client.proc # 0
  <2> DEFINE q == [k EXCEPT !.closing.stop = client.proc]
  <2>1. client' = q /\ server' = [server EXCEPT ![client.proc] = Disposed(@)] /\ UNCHANGED piCall
    BY <1>2 DEF Stop
  <2>2. /\ q \in ClientRecords /\ q.nextId = client.nextId /\ q.pending = client.pending
        /\ q.proc = client.proc /\ q.ready = client.ready /\ q.stage = client.stage
        /\ q.hello = client.hello /\ q.stopped = TRUE /\ q.halted = client.halted
        /\ q.closing.start = client.closing.start /\ q.closing.stop = client.proc
    BY Invariant DEF ClientRecords
  <2> HIDE DEF q
  <2>4. Coherent(q)
    BY <1>2, <2>2, Invariant DEF Coherent, Greeting
  <2>5. PiOK(q, server')
    BY <1>2, <2>1, <2>2, <2>4, Invariant, NoProcessIsZero, DisposedKeeps
  <2> QED BY <2>1, <2>5, Invariant DEF PiInv
<1> QED BY <1>1, <1>2

(* What the client is after its methods. *)
LEMMA ScheduledFields ==
  ASSUME NEW k \in ClientRecords
  PROVE  LET r == Scheduled(k)
         IN  /\ r \in ClientRecords /\ r.proc = k.proc /\ r.ready = k.ready /\ r.stage = k.stage
             /\ r.hello = k.hello /\ r.stopped = k.stopped /\ r.halted = k.halted
             /\ r.closing = k.closing /\ r.nextId = k.nextId /\ r.pending = k.pending
             /\ r.starters = k.starters
<1>1. k.attempts + 1 \in Nat
  BY DEF ClientRecords
<1>2. CASE k.stopped \/ k.attempts >= MaxRestarts \/ k.timer
  BY <1>2 DEF Scheduled
<1>3. CASE ~(k.stopped \/ k.attempts >= MaxRestarts \/ k.timer)
  <2>1. Scheduled(k) = [k EXCEPT !.timer = TRUE, !.attempts = @ + 1]
    BY <1>3 DEF Scheduled
  <2> QED BY <1>1, <2>1 DEF ClientRecords
<1> QED BY <1>2, <1>3

LEMMA StartRejectedFields ==
  ASSUME NEW k \in ClientRecords
  PROVE  LET r == StartRejected(k)
         IN  /\ r \in ClientRecords /\ r.proc = k.proc /\ r.ready = k.ready /\ r.stage = "no"
             /\ r.hello = 0 /\ (k.stopped => r.stopped) /\ (r.halted => r.stopped \/ k.halted)
             /\ r.closing = k.closing /\ r.nextId = k.nextId /\ r.pending = k.pending
<1> DEFINE over == [k EXCEPT !.stage = "no", !.hello = 0, !.starters = {}]
           timed == IF "timer" \in k.starters THEN Scheduled(over) ELSE over
<1>1. /\ over \in ClientRecords /\ over.proc = k.proc /\ over.ready = k.ready /\ over.stage = "no"
      /\ over.hello = 0 /\ over.stopped = k.stopped /\ over.halted = k.halted
      /\ over.closing = k.closing /\ over.nextId = k.nextId /\ over.pending = k.pending
  BY DEF ClientRecords
<1> HIDE DEF over
<1>2. /\ timed \in ClientRecords /\ timed.proc = k.proc /\ timed.ready = k.ready /\ timed.stage = "no"
      /\ timed.hello = 0 /\ timed.stopped = k.stopped /\ timed.halted = k.halted
      /\ timed.closing = k.closing /\ timed.nextId = k.nextId /\ timed.pending = k.pending
  <2>1. CASE "timer" \in k.starters
    BY <1>1, <2>1, ScheduledFields
  <2>2. CASE "timer" \notin k.starters
    BY <1>1, <2>2
  <2> QED BY <2>1, <2>2
<1>3. StartRejected(k) =
        IF "session" \in k.starters THEN [timed EXCEPT !.stopped = TRUE, !.timer = FALSE, !.halted = TRUE]
        ELSE timed
  BY DEF StartRejected, over
<1> HIDE DEF timed
<1>4. CASE "session" \in k.starters
  <2> DEFINE r == [timed EXCEPT !.stopped = TRUE, !.timer = FALSE, !.halted = TRUE]
  <2>1. StartRejected(k) = r
    BY <1>3, <1>4
  <2>2. /\ r \in ClientRecords /\ r.proc = timed.proc /\ r.ready = timed.ready /\ r.stage = timed.stage
        /\ r.hello = timed.hello /\ r.stopped = TRUE /\ r.halted = TRUE
        /\ r.closing = timed.closing /\ r.nextId = timed.nextId /\ r.pending = timed.pending
    BY <1>2 DEF ClientRecords
  <2> HIDE DEF r
  <2> QED BY <1>2, <2>1, <2>2
<1>5. CASE "session" \notin k.starters
  BY <1>2, <1>3, <1>5
<1> QED BY <1>4, <1>5

LEMMA CleanedFields ==
  ASSUME NEW k \in ClientRecords
  PROVE  LET r == Cleaned(k)
         IN  /\ r \in ClientRecords /\ r.proc = 0 /\ r.ready = FALSE /\ r.stage = k.stage
             /\ r.hello = k.hello /\ r.stopped = k.stopped /\ r.halted = k.halted
             /\ r.closing = k.closing /\ r.nextId = k.nextId /\ r.pending = {}
  BY DEF Cleaned, ClientRecords, MaybeProc

(* A client without a process, after the end of its start if it had one    *)
(* under way.                                                              *)
LEMMA DisconnectedFields ==
  ASSUME NEW k \in ClientRecords, k.proc = 0, k.ready = FALSE, k.pending = {}, k.nextId > 0,
         k.hello < k.nextId, k.closing.start # 0 <=> k.stage = "closing",
         k.closing.stop # 0 => k.stopped, k.halted => k.stopped
  PROVE  LET r == Disconnected(k)
         IN  /\ r \in ClientRecords /\ Coherent(r) /\ r.proc = 0 /\ r.ready = FALSE /\ r.pending = {}
             /\ r.closing = k.closing /\ r.nextId = k.nextId /\ (k.stopped => r.stopped)
             /\ ~Greeting(r) /\ r.hello < r.nextId /\ (r.closing.start # 0 <=> r.stage = "closing")
             /\ (r.halted => r.stopped)
<1>1. CASE Greeting(k)
  <2> DEFINE r == StartRejected(k)
  <2>1. /\ r \in ClientRecords /\ r.proc = 0 /\ r.ready = FALSE /\ r.stage = "no"
        /\ r.hello = 0 /\ (k.stopped => r.stopped) /\ (r.halted => r.stopped)
        /\ r.closing = k.closing /\ r.nextId = k.nextId /\ r.pending = {}
    BY StartRejectedFields
  <2>2. Disconnected(k) = r
    BY <1>1 DEF Disconnected
  <2> HIDE DEF r
  <2>3. k.closing.start = 0
    BY <1>1 DEF Greeting
  <2> QED BY <2>1, <2>2, <2>3 DEF Coherent, Greeting
<1>2. CASE ~Greeting(k)
  BY <1>2 DEF Disconnected, Coherent, Greeting
<1> QED BY <1>1, <1>2

(* The exit or error listener. *)
LEMMA EventKeeps ==
  ASSUME PiInv, NEW p \in Procs, Event(p)
  PROVE  PiInv'
<1> DEFINE k == Scheduled(Cleaned(client))
           q == Disconnected(k)
           t == [server[p] EXCEPT !.news = "none", !.ear = FALSE]
<1>1. /\ k \in ClientRecords /\ k.proc = 0 /\ k.ready = FALSE /\ k.stage = client.stage
      /\ k.hello = client.hello /\ k.stopped = client.stopped /\ k.halted = client.halted
      /\ k.closing = client.closing /\ k.nextId = client.nextId /\ k.pending = {}
  <2> DEFINE r == Cleaned(client)
  <2>1. /\ r \in ClientRecords /\ r.proc = 0 /\ r.ready = FALSE /\ r.stage = client.stage
        /\ r.hello = client.hello /\ r.stopped = client.stopped /\ r.halted = client.halted
        /\ r.closing = client.closing /\ r.nextId = client.nextId /\ r.pending = {}
    BY Invariant, CleanedFields
  <2> HIDE DEF r
  <2>2. k = Scheduled(r)
    BY DEF r
  <2> QED BY <2>1, <2>2, ScheduledFields
<1>2. client' = q /\ server' = [server EXCEPT ![p] = t] /\ CallsLose(client.pending, Greeting(client))
  BY Invariant DEF Event, ServerRecords
<1> HIDE DEF k
<1>3. /\ k.nextId > 0 /\ k.hello < k.nextId /\ (k.closing.start # 0 <=> k.stage = "closing")
      /\ (k.closing.stop # 0 => k.stopped) /\ (k.halted => k.stopped)
  BY <1>1, Invariant DEF Coherent
<1>4. q \in ClientRecords /\ Coherent(q) /\ q.proc = 0 /\ q.closing = client.closing /\ q.nextId = client.nextId
  BY <1>1, <1>3, DisconnectedFields
<1> HIDE DEF q
<1>5. /\ t \in ServerRecords /\ t.life = server[p].life /\ t.ear = FALSE /\ t.news = "none"
      /\ t.inbox = server[p].inbox /\ t.work = server[p].work /\ t.outbox = server[p].outbox
  BY Invariant DEF ServerRecords
<1> HIDE DEF t
<1>6. server' \in [Procs -> ServerRecords] /\ server'[p] = t /\ \A o \in Procs \ {p} : server'[o] = server[o]
  BY <1>2, <1>5, Invariant
<1>7. client.proc = p /\ server[p].life = "dead"
  BY Invariant DEF Event, Kept, ServerRecords
<1>8. \A o \in Procs \ {p} : server[o].life # "alive" /\ server[o].ear = FALSE /\ (server[o].news # "none" => server[o].life = "dead")
  BY <1>7, Invariant DEF Kept, ServerRecords
<1>9. Quiet(q, server, server')
  <2>1. \A o \in Procs : server'[o].life # "alive" /\ server'[o].ear = FALSE
    BY <1>5, <1>6, <1>7, <1>8
  <2>2. \A o \in {q.closing.start, q.closing.stop} \ {0} : o \in Procs
    BY <1>4, Invariant DEF MaybeProc
  <2> QED BY <1>4, <1>5, <1>6, <1>8, <2>1, <2>2 DEF Quiet
<1>10. PiOK(q, server')
  BY <1>4, <1>6, <1>9, Invariant, NoProcessIsZero, QuietKeeps
<1> QED BY <1>2, <1>10, LosersTyped DEF PiInv

(* The rest of shutDownProc. *)
LEMMA CloseKeeps ==
  ASSUME PiInv, NEW who \in {"start", "stop"}, CloseEnds(who)
  PROVE  PiInv'
<1> DEFINE p == client.closing[who]
           k == [Cleaned(client) EXCEPT !.closing[who] = 0]
           t == [server[p] EXCEPT !.life = IF @ = "ending" THEN "killed" ELSE @]
<1>0. p \in Procs
  BY Invariant DEF CloseEnds, MaybeProc
<1>1. /\ k \in ClientRecords /\ k.proc = 0 /\ k.ready = FALSE /\ k.stage = client.stage
      /\ k.hello = client.hello /\ k.stopped = client.stopped /\ k.halted = client.halted
      /\ k.nextId = client.nextId /\ k.pending = {}
      /\ who = "start" => k.closing.start = 0 /\ k.closing.stop = client.closing.stop
      /\ who = "stop" => k.closing.start = client.closing.start /\ k.closing.stop = 0
  <2> DEFINE r == Cleaned(client)
  <2>1. /\ r \in ClientRecords /\ r.proc = 0 /\ r.ready = FALSE /\ r.stage = client.stage
        /\ r.hello = client.hello /\ r.stopped = client.stopped /\ r.halted = client.halted
        /\ r.closing = client.closing /\ r.nextId = client.nextId /\ r.pending = {}
    BY Invariant, CleanedFields
  <2> HIDE DEF r
  <2>2. CASE who = "start"
    <3>1. k = [r EXCEPT !.closing.start = 0]
      BY <2>1, <2>2 DEF r, ClientRecords
    <3> QED BY <2>1, <2>2, <3>1 DEF ClientRecords, MaybeProc
  <2>3. CASE who = "stop"
    <3>1. k = [r EXCEPT !.closing.stop = 0]
      BY <2>1, <2>3 DEF r, ClientRecords
    <3> QED BY <2>1, <2>3, <3>1 DEF ClientRecords, MaybeProc
  <2> QED BY <2>2, <2>3
<1>2. /\ server' = [server EXCEPT ![p] = t]
      /\ client' = IF who = "start" THEN StartRejected(k) ELSE [Disconnected(k) EXCEPT !.halted = TRUE]
      /\ CallsLose(client.pending, who = "start" \/ Greeting(client))
  BY <1>0, Invariant DEF CloseEnds, ServerRecords
<1> HIDE DEF k
<1>3. /\ k.nextId > 0 /\ k.hello < k.nextId
      /\ (client.closing.stop # 0 => k.stopped) /\ (k.halted => k.stopped)
      /\ (client.closing.start # 0 <=> k.stage = "closing")
  BY <1>1, Invariant DEF Coherent
<1>4. /\ client' \in ClientRecords /\ Coherent(client') /\ client'.proc = 0 /\ client'.nextId = client.nextId
      /\ client'.closing.start \in {0, client.closing.start}
      /\ client'.closing.stop \in {0, client.closing.stop}
  <2>1. CASE who = "start"
    <3> DEFINE r == StartRejected(k)
    <3>1. /\ r \in ClientRecords /\ r.proc = 0 /\ r.ready = FALSE /\ r.stage = "no"
          /\ r.hello = 0 /\ (k.stopped => r.stopped) /\ (r.halted => r.stopped)
          /\ r.closing = k.closing /\ r.nextId = k.nextId /\ r.pending = {}
      BY <1>1, <1>3, StartRejectedFields
    <3>2. client' = r
      BY <1>2, <2>1
    <3> HIDE DEF r
    <3> QED BY <1>1, <1>3, <2>1, <3>1, <3>2 DEF Coherent, Greeting
  <2>2. CASE who = "stop"
    <3> DEFINE d == Disconnected(k)
               r == [d EXCEPT !.halted = TRUE]
    <3>0. k.closing.start # 0 <=> k.stage = "closing"
      BY <1>1, <1>3, <2>2
    <3>1. /\ d \in ClientRecords /\ Coherent(d) /\ d.proc = 0 /\ d.ready = FALSE /\ d.pending = {}
          /\ d.closing = k.closing /\ d.nextId = k.nextId /\ (k.stopped => d.stopped)
          /\ ~Greeting(d) /\ d.hello < d.nextId /\ (d.closing.start # 0 <=> d.stage = "closing")
      BY <1>1, <1>3, <2>2, <3>0, DisconnectedFields
    <3>2. client' = r
      BY <1>2, <2>2
    <3>3. client.closing.stop # 0
      BY <2>2 DEF CloseEnds
    <3> HIDE DEF d
    <3>4. /\ r \in ClientRecords /\ r.proc = 0 /\ r.ready = FALSE /\ r.pending = {} /\ r.stage = d.stage
          /\ r.hello = d.hello /\ r.closing = d.closing /\ r.nextId = d.nextId /\ r.stopped = d.stopped
      BY <3>1 DEF ClientRecords
    <3> HIDE DEF r
    <3>5. Coherent(r)
      BY <1>1, <1>3, <2>2, <3>1, <3>3, <3>4 DEF Coherent, Greeting
    <3> QED BY <1>1, <2>2, <3>1, <3>2, <3>4, <3>5
  <2> QED BY <2>1, <2>2
<1>5. /\ t \in ServerRecords /\ t.life # "alive" /\ t.ear = FALSE /\ (t.news # "none" => t.life = "dead")
      /\ t.inbox = server[p].inbox /\ t.work = server[p].work /\ t.outbox = server[p].outbox
  <2>1. server[p].life # "alive" /\ server[p].ear = FALSE /\ (server[p].news # "none" => server[p].life = "dead")
    BY <1>0, Invariant, NoProcessIsZero DEF Kept
  <2>2. server[p] \in ServerRecords
    BY <1>0, Invariant
  <2> HIDE DEF p
  <2>3. CASE server[p].life = "ending"
    BY <2>1, <2>2, <2>3 DEF ServerRecords
  <2>4. CASE server[p].life # "ending"
    BY <2>1, <2>2, <2>4 DEF ServerRecords
  <2> QED BY <2>3, <2>4
<1>6. client.proc \in {0, p} /\ p # 0
  BY <1>0, Invariant, NoProcessIsZero DEF Kept
<1> HIDE DEF t, p
<1>7. server' \in [Procs -> ServerRecords] /\ server'[p] = t /\ \A o \in Procs \ {p} : server'[o] = server[o]
  BY <1>0, <1>2, <1>5, Invariant
<1>8. \A o \in Procs \ {p} : server[o].life # "alive" /\ server[o].ear = FALSE /\ (server[o].news # "none" => server[o].life = "dead")
  BY <1>0, <1>6, Invariant, NoProcessIsZero DEF Kept, ServerRecords
<1>9. Quiet(client', server, server')
  <2>1. \A o \in Procs : server'[o].life # "alive" /\ server'[o].ear = FALSE
    BY <1>5, <1>7, <1>8
  <2>2. \A o \in {client'.closing.start, client'.closing.stop} \ {0} : o \in Procs
    BY <1>4, Invariant DEF MaybeProc
  <2> QED BY <1>4, <1>5, <1>7, <1>8, <2>1, <2>2 DEF Quiet
<1>10. PiOK(client', server')
  BY <1>4, <1>7, <1>9, Invariant, NoProcessIsZero, QuietKeeps
<1> QED BY <1>2, <1>10, LosersTyped DEF PiInv

(* A line from the process. *)
LEMMA LineKeeps ==
  ASSUME PiInv, NEW p \in Procs, Line(p)
  PROVE  PiInv'
<1>1. PICK id \in server[p].outbox :
        IF id \in client.pending /\ id = client.hello THEN Greeted(id, p)
        ELSE /\ server' = [server EXCEPT ![p].outbox = @ \ {id}]
             /\ IF id \in client.pending
                THEN /\ client' = [client EXCEPT !.pending = @ \ {id}, !.attempts = 0]
                     /\ piCall' = [c \in PiCalls |->
                          IF piCall[c].id = id
                          THEN [piCall[c] EXCEPT !.pc = "done"] ELSE piCall[c]]
                ELSE UNCHANGED <<client, piCall>>
  BY DEF Line
<1> DEFINE sv == [server EXCEPT ![p].outbox = @ \ {id}]
<1>2. CASE id \in client.pending /\ id = client.hello
  <2>0. Greeting(client) /\ client.proc # 0 /\ client.ready = FALSE
    BY <1>2, Invariant DEF Coherent, ClientRecords, Greeting
  <2>1. Greeted(id, p)
    BY <1>1, <1>2
  <2>2. CASE client.stage = "initialize"
    <3> DEFINE n == client.nextId
               k == [client EXCEPT !.pending = @ \ {id}]
               q == [client EXCEPT !.pending = (@ \ {id}) \cup {n}, !.nextId = n + 1,
                                   !.stage = "tools/list", !.hello = n]
    <3>1. /\ client' = q /\ UNCHANGED piCall
          /\ server' = [sv EXCEPT ![client.proc] = Sent(@, Req(n))]
      BY <2>1, <2>2 DEF Greeted, NextId
    <3>2. /\ n \in Nat /\ n + 1 \in Nat /\ client.pending \ {id} \in SUBSET Nat
          /\ (client.pending \ {id}) \cup {n} \in SUBSET Nat /\ n > 0 /\ n < n + 1
          /\ \A i \in client.pending : 0 < i /\ i < n
      BY Invariant DEF Coherent
    <3>3. /\ k \in ClientRecords /\ k.nextId = n /\ k.pending = client.pending \ {id}
          /\ k.proc = client.proc /\ k.ready = client.ready /\ k.stage = client.stage
          /\ k.hello = client.hello /\ k.stopped = client.stopped /\ k.halted = client.halted
          /\ k.closing = client.closing
      BY <3>2, Invariant DEF ClientRecords
    <3>4. /\ q \in ClientRecords /\ q.nextId = n + 1 /\ q.pending = (client.pending \ {id}) \cup {n}
          /\ q.proc = client.proc /\ q.ready = client.ready /\ q.stage = "tools/list"
          /\ q.hello = n /\ q.stopped = client.stopped /\ q.halted = client.halted
          /\ q.closing = client.closing
      <4> HIDE DEF n
      <4> QED BY <3>2, Invariant DEF ClientRecords
    <3> HIDE DEF k, q
    <3>5. Coherent(k)
      BY <3>3, Invariant DEF Coherent, Greeting
    <3>6. PiOK(k, sv)
      BY <3>3, <3>5, Invariant, NoProcessIsZero, AnsweredKeeps
    <3>7. server' = [sv EXCEPT ![k.proc] = Sent(@, Req(k.nextId))]
      BY <3>1, <3>3
    <3>8. Coherent(q)
      <4>1. \A i \in q.pending : 0 < i /\ i < n + 1
        BY <3>2, <3>4, Invariant
      <4> HIDE DEF n
      <4> QED BY <2>0, <2>2, <3>2, <3>4, <4>1, Invariant DEF Coherent, Greeting
    <3> HIDE DEF sv
    <3>9. PiOK(q, server')
      BY <2>0, <3>3, <3>4, <3>6, <3>7, <3>8, NoProcessIsZero, RequestKeeps
    <3> QED BY <3>1, <3>9, Invariant DEF PiInv
  <2>3. CASE client.stage # "initialize"
    <3> DEFINE q == [client EXCEPT !.pending = @ \ {id}, !.stage = "no", !.hello = 0,
                                   !.ready = TRUE, !.starters = {}]
    <3>1. client' = q /\ server' = sv
      BY <2>1, <2>3 DEF Greeted
    <3>2. /\ q \in ClientRecords /\ q.nextId = client.nextId /\ q.pending = client.pending \ {id}
          /\ q.proc = client.proc /\ q.ready = TRUE /\ q.stage = "no"
          /\ q.hello = 0 /\ q.stopped = client.stopped /\ q.halted = client.halted
          /\ q.closing = client.closing
      BY Invariant DEF ClientRecords
    <3> HIDE DEF q
    <3>3. Coherent(q)
      BY <2>0, <3>2, Invariant DEF Coherent, Greeting
    <3>4. PiOK(q, sv)
      BY <3>2, <3>3, Invariant, NoProcessIsZero, AnsweredKeeps
    <3>5. piCall' \in [PiCalls -> CallRecords]
      BY <2>1, <2>3, Invariant DEF Greeted, CallRecords
    <3> QED BY <3>1, <3>4, <3>5 DEF PiInv
  <2> QED BY <2>2, <2>3
<1>3. CASE ~(id \in client.pending /\ id = client.hello)
  <2>1. CASE id \in client.pending
    <3> DEFINE q == [client EXCEPT !.pending = @ \ {id}, !.attempts = 0]
    <3>1. client' = q /\ server' = sv
      BY <1>1, <1>3, <2>1
    <3>2. /\ q \in ClientRecords /\ q.nextId = client.nextId /\ q.pending = client.pending \ {id}
          /\ q.proc = client.proc /\ q.ready = client.ready /\ q.stage = client.stage
          /\ q.hello = client.hello /\ q.stopped = client.stopped /\ q.halted = client.halted
          /\ q.closing = client.closing
      BY Invariant DEF ClientRecords
    <3> HIDE DEF q
    <3>3. Coherent(q)
      BY <3>2, Invariant DEF Coherent, Greeting
    <3>4. PiOK(q, sv)
      BY <3>2, <3>3, Invariant, NoProcessIsZero, AnsweredKeeps
    <3>5. piCall' \in [PiCalls -> CallRecords]
      BY <1>1, <1>3, <2>1, Invariant DEF CallRecords
    <3> QED BY <3>1, <3>4, <3>5 DEF PiInv
  <2>2. CASE id \notin client.pending
    <3>1. UNCHANGED <<client, piCall>> /\ server' = sv
      BY <1>1, <1>3, <2>2
    <3>2. client.pending = client.pending \ {id}
      BY <2>2
    <3>3. PiOK(client, sv)
      BY <3>2, Invariant, NoProcessIsZero, AnsweredKeeps
    <3> QED BY <3>1, <3>3, Invariant DEF PiInv
  <2> QED BY <2>1, <2>2
<1> QED BY <1>2, <1>3

(* The steps of a process. *)
LEMMA ProcessKeeps ==
  ASSUME PiInv, NEW p \in Procs, Takes(p) \/ Answers(p) \/ Crashes(p) \/ Ends(p)
  PROVE  PiInv'
<1>1. /\ UNCHANGED <<client, piCall>> /\ server[p] \in ServerRecords /\ Once(server[p])
      /\ (server[p].news # "none" => server[p].life = "dead")
  BY Invariant DEF Takes, Answers, Crashes, Ends, PiOK, Numbered, Kept
<1>2. ASSUME NEW t \in ServerRecords, server' = [server EXCEPT ![p] = t], Once(t),
             \A x : Asked(t, x) => Asked(server[p], x), t.life \in {server[p].life, "dead"},
             t.ear = server[p].ear, t.news # "none" => t.life = "dead",
             t.life = "alive" => \A P : Awaited(server[p], P) => Awaited(t, P)
      PROVE  PiInv'
  <2>1. PiOK(client, server')
    BY <1>2, Invariant, ServerKeeps
  <2> QED BY <1>1, <2>1, Invariant DEF PiInv
<1>3. CASE Takes(p)
  <2> DEFINE m == Head(server[p].inbox)
             w == IF m.cancel THEN server[p].work \ {m.id} ELSE server[p].work \cup {m.id}
             t == [server[p] EXCEPT !.inbox = Tail(@), !.work = w]
  <2>1. server[p].inbox \in Seq(Messages) /\ server[p].inbox # <<>> /\ server[p].work \in SUBSET Nat
    BY <1>1, <1>3 DEF Takes, ServerRecords
  <2>2. m \in Messages /\ Tail(server[p].inbox) \in Seq(Messages)
    BY <2>1, TailFacts
  <2>3. server' = [server EXCEPT ![p] = t]
    BY <1>3, Invariant DEF Takes
  <2> HIDE DEF m
  <2>4. m.id \in Nat /\ m.cancel \in BOOLEAN
    BY <2>2 DEF Messages
  <2>5. /\ w \in SUBSET Nat
        /\ m.cancel = TRUE => w = server[p].work \ {m.id}
        /\ m.cancel = FALSE => w = server[p].work \cup {m.id}
    BY <2>1, <2>4
  <2> HIDE DEF w
  <2>6. /\ t \in ServerRecords /\ t.life = server[p].life /\ t.ear = server[p].ear /\ t.news = server[p].news
        /\ t.inbox = Tail(server[p].inbox) /\ t.work = w /\ t.outbox = server[p].outbox
    BY <1>1, <2>2, <2>5 DEF ServerRecords
  <2> HIDE DEF t
  <2>7. /\ Once(t) /\ \A x : Asked(t, x) => Asked(server[p], x)
        /\ \A P : Awaited(server[p], P) => Awaited(t, P)
    <3>1. m = Head(server[p].inbox)
      BY DEF m
    <3>2. Taken(server[p], m, t)
      BY <2>1, <2>5, <2>6, <3>1 DEF Taken
    <3> QED BY <1>1, <3>2, TakesMessage
  <2> QED BY <1>1, <1>2, <2>3, <2>6, <2>7
<1>4. CASE Answers(p)
  <2>1. PICK id \in server[p].work :
          server' = [server EXCEPT ![p].work = @ \ {id}, ![p].outbox = @ \cup {id}]
    BY <1>4 DEF Answers
  <2> DEFINE t == [server[p] EXCEPT !.work = @ \ {id}, !.outbox = @ \cup {id}]
  <2>2. server' = [server EXCEPT ![p] = t]
    BY <1>1, <2>1, Invariant
  <2>3. /\ t \in ServerRecords /\ t.life = server[p].life /\ t.ear = server[p].ear /\ t.news = server[p].news
        /\ t.inbox = server[p].inbox /\ t.work = server[p].work \ {id} /\ t.outbox = server[p].outbox \cup {id}
    BY <1>1 DEF ServerRecords
  <2> HIDE DEF t
  <2>4. /\ Once(t) /\ \A x : Asked(t, x) => Asked(server[p], x)
        /\ \A P : Awaited(server[p], P) => Awaited(t, P)
    BY <1>1, <2>3, AnswersRequest
  <2> QED BY <1>1, <1>2, <2>2, <2>3, <2>4
<1>5. CASE Crashes(p) \/ Ends(p)
  <2> DEFINE t == Dead(server[p])
  <2>1. server' = [server EXCEPT ![p] = t]
    BY <1>5 DEF Crashes, Ends
  <2>2. /\ t \in ServerRecords /\ t.life = "dead" /\ t.ear = server[p].ear
        /\ t.inbox = <<>> /\ t.work = {} /\ t.outbox = server[p].outbox
    <3>1. <<>> \in Seq(Messages) /\ {} \in SUBSET Nat
      OBVIOUS
    <3>2. (IF server[p].ear THEN "exit" ELSE "none") \in {"none", "error", "exit"}
      OBVIOUS
    <3> QED BY <1>1, <3>1, <3>2 DEF Dead, ServerRecords
  <2> HIDE DEF t
  <2>3. Once(t) /\ \A x : Asked(t, x) => Asked(server[p], x)
    BY <1>1, <2>2, LosesMessages
  <2> QED BY <1>2, <2>1, <2>2, <2>3
<1> QED BY <1>3, <1>4, <1>5

-----------------------------------------------------------------------------
(* PiInv holds of every behaviour: the client's fields agree, only its     *)
(* process runs, and a request has one process and one place.              *)
THEOREM PiInductive == PiSpec => []PiInv
<1>1. PiInit => PiInv
  <2> SUFFICES ASSUME PiInit PROVE PiInv
    OBVIOUS
  <2>1. <<>> \in Seq(Messages) /\ {} \in SUBSET Nat /\ DOMAIN <<>> = {}
    OBVIOUS
  <2>2. client \in ClientRecords /\ server \in [Procs -> ServerRecords] /\ piCall \in [PiCalls -> CallRecords]
    BY <2>1 DEF PiInit, NewClient, NoServer, NewCall, ClientRecords, ServerRecords, CallRecords, MaybeProc
  <2>3. /\ client.proc = 0 /\ client.ready = FALSE /\ client.stage = "no" /\ client.hello = 0
        /\ client.closing.start = 0 /\ client.closing.stop = 0 /\ client.halted = FALSE
        /\ client.nextId = 1 /\ client.pending = {}
    BY DEF PiInit, NewClient
  <2>4. Coherent(client)
    BY <2>3 DEF Coherent, Greeting
  <2>5. \A p \in Procs : /\ server[p].life = "none" /\ server[p].ear = FALSE /\ server[p].news = "none"
                         /\ server[p].inbox = <<>> /\ server[p].work = {} /\ server[p].outbox = {}
    BY DEF PiInit, NoServer
  <2>6. Kept(client, server)
    BY <2>3, <2>5 DEF Kept
  <2>7. Numbered(client.nextId, server) /\ AllAwaited(client.pending, server)
    BY <2>1, <2>5 DEF Numbered, Once, Asked, AllAwaited
  <2> QED BY <2>2, <2>4, <2>6, <2>7 DEF PiInv, PiOK
<1>2. PiInv /\ [PiNext]_piVars => PiInv'
  <2> SUFFICES ASSUME PiInv, [PiNext]_piVars PROVE PiInv'
    OBVIOUS
  <2>1. CASE SessionStarts \/ TimerFires
    BY <2>1, StartersKeep
  <2>2. CASE Stop
    BY <2>2, StopKeeps
  <2>3. CASE \E c \in PiCalls : CallStep(c) \/ Abort(c)
    BY <2>3, CallStepKeeps, AbortKeeps
  <2>4. CASE \E id \in client.pending : TimesOut(id)
    BY <2>4, TimesOutKeeps
  <2>5. CASE \E p \in Procs : Line(p) \/ Event(p) \/ Takes(p) \/ Answers(p) \/ Crashes(p) \/ Ends(p)
    BY <2>5, LineKeeps, EventKeeps, ProcessKeeps
  <2>6. CASE \E w \in {"start", "stop"} : CloseEnds(w)
    BY <2>6, CloseKeeps
  <2>7. CASE AllEnded \/ UNCHANGED piVars
    BY <2>7 DEF AllEnded, piVars, PiInv
  <2> QED BY <2>1, <2>2, <2>3, <2>4, <2>5, <2>6, <2>7 DEF PiNext
<1> QED BY <1>1, <1>2, PTL DEF PiSpec

(* A server process that runs is the client's, until stop() has returned.  *)
THEOREM NoOrphanHolds == PiSpec => []NoOrphan
<1>1. PiInv => NoOrphan
  BY DEF PiInv, PiOK, Kept, NoOrphan
<1> QED BY <1>1, PiInductive, PTL

(* Whatever the server works on or will is awaited, or its cancel is on    *)
(* the way behind it.                                                      *)
THEOREM WorkHolds == PiSpec => []WorkIsAwaited
<1>1. PiInv => WorkIsAwaited
  <2> SUFFICES ASSUME PiInv, NEW p \in Procs, server[p].life = "alive"
               PROVE  /\ \A id \in server[p].work \ client.pending :
                           \E i \in DOMAIN server[p].inbox : server[p].inbox[i] = Cancel(id)
                      /\ \A i \in DOMAIN server[p].inbox :
                           ~server[p].inbox[i].cancel /\ server[p].inbox[i].id \notin client.pending =>
                             \E j \in DOMAIN server[p].inbox :
                               j > i /\ server[p].inbox[j] = Cancel(server[p].inbox[i].id)
    BY DEF WorkIsAwaited
  <2>1. Awaited(server[p], client.pending)
    BY DEF PiInv, PiOK, AllAwaited
  <2>2. server[p].inbox \in Seq(Messages)
    BY Invariant DEF ServerRecords
  <2>3. \A i \in DOMAIN server[p].inbox : server[p].inbox[i].cancel \in BOOLEAN
    <3>1. \A i \in DOMAIN server[p].inbox : server[p].inbox[i] \in Messages
      BY <2>2
    <3> QED BY <3>1 DEF Messages
  <2> QED BY <2>1, <2>3 DEF Awaited
<1> QED BY <1>1, PiInductive, PTL
=============================================================================
