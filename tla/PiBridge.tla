------------------------------- MODULE PiBridge -------------------------------
(***************************************************************************)
(* The client of integrations/pi/ctxmode.ts: one CtxmodeClient that runs   *)
(* the server as a child process, sends it JSON-RPC requests over a pipe,  *)
(* gives up on requests, restarts the server and stops it for good.        *)
(*                                                                         *)
(* JavaScript runs to completion, so an action is one turn of the event    *)
(* loop: a timer, an event of the child process, a line from it, a step of *)
(* the user or of the host.  What a promise that is settled in a turn      *)
(* continues with belongs to that turn, but for calls that awaited start() *)
(* or lost their server: they go on in turns of their own.                 *)
(***************************************************************************)
EXTENDS Integers, FiniteSets, Sequences

CONSTANTS
  PiCalls,      \* calls of callTool
  Procs,        \* child processes that exist at a time, numbered from 1
  MaxRestarts,  \* the five attempts of scheduleRestart
  MaxCrashes    \* bound: servers that exit by themselves or cannot be spawned

(* No process is 0, which says that there is none. *)
ASSUME PiParameters == Procs \subseteq Nat \ {0}

VARIABLES
  client,  \* the fields of CtxmodeClient
  server,  \* the child processes
  piCall,  \* what each call has reached
  crashes  \* crashes so far

piVars == <<client, server, piCall, crashes>>

(* ear: our listeners are attached; news: an event that is not yet          *)
(* delivered; inbox: what is in the pipe to it; work: requests that it      *)
(* handles; outbox: its answers in the pipe to us.                          *)
NoServer == [life |-> "none", ear |-> FALSE, news |-> "none",
             inbox |-> <<>>, work |-> {}, outbox |-> {}]

(* stage: what doStart awaits, and hello the request of it; starters: who,  *)
(* besides calls, awaits doStart; closing: the process that doStart and     *)
(* stop wait for in disposeProc; halted: stop has returned.                *)
NewClient == [proc |-> 0, ready |-> FALSE, stage |-> "no", hello |-> 0,
              starters |-> {"session"}, stopped |-> FALSE, halted |-> FALSE,
              closing |-> [start |-> 0, stop |-> 0],
              attempts |-> 0, timer |-> FALSE, nextId |-> 1, pending |-> {}]

NewCall == [pc |-> "new", id |-> 0, aborted |-> FALSE]

(* The types of the bridge's state. *)
PiTypeOK ==
  /\ client.proc \in {0} \cup Procs
  /\ client.stage \in {"no", "initialize", "tools/list", "closing"}
  /\ client.attempts \in 0 .. MaxRestarts
  /\ client.pending \subseteq 1 .. client.nextId - 1
  /\ client.ready => client.proc # 0
  /\ \A p \in Procs :
       /\ server[p].life \in {"none", "alive", "ending", "killed", "dead"}
       /\ server[p].work \cup server[p].outbox \subseteq 1 .. client.nextId - 1
  /\ \A c \in PiCalls :
       piCall[c].pc \in {"new", "starting", "started", "waiting", "broken", "mending", "done"}

(* session_start or /ctxmode-start has made the client and calls start().  *)
PiInit ==
  /\ client = NewClient
  /\ server = [p \in Procs |-> NoServer]
  /\ piCall = [c \in PiCalls |-> NewCall] /\ crashes = 0

-----------------------------------------------------------------------------
(* The client's fields after one method or another. *)

Scheduled(k) ==
  IF k.stopped \/ k.attempts >= MaxRestarts \/ k.timer THEN k
  ELSE [k EXCEPT !.timer = TRUE, !.attempts = @ + 1]

(* doStart rejects, with no process left.  The restart timer tries again;  *)
(* session_start stops the client.                                         *)
StartRejected(k) ==
  LET over  == [k EXCEPT !.stage = "no", !.hello = 0, !.starters = {}]
      timed == IF "timer" \in k.starters THEN Scheduled(over) ELSE over
  IN IF "session" \in k.starters
     THEN [timed EXCEPT !.stopped = TRUE, !.timer = FALSE, !.halted = TRUE]
     ELSE timed

Greeting(k) == k.stage \in {"initialize", "tools/list"}

(* cleanup rejects whatever is pending, a handshake included.              *)
Cleaned(k) == [k EXCEPT !.pending = {}, !.proc = 0, !.ready = FALSE]

Disconnected(k) == IF Greeting(k) THEN StartRejected(k) ELSE k

CallsForgotten(pending, start) == UNCHANGED piCall

(* Calls that await a start which rejects return its error; calls whose    *)
(* request is pending are told "disconnected".                             *)
CallsLose(pending, start) ==
  piCall' = [c \in PiCalls |->
    IF start /\ piCall[c].pc \in {"starting", "mending"} THEN [piCall[c] EXCEPT !.pc = "done"]
    ELSE IF piCall[c].pc = "waiting" /\ piCall[c].id \in pending THEN [piCall[c] EXCEPT !.pc = "broken"]
    ELSE piCall[c]]

(* disposeProc up to its await: the listeners and the pipes go, SIGTERM.   *)
Disposed(s) ==
  [s EXCEPT !.ear = FALSE, !.news = "none", !.inbox = <<>>, !.outbox = {},
            !.life = IF @ = "alive" THEN "ending" ELSE @]

(* A line written to the process, if it still reads.                       *)
Sent(s, m) == IF s.life = "alive" THEN [s EXCEPT !.inbox = Append(@, m)] ELSE s

Req(id) == [id |-> id, cancel |-> FALSE]

Cancel(id) == [id |-> id, cancel |-> TRUE]

-----------------------------------------------------------------------------
(* start(). *)

Connected(k) == k.proc # 0 /\ k.ready

(* requestId is never reset, so a number belongs to one process.           *)
NextId(k) == k.nextId

(* A process is forgotten when its pipe is read to the end.                *)
Free(p) ==
  \/ server[p].life = "none"
  \/ server[p].life = "dead" /\ server[p].news = "none" /\ server[p].outbox = {}

(* doStart up to its first await.  If the process cannot be spawned, an    *)
(* error event is on its way.                                              *)
Spawn(k, p) ==
  /\ Free(p) /\ \A q \in Procs : Free(q) => p <= q
  /\ LET id == NextId(k)
     IN client' = [k EXCEPT !.proc = p, !.stage = "initialize", !.hello = id,
                            !.nextId = id + 1, !.pending = @ \cup {id}]
  /\ LET new == [NoServer EXCEPT !.ear = TRUE]
     IN \/ /\ server' = [server EXCEPT ![p] = [new EXCEPT !.life = "alive", !.inbox = <<Req(NextId(k))>>]]
           /\ UNCHANGED crashes
        \/ /\ crashes < MaxCrashes /\ crashes' = crashes + 1
           /\ server' = [server EXCEPT ![p] = [new EXCEPT !.life = "dead", !.news = "error"]]

StartAnyway(k) ==
  IF Connected(k) \/ k.stage # "no"
  THEN client' = k /\ UNCHANGED <<server, crashes>>
  ELSE \E p \in Procs : Spawn(k, p)

(* start() refuses, has nothing to do, joins the start under way or runs.  *)
Start(k) ==
  IF k.stopped \/ Connected(k) \/ k.stage # "no"
  THEN client' = k /\ UNCHANGED <<server, crashes>>
  ELSE \E p \in Procs : Spawn(k, p)

SessionStarts ==
  /\ client.starters = {"session"} /\ client.stage = "no"
  /\ Start(client) /\ UNCHANGED piCall

(* The callback of the restart timer. *)
TimerFires ==
  /\ client.timer /\ UNCHANGED piCall
  /\ Start([client EXCEPT !.timer = FALSE,
              !.starters = IF client.stopped \/ Connected(client) THEN @ ELSE @ \cup {"timer"}])

-----------------------------------------------------------------------------
(* callTool. *)

Goes(c, pc) == [piCall EXCEPT ![c].pc = pc]

(* The request goes out; cancels cannot overtake it.  A process that is     *)
(* being disposed of does not read it.                                     *)
SendRequest(c) ==
  LET id == NextId(client)
      p  == client.proc
  IN /\ client' = [client EXCEPT !.nextId = id + 1, !.pending = @ \cup {id}]
     /\ server' = [server EXCEPT ![p] = Sent(@, Req(id))]
     /\ piCall' = [piCall EXCEPT ![c].pc = "waiting", ![c].id = id]
     /\ UNCHANGED crashes

Begin(c) ==
  /\ piCall[c].pc = "new" /\ client.starters # {"session"}
  /\ IF client.ready THEN SendRequest(c)
     ELSE /\ piCall' = Goes(c, IF client.stopped THEN "done" ELSE "starting")
          /\ Start(client)

Continue(c) ==
  /\ piCall[c].pc = "started"
  /\ IF piCall[c].aborted \/ ~client.ready
     THEN piCall' = Goes(c, "done") /\ UNCHANGED <<client, server, crashes>>
     ELSE SendRequest(c)

(* After "disconnected" the call starts the client for its successors; it  *)
(* does not repeat its request.                                            *)
Mend(c) ==
  /\ piCall[c].pc = "broken"
  /\ piCall' = Goes(c, IF client.stopped \/ Connected(client) THEN "done" ELSE "mending")
  /\ Start(client)

CallStep(c) == Begin(c) \/ Continue(c) \/ Mend(c)

(* A request that is given up is cancelled first.                          *)
GivenUpSilently(id) == server

GivenUp(id) ==
  [server EXCEPT ![client.proc] = Sent(@, Cancel(id))]

(* The user presses Esc while it matters: a call that has just begun or    *)
(* has lost its server returns in any case.                                *)
Abort(c) ==
  /\ piCall[c].pc \in {"starting", "started", "waiting"} /\ ~piCall[c].aborted
  /\ UNCHANGED crashes
  /\ IF piCall[c].pc = "waiting"
     THEN /\ client' = [client EXCEPT !.pending = @ \ {piCall[c].id}]
          /\ server' = GivenUp(piCall[c].id)
          /\ piCall' = Goes(c, "done")
     ELSE /\ piCall' = [piCall EXCEPT ![c].aborted = TRUE]
          /\ UNCHANGED <<client, server>>

(* A request's timer.  A handshake that fails shuts its process down.      *)
TimesOut(id) ==
  /\ id \in client.pending /\ UNCHANGED crashes
  /\ IF id = client.hello
     THEN /\ client' = [client EXCEPT !.pending = @ \ {id}, !.stage = "closing",
                                      !.closing.start = client.proc]
          /\ server' = [server EXCEPT ![client.proc] = Disposed(@)]
          /\ UNCHANGED piCall
     ELSE /\ client' = [client EXCEPT !.pending = @ \ {id}]
          /\ server' = GivenUp(id)
          /\ piCall' = [c \in PiCalls |->
               IF piCall[c].id = id THEN [piCall[c] EXCEPT !.pc = "done"] ELSE piCall[c]]

-----------------------------------------------------------------------------
(* Lines and events of the child process. *)

(* The second answer of the handshake completes the start.                 *)
Greeted(id, p) ==
  IF client.stage = "initialize"
  THEN LET next == NextId(client)
       IN /\ client' = [client EXCEPT !.pending = (@ \ {id}) \cup {next}, !.nextId = next + 1,
                                      !.stage = "tools/list", !.hello = next]
          /\ server' = [[server EXCEPT ![p].outbox = @ \ {id}] EXCEPT ![client.proc] = Sent(@, Req(next))]
          /\ UNCHANGED piCall
  ELSE /\ client' = [client EXCEPT !.pending = @ \ {id}, !.stage = "no", !.hello = 0,
                                   !.ready = TRUE, !.starters = {}]
       /\ server' = [server EXCEPT ![p].outbox = @ \ {id}]
       /\ piCall' = [c \in PiCalls |->
            [piCall[c] EXCEPT !.pc = CASE @ = "starting" -> "started" [] @ = "mending" -> "done"
                                       [] OTHER -> @]]

(* A line: the answer to whatever request has its number and is pending.   *)
Line(p) ==
  \E id \in server[p].outbox :
    /\ UNCHANGED crashes
    /\ IF id \in client.pending /\ id = client.hello THEN Greeted(id, p)
       ELSE /\ server' = [server EXCEPT ![p].outbox = @ \ {id}]
            /\ IF id \in client.pending
               THEN /\ client' = [client EXCEPT !.pending = @ \ {id}, !.attempts = 0]
                    /\ piCall' = [c \in PiCalls |->
                         IF piCall[c].id = id
                         THEN [piCall[c] EXCEPT !.pc = "done"] ELSE piCall[c]]
               ELSE UNCHANGED <<client, piCall>>

(* The exit or error listener.  It acts on the client, not on its process. *)
(* intentionalClose is FALSE here: disposeProc sets it and detaches this.  *)
Event(p) ==
  /\ server[p].news # "none" /\ server[p].ear
  /\ server' = [server EXCEPT ![p].news = "none", ![p].ear = FALSE]
  /\ client' = Disconnected(Scheduled(Cleaned(client)))
  /\ CallsLose(client.pending, Greeting(client)) /\ UNCHANGED crashes

(* The rest of shutDownProc: the process has exited or gets SIGKILL.       *)
CloseEnds(who) ==
  LET p == client.closing[who]
      k == [Cleaned(client) EXCEPT !.closing[who] = 0]
  IN /\ p # 0 /\ UNCHANGED crashes
     /\ server' = [server EXCEPT ![p].life = IF @ = "ending" THEN "killed" ELSE @]
     /\ client' = IF who = "start" THEN StartRejected(k) ELSE [Disconnected(k) EXCEPT !.halted = TRUE]
     /\ CallsLose(client.pending, who = "start" \/ Greeting(client))

(* session_shutdown or /ctxmode-stop. *)
Stop ==
  /\ ~client.stopped /\ client.starters # {"session"}
  /\ LET p == client.proc
         k == [client EXCEPT !.stopped = TRUE, !.timer = FALSE]
     IN IF p = 0 THEN client' = [k EXCEPT !.halted = TRUE] /\ UNCHANGED server
        ELSE /\ client' = [k EXCEPT !.closing.stop = p]
             /\ server' = [server EXCEPT ![p] = Disposed(@)]
  /\ UNCHANGED <<piCall, crashes>>

-----------------------------------------------------------------------------
(* The server process. *)

Takes(p) ==
  /\ server[p].life = "alive" /\ server[p].inbox # <<>>
  /\ LET m == Head(server[p].inbox)
     IN server' = [server EXCEPT ![p].inbox = Tail(@),
                                 ![p].work = IF m.cancel THEN @ \ {m.id} ELSE @ \cup {m.id}]
  /\ UNCHANGED <<client, piCall, crashes>>

Answers(p) ==
  /\ server[p].life = "alive"
  /\ \E id \in server[p].work :
       server' = [server EXCEPT ![p].work = @ \ {id}, ![p].outbox = @ \cup {id}]
  /\ UNCHANGED <<client, piCall, crashes>>

Dead(s) == [s EXCEPT !.life = "dead", !.inbox = <<>>, !.work = {},
                     !.news = IF s.ear THEN "exit" ELSE "none"]

Crashes(p) ==
  /\ server[p].life = "alive" /\ crashes < MaxCrashes /\ crashes' = crashes + 1
  /\ server' = [server EXCEPT ![p] = Dead(@)]
  /\ UNCHANGED <<client, piCall>>

Ends(p) ==
  /\ server[p].life \in {"ending", "killed"}
  /\ server' = [server EXCEPT ![p] = Dead(@)]
  /\ UNCHANGED <<client, piCall, crashes>>

AllEnded == client.halted /\ (\A c \in PiCalls : piCall[c].pc = "done") /\ UNCHANGED piVars

PiNext ==
  \/ SessionStarts \/ TimerFires \/ Stop
  \/ \E c \in PiCalls : CallStep(c) \/ Abort(c)
  \/ \E id \in client.pending : TimesOut(id)
  \/ \E p \in Procs : Line(p) \/ Event(p) \/ Takes(p) \/ Answers(p) \/ Crashes(p) \/ Ends(p)
  \/ \E w \in {"start", "stop"} : CloseEnds(w)
  \/ AllEnded

PiSpec == PiInit /\ [][PiNext]_piVars

-----------------------------------------------------------------------------
(* A child process is either the one that the client talks to, or it has   *)
(* been told to end; once stop() has returned there is none to talk to     *)
(* (ctxmode.ts:312: the process that nobody refers to any more).           *)
NoOrphan ==
  \A p \in Procs : server[p].life = "alive" => client.proc = p /\ ~client.halted

(* The server works only on what somebody waits for: whoever stops waiting *)
(* has put a cancel behind the request (ctxmode.ts:497).                   *)
WorkIsAwaited ==
  \A p \in Procs :
    LET todo(i) == server[p].inbox[i]
    IN server[p].life = "alive" =>
         /\ \A id \in server[p].work \ client.pending :
              \E i \in DOMAIN server[p].inbox : todo(i) = Cancel(id)
         /\ \A i \in DOMAIN server[p].inbox :
              ~todo(i).cancel /\ todo(i).id \notin client.pending =>
                \E j \in DOMAIN server[p].inbox : j > i /\ todo(j) = Cancel(todo(i).id)

(* Every call returns: with an answer or an error.                         *)
EveryCallReturns == \A c \in PiCalls : (piCall[c].pc # "new") ~> (piCall[c].pc = "done")
=============================================================================
