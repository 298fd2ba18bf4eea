------------------------------- MODULE RpcSession -------------------------------
(***************************************************************************)
(* One RPC session of a controller with a worker over ssh: hello and       *)
(* negotiation, requests one at a time, and every way it ends              *)
(* (src/src/rpc/mod.rs, src/src/rpc/server.rs, src/src/transport/mod.rs).  *)
(* The worker may be of another release, which differs in the versions and *)
(* the methods it knows.                                                   *)
(***************************************************************************)
EXTENDS ExecCapture, FiniteSetsExt, SequencesExt

CONSTANTS ProtocolMin, ProtocolMax, \* of the controller
          Scripts, \* what commands call: sequences of methods
          Workers  \* releases [min, max, schema, methods] a worker may run

VARIABLES worker, script,     \* the release it runs, the calls to make
          client, server,     \* where the two are
          toServer, toClient, \* frames on their way
          closed, lost        \* the client closed its end; ssh is gone

rpcVars == <<client, server, toServer, toClient, closed, lost>>
vars == <<worker, script, rpcVars, execVars>>

Methods == {"manifest", "status", "doctor", "exec"}

ASSUME SessionAssumption ==
  /\ ProtocolMin \in Nat /\ ProtocolMax \in Nat
  /\ Scripts \subseteq Seq(Methods)
  /\ Workers \subseteq [min : Nat, max : Nat, schema : Nat, methods : SUBSET Methods]
  /\ None \notin {"ok", "data"}

\* Frames; `torn` is what is left of one when ssh goes away while it is sent.
Torn == [type |-> "torn"]
ServerHello == [type |-> "server_hello"]
ClientHello(protocol) == [type |-> "client_hello", protocol |-> protocol]
Request(id, method) == [type |-> "request", id |-> id, method |-> method]
Response(id, ok) == [type |-> "response", id |-> id, ok |-> ok]
Error(id, code) == [type |-> "error", id |-> id, code |-> code]
HelloId == 0

\* Of the frames on their way a prefix arrives, the last of them perhaps torn.
Cut(frames) ==
  {SubSeq(frames, 1, n) : n \in 0..Len(frames)}
    \cup {Append(SubSeq(frames, 1, n - 1), Torn) : n \in 1..Len(frames)}

LoseLink ==
  /\ ~lost /\ lost' = TRUE
  /\ toServer' \in Cut(toServer) /\ toClient' \in Cut(toClient)
  /\ UNCHANGED <<worker, script, client, server, closed, execVars>>

(***************************************************************************)
(* The client.                                                             *)
(***************************************************************************)
\* A command ends: finished, or its process dropped, which closes the pipe and
\* kills and reaps ssh.  What it wrote may still arrive.
Done(result) == client' = [client EXCEPT !.pc = "done", !.result = result]

Abort(result, frames) ==
  /\ Done(result) /\ closed' = TRUE
  /\ IF lost THEN UNCHANGED <<lost, toServer, toClient>>
     ELSE lost' = TRUE /\ toServer' \in Cut(frames) /\ toClient' = <<>>

ClientEof == toClient = <<>> /\ (lost \/ server.pc = "ended")

\* highest_protocol_intersection.
Intersection(theirs) == (ProtocolMin..ProtocolMax) \cap (theirs.min..theirs.max)

\* Seeded fault: the lowest version of the intersection.
LowestCommon(theirs) == Min(Intersection(theirs))
HighestCommon(theirs) == Max(Intersection(theirs))

Compatible == worker.schema = 1 /\ Intersection(worker) # {}

ReceiveHello ==
  /\ client.pc = "hello"
  /\ \/ ClientEof /\ Abort("auth_failed", toServer)
     \/ /\ toClient # <<>> /\ Head(toClient) # ServerHello
        /\ Abort("malformed", toServer)
     \/ /\ toClient # <<>> /\ Head(toClient) = ServerHello
        /\ IF ~Compatible
           THEN Abort("incompatible", Append(toServer, Error(HelloId, "incompatible")))
           ELSE IF lost THEN Abort("session_lost", toServer)
           ELSE LET protocol == HighestCommon(worker)
                IN /\ client' = [client EXCEPT !.pc = "request", !.protocol = protocol]
                   /\ toServer' = Append(toServer, ClientHello(protocol))
                   /\ toClient' = Tail(toClient)
                   /\ UNCHANGED <<closed, lost>>
  /\ UNCHANGED <<worker, script, server, execVars>>

NextCall == Len(client.answers) + 1

SendRequest ==
  /\ client.pc = "request" /\ NextCall <= Len(script)
  /\ IF lost THEN Abort("session_lost", toServer)
     ELSE /\ client' = [client EXCEPT !.pc = "await", !.next = @ + 1]
          /\ toServer' = Append(toServer, Request(client.next, script[NextCall]))
          /\ UNCHANGED <<toClient, closed, lost>>
  /\ UNCHANGED <<worker, script, server, execVars>>

Awaited(frame) == frame.type \in {"response", "error"} /\ frame.id = client.next - 1

\* A command that is told its call failed does not go on.
\* Seeded fault: it makes the call again.
CallAgain ==
  /\ client' = [client EXCEPT !.pc = "request"] /\ toClient' = Tail(toClient)
  /\ UNCHANGED <<toServer, closed, lost>>
CallFailed == Abort("remote", toServer)

\* The answer is taken, or rejected: not what the call returns, or of another host.
Answered ==
  \/ /\ client' = [client EXCEPT !.pc = "request", !.answers = Append(@, Head(toClient).id)]
     /\ toClient' = Tail(toClient)
     /\ UNCHANGED <<toServer, closed, lost>>
  \/ Abort("malformed", toServer)

ReceiveResponse ==
  /\ client.pc = "await"
  /\ \/ ClientEof /\ Abort("session_lost", toServer)
     \/ /\ toClient # <<>>
        /\ LET frame == Head(toClient)
           IN IF ~Awaited(frame) THEN Abort("malformed", toServer)
              ELSE IF frame.type = "error" THEN Abort(frame.code, toServer)
              ELSE IF frame.ok THEN Answered ELSE CallFailed
  /\ UNCHANGED <<worker, script, server, execVars>>

\* finish: closes the pipe and waits for ssh, which ends as the server did.
\* Seeded fault: the pipe is left open.
LeaveOpen == UNCHANGED closed
ClosePipe == closed' = TRUE

Finish ==
  /\ client.pc = "request" /\ NextCall > Len(script)
  /\ client' = [client EXCEPT !.pc = "finish"] /\ ClosePipe
  /\ UNCHANGED <<worker, script, server, toServer, toClient, lost, execVars>>

Reaped ==
  /\ client.pc = "finish" /\ (lost \/ server.pc = "ended")
  /\ Done(IF ~lost /\ server.ok THEN "ok" ELSE "session_lost")
  /\ UNCHANGED <<worker, script, server, toServer, toClient, closed, lost, execVars>>

Client == ReceiveHello \/ SendRequest \/ ReceiveResponse \/ Finish \/ Reaped

(***************************************************************************)
(* The server.                                                             *)
(***************************************************************************)
ServerEof == toServer = <<>> /\ (closed \/ lost)
ServerEnds(ok) == server' = [server EXCEPT !.pc = "ended", !.ok = ok]

\* A frame is written, or the write fails and the server ends.
Write(frame, step) ==
  IF lost THEN ServerEnds(FALSE) /\ UNCHANGED toClient
  ELSE server' = [server EXCEPT !.pc = step] /\ toClient' = Append(toClient, frame)

ProtocolFailure(id, code) ==
  /\ ServerEnds(FALSE)
  /\ toClient' = IF lost THEN toClient ELSE Append(toClient, Error(id, code))

\* The manifest is read first, and without a valid one there is no hello.
Serve ==
  /\ server.pc = "start"
  /\ \/ Write(ServerHello, "hello")
     \/ ServerEnds(FALSE) /\ UNCHANGED toClient
  /\ UNCHANGED <<worker, script, client, toServer, closed, lost, execVars>>

ReadClientHello ==
  /\ server.pc = "hello"
  /\ \/ ServerEof /\ ServerEnds(TRUE) /\ UNCHANGED <<toServer, toClient>>
     \/ /\ toServer # <<>> /\ toServer' = Tail(toServer)
        /\ LET frame == Head(toServer)
           IN IF frame = Error(HelloId, "incompatible") THEN ServerEnds(TRUE) /\ UNCHANGED toClient
              ELSE IF frame.type # "client_hello" THEN ProtocolFailure(HelloId, "malformed")
              ELSE IF frame.protocol \notin worker.min..worker.max
                   THEN ProtocolFailure(HelloId, "incompatible")
              ELSE server' = [server EXCEPT !.pc = "request"] /\ UNCHANGED toClient
  /\ UNCHANGED <<worker, script, client, closed, lost, execVars>>

\* handle_request of a method that only reads: it answers, or it fails, which a
\* frame that would be too long is turned into.
ReadRequest ==
  /\ server.pc = "request"
  /\ \/ ServerEof /\ ServerEnds(TRUE) /\ UNCHANGED <<toServer, toClient, execVars>>
     \/ /\ toServer # <<>> /\ toServer' = Tail(toServer)
        /\ LET frame == Head(toServer)
           IN IF frame.type # "request"
              THEN ProtocolFailure(HelloId, "malformed") /\ UNCHANGED execVars
              ELSE IF frame.id # Len(server.executed) + 1 \/ frame.method \notin worker.methods
              THEN ProtocolFailure(frame.id, "malformed") /\ UNCHANGED execVars
              ELSE /\ server' = [server EXCEPT !.pc = "run", !.executed = Append(@, frame.method)]
                   /\ IF frame.method = "exec" THEN Spawn ELSE UNCHANGED execVars
                   /\ UNCHANGED toClient
  /\ UNCHANGED <<worker, script, client, closed, lost>>

Respond ==
  /\ server.pc = "run"
  /\ \E ok \in IF Last(server.executed) # "exec" THEN BOOLEAN
               ELSE IF handler.pc # "answered" THEN {}
               ELSE IF handler.answer = "data" THEN BOOLEAN ELSE {FALSE} :
       Write(Response(Len(server.executed), ok), "request")
  /\ UNCHANGED <<worker, script, client, toServer, closed, lost, execVars>>

Exec ==
  /\ RunExec \/ \E s \in Streams : CaptureThread(s)
  /\ UNCHANGED <<worker, script, rpcVars>>

Server == Serve \/ ReadClientHello \/ ReadRequest \/ Respond \/ Exec

Outside == Command /\ UNCHANGED <<worker, script, rpcVars>>

Terminated == client.pc = "done" /\ server.pc = "ended" /\ UNCHANGED vars

Next == Client \/ Server \/ Outside \/ LoseLink \/ Terminated

Init ==
  /\ worker \in Workers /\ script \in Scripts
  /\ client = [pc |-> "hello", next |-> 1, protocol |-> None, answers |-> <<>>, result |-> None]
  /\ server = [pc |-> "start", ok |-> FALSE, executed |-> <<>>]
  /\ toServer = <<>> /\ toClient = <<>> /\ closed = FALSE /\ lost = FALSE
  /\ ExecIdle

Spec == Init /\ [][Next]_vars

\* Controller, server, handler and capture threads are scheduled; ssh need not be
\* lost, and a command need not end, write or leave anything behind.
Fairness ==
  /\ WF_vars(Client) /\ WF_vars(Serve \/ ReadClientHello \/ ReadRequest \/ Respond)
  /\ WF_vars(RunExec /\ UNCHANGED <<worker, script, rpcVars>>)
  /\ \A s \in Streams : WF_vars(CaptureThread(s) /\ UNCHANGED <<worker, script, rpcVars>>)

FairSpec == Spec /\ Fairness

-----------------------------------------------------------------------------
\* What exec reports as output is all that was ever written to the two streams, by
\* the command or what it left behind: when it stops at a race of its end, its last
\* output and the limit, the answer is a failure, never truncated output.
ReportsWholeOutput ==
  handler.answer = "data" => \A s \in Streams : capture[s].bytes = written[s]

\* No answer leaves the command running or a zombie, whichever way it came about.
CommandReaped == handler.pc = "answered" => child.state \in {"none", "reaped"}

\* What the answer to an exec says of the output and of the end of its command holds.
ExecIsComplete == ReportsWholeOutput /\ CommandReaped

\* The worker executes a prefix of the calls of the script, each at most once and in
\* order, and an answer the client takes is of the call it made; a command that
\* reports success has executed all of them.
CallsAtMostOnce ==
  /\ IsPrefix(server.executed, script)
  /\ Len(client.answers) <= Len(server.executed)
  /\ client.answers = [n \in DOMAIN client.answers |-> n]
  /\ client.result = "ok" => server.executed = script /\ Len(client.answers) = Len(script)

\* Nothing is executed under a version one of the two does not speak, or under an
\* older one than both do, or for a controller that cannot read the manifest.
OnlyCompatible ==
  server.executed # <<>> =>
    /\ worker.schema = 1
    /\ client.protocol \in ProtocolMin..ProtocolMax
    /\ client.protocol \in worker.min..worker.max
    /\ client.protocol + 1 \notin (ProtocolMin..ProtocolMax) \cap (worker.min..worker.max)

\* Whatever ends the session, the controller's command ends, as long as the command
\* it executes on the worker, and what that leaves behind, does.
EndsWithItsCommand ==
  <>[](~Alive /\ \A s \in Streams : writers[s] = {}) => <>(client.pc = "done")
=============================================================================
