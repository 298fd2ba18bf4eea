---------------------------- MODULE RpcSessionProofs ----------------------------
(***************************************************************************)
(* What an RPC session keeps, for any script, any releases of controller   *)
(* and worker, any limits, and however ssh and the executed command end:   *)
(* each call is executed at most once and in order, under a version both   *)
(* speak, and an answer to exec holds. And what the probes of a worker     *)
(* make setup and doctor say of it, for any changes of the machine between *)
(* the reads.                                                              *)
(***************************************************************************)
EXTENDS RpcSession, Baseline, SequenceTheorems, TLAPS

(***************************************************************************)
(* run_exec.                                                               *)
(***************************************************************************)
ChildStates == {"none", "running", "zombie", "reaped"}
Handlers == [pc : {"idle", "recv", "wait", "drain", "join", "answered"},
             answer : {None, "data", "remote"}]
Threads == [state : {"reading", "end", "error"}, bytes : Nat, overflow : BOOLEAN]

ExecType ==
  /\ child.state \in ChildStates
  /\ pipe \in [Streams -> Nat] /\ written \in [Streams -> Nat]
  /\ capture \in [Streams -> Threads]
  /\ DOMAIN writers = Streams

\* A thread that dropped nothing has all that left the pipe, and one that saw the end
\* has all there ever will be.
Kept(s) ==
  /\ ~capture[s].overflow => capture[s].bytes + pipe[s] = written[s]
  /\ capture[s].state = "end" => pipe[s] = 0 /\ writers[s] = {}

ExecInv ==
  /\ ExecType /\ handler \in Handlers /\ \A s \in Streams : Kept(s)
  /\ child.state = "none" => \A s \in Streams : capture[s].state = "reading" /\ writers[s] = {}
  /\ handler.pc = "idle" => child.state = "none"
  /\ handler.pc \in {"drain", "join"} => child.state = "reaped"
  /\ handler.pc = "answered" => child.state \in {"none", "reaped"}
  /\ handler.answer = "data" =>
       \A s \in Streams : capture[s].state = "end" /\ ~capture[s].overflow

LEMMA ExecHolds ==
  ASSUME ExecInv
  PROVE  ExecIsComplete
<1>1. ASSUME handler.answer = "data", NEW s \in Streams PROVE capture[s].bytes = written[s]
  BY <1>1 DEF ExecInv, Kept, ExecType, Threads
<1> QED BY <1>1 DEF ExecInv, ExecIsComplete, ReportsWholeOutput, CommandReaped

LEMMA CommandKeeps ==
  ASSUME ExecInv, Command
  PROVE  ExecInv'
<1>1. CASE \E s \in Streams : Output(s)
  <2>1. PICK s \in Streams : Output(s)
    BY <1>1
  <2>2. /\ pipe' = [pipe EXCEPT ![s] = @ + 1] /\ written' = [written EXCEPT ![s] = @ + 1]
        /\ UNCHANGED <<child, writers, capture, signal, handler>> /\ writers[s] # {}
    BY <2>1 DEF Output
  <2>3. ExecType'
    BY <2>2 DEF ExecInv, ExecType
  <2>4. ASSUME NEW t \in Streams PROVE Kept(t)'
    BY <2>2 DEF ExecInv, ExecType, Kept, Threads
  <2> QED BY <2>2, <2>3, <2>4 DEF ExecInv
<1>2. CASE LeaveHeir \/ HeirEnds \/ \E s \in Streams : CloseStream(s)
  <2>1. UNCHANGED <<child, pipe, written, capture, handler>>
    BY <1>2 DEF LeaveHeir, HeirEnds, CloseStream
  <2>2. DOMAIN writers' = Streams /\ \A s \in Streams : writers[s] = {} => writers'[s] = {}
    <3>1. CASE LeaveHeir
      <4>1. PICK held \in SUBSET {s \in Streams : "child" \in writers[s]} :
              writers' = [s \in Streams |-> IF s \in held THEN writers[s] \cup {"heir"} ELSE writers[s]]
        BY <3>1 DEF LeaveHeir
      <4> QED BY <4>1
    <3>2. CASE HeirEnds
      BY <3>2 DEF HeirEnds
    <3>3. CASE \E s \in Streams : CloseStream(s)
      BY <3>3 DEF CloseStream, ExecInv, ExecType
    <3> QED BY <1>2, <3>1, <3>2, <3>3
  <2>3. ExecType' /\ \A s \in Streams : Kept(s)'
    BY <2>1, <2>2 DEF ExecInv, ExecType, Kept
  <2> QED BY <2>1, <2>2, <2>3 DEF ExecInv
<1>3. CASE CommandEnds
  <2>1. /\ child.state = "running" /\ child'.state = "zombie"
        /\ UNCHANGED <<pipe, written, capture, signal, handler>> /\ writers' = WithoutChild
    BY <1>3 DEF CommandEnds, Alive
  <2>2. DOMAIN writers' = Streams /\ \A s \in Streams : writers[s] = {} => writers'[s] = {}
    BY <2>1 DEF WithoutChild
  <2>3. ExecType' /\ \A s \in Streams : Kept(s)'
    BY <2>1, <2>2 DEF ExecInv, ExecType, Kept, ChildStates
  <2> QED BY <2>1, <2>2, <2>3 DEF ExecInv
<1> QED BY <1>1, <1>2, <1>3 DEF Command

LEMMA CaptureKeeps ==
  ASSUME ExecInv, NEW s \in Streams, CaptureThread(s)
  PROVE  ExecInv'
<1>1. CASE ReadChunks(s)
  <2>1. PICK n \in 1..pipe[s] :
          capture' = [capture EXCEPT ![s] = Captured(@, n)] /\ pipe' = [pipe EXCEPT ![s] = @ - n]
    BY <1>1 DEF ReadChunks
  <2>2. /\ UNCHANGED <<child, writers, written, handler>> /\ capture[s].state = "reading"
        /\ child.state # "none"
    BY <1>1 DEF ReadChunks
  <2> DEFINE old == capture[s]
             new == Captured(old, n)
  <2>3. old \in Threads /\ n \in Nat /\ n > 0 /\ pipe[s] \in Nat /\ n <= pipe[s]
    BY <2>1 DEF ExecInv, ExecType
  <2>4. /\ new.state = old.state /\ new \in Threads
        /\ ~new.overflow => ~old.overflow /\ new.bytes = old.bytes + n
    <3>1. CaptureLimit \in Nat
      BY CaptureAssumption
    <3> DEFINE bytes == IF old.bytes + n <= CaptureLimit THEN old.bytes + n ELSE CaptureLimit
               over == old.overflow \/ old.bytes + n > CaptureLimit
    <3> HIDE DEF old
    <3>2. bytes \in Nat /\ over \in BOOLEAN /\ (~over => ~old.overflow /\ bytes = old.bytes + n)
      BY <2>3, <3>1 DEF Threads
    <3>3. new = [old EXCEPT !.bytes = bytes, !.overflow = over]
      BY DEF Captured
    <3> HIDE DEF bytes, over, new
    <3>4. new = [state |-> old.state, bytes |-> bytes, overflow |-> over]
      BY <2>3, <3>3 DEF Threads
    <3>5. old.state \in {"reading", "end", "error"}
      BY <2>3 DEF Threads
    <3> QED BY <3>2, <3>4, <3>5 DEF Threads
  <2>5. capture' = [capture EXCEPT ![s] = new]
    BY <2>1
  <2> HIDE DEF new
  <2>6. ExecType'
    BY <2>1, <2>2, <2>3, <2>4, <2>5 DEF ExecInv, ExecType
  <2>7. ASSUME NEW t \in Streams PROVE Kept(t)'
    <3>1. CASE t # s
      BY <2>1, <2>2, <2>5, <3>1 DEF ExecInv, ExecType, Kept
    <3>2. CASE t = s
      <4>1. capture'[s] = new /\ pipe'[s] = pipe[s] - n /\ written' = written
        BY <2>1, <2>2, <2>5 DEF ExecInv, ExecType
      <4>2. old.bytes \in Nat /\ written[s] \in Nat /\ new.state = "reading"
        BY <2>2, <2>3, <2>4 DEF Threads, ExecInv, ExecType
      <4>3. ~old.overflow => old.bytes + pipe[s] = written[s]
        BY DEF ExecInv, Kept
      <4> QED BY <2>3, <2>4, <3>2, <4>1, <4>2, <4>3 DEF Kept
    <3> QED BY <3>1, <3>2
  <2>8. handler.answer # "data"
    BY <2>2 DEF ExecInv
  <2> QED BY <2>2, <2>6, <2>7, <2>8 DEF ExecInv
<1>2. CASE ReadEnd(s)
  <2>1. PICK state \in {"end", "error"} :
          /\ capture' = [capture EXCEPT ![s].state = state]
          /\ state = "end" => pipe[s] = 0 /\ writers[s] = {}
    <3>1. \/ /\ pipe[s] = 0 /\ writers[s] = {} /\ capture' = [capture EXCEPT ![s].state = "end"]
          \/ capture' = [capture EXCEPT ![s].state = "error"]
      BY <1>2, Zenon DEF ReadEnd
    <3> QED BY <3>1, Zenon
  <2>2. /\ UNCHANGED <<child, writers, pipe, written, handler>> /\ capture[s].state = "reading"
        /\ child.state # "none"
    BY <1>2 DEF ReadEnd
  <2>3. capture[s] \in Threads /\ capture \in [Streams -> Threads]
    BY DEF ExecInv, ExecType
  <2>4. /\ capture'[s].state = state /\ capture'[s].bytes = capture[s].bytes
        /\ capture'[s].overflow = capture[s].overflow /\ capture' \in [Streams -> Threads]
        /\ \A t \in Streams \ {s} : capture'[t] = capture[t]
    BY <2>1, <2>3 DEF Threads
  <2>6. ExecType'
    BY <2>2, <2>4 DEF ExecInv, ExecType
  <2>7. ASSUME NEW t \in Streams PROVE Kept(t)'
    BY <2>1, <2>2, <2>4 DEF ExecInv, Kept
  <2>8. handler.answer # "data"
    BY <2>2 DEF ExecInv
  <2> QED BY <2>2, <2>6, <2>7, <2>8 DEF ExecInv
<1> QED BY <1>1, <1>2 DEF CaptureThread

LEMMA SpawnKeeps ==
  ASSUME ExecInv, Spawn
  PROVE  ExecInv'
<1>1. /\ handler.pc = "idle" /\ child.state = "none" /\ UNCHANGED <<pipe, written, capture, signal>>
      /\ \A s \in Streams : capture[s].state = "reading"
  BY DEF Spawn, ExecInv
<1>2. handler.answer # "data"
  BY <1>1 DEF ExecInv, Streams
<1>3. CASE /\ child' = [state |-> "running", ended |-> None]
           /\ writers' = [s \in Streams |-> {"child"}]
           /\ handler' = [handler EXCEPT !.pc = "recv"]
  <2>1. child'.state = "running" /\ DOMAIN writers' = Streams
    BY <1>3
  <2>2. handler'.pc \notin {"idle", "drain", "join", "answered"} /\ handler'.answer # "data" /\ handler' \in Handlers
    BY <1>1, <1>2, <1>3 DEF ExecInv, Handlers
  <2>3. ExecType' /\ \A s \in Streams : Kept(s)'
    BY <1>1, <2>1 DEF ExecInv, ExecType, Kept, ChildStates
  <2> QED BY <2>1, <2>2, <2>3 DEF ExecInv
<1>4. CASE Answer("remote") /\ UNCHANGED <<child, writers>>
  <2>1. handler'.pc = "answered" /\ handler'.answer # "data" /\ handler' \in Handlers
    BY <1>4 DEF Answer, Handlers
  <2>2. ExecType' /\ \A s \in Streams : Kept(s)'
    BY <1>1, <1>4 DEF ExecInv, ExecType, Kept
  <2> QED BY <1>1, <1>4, <2>1, <2>2 DEF ExecInv
<1> QED BY <1>3, <1>4 DEF Spawn

LEMMA KilledKeeps ==
  ASSUME ExecInv, KillAndWait, UNCHANGED <<pipe, written, capture>>
  PROVE  child'.state = "reaped" /\ ExecType' /\ \A s \in Streams : Kept(s)'
<1>1. child'.state = "reaped" /\ writers' = WithoutChild
  BY DEF KillAndWait
<1>2. DOMAIN writers' = Streams /\ \A s \in Streams : writers[s] = {} => writers'[s] = {}
  BY <1>1 DEF WithoutChild
<1> QED BY <1>1, <1>2 DEF ExecInv, ExecType, Kept, ChildStates

LEMMA RunExecKeeps ==
  ASSUME ExecInv, RunExec
  PROVE  ExecInv'
<1>1. UNCHANGED <<pipe, written, capture, signal>>
  BY DEF RunExec, TryRecv, TryWait, Drain, Join
<1>2. ASSUME GiveUpCapture, handler.pc \in {"recv", "wait"} PROVE ExecInv'
  <2>1. child'.state = "reaped" /\ ExecType' /\ \A s \in Streams : Kept(s)'
    BY <1>1, <1>2, KilledKeeps DEF GiveUpCapture
  <2>2. handler'.pc = "drain" /\ handler'.answer = handler.answer /\ handler' \in Handlers
    BY <1>2 DEF GiveUpCapture, ExecInv, Handlers
  <2> QED BY <1>1, <2>1, <2>2 DEF ExecInv
<1>3. ASSUME UNCHANGED <<child, writers>>, handler.pc # "idle",
             \E step \in {"recv", "wait"} : handler' = [handler EXCEPT !.pc = step]
      PROVE  ExecInv'
  <2>1. handler'.pc \in {"recv", "wait"} /\ handler'.answer = handler.answer /\ handler' \in Handlers
    BY <1>3 DEF ExecInv, Handlers
  <2>2. ExecType' /\ \A s \in Streams : Kept(s)'
    BY <1>1, <1>3 DEF ExecInv, ExecType, Kept
  <2> QED BY <1>1, <1>3, <2>1, <2>2 DEF ExecInv
<1>4. CASE TryRecv
  BY <1>2, <1>3, <1>4 DEF TryRecv
<1>5. CASE TryWait
  <2>1. CASE /\ child.state = "zombie" /\ child' = [child EXCEPT !.state = "reaped"]
             /\ handler' = [handler EXCEPT !.pc = "join"] /\ UNCHANGED writers
    <3>1. child'.state = "reaped" /\ handler'.pc = "join" /\ handler'.answer = handler.answer
          /\ handler' \in Handlers
      BY <2>1 DEF ExecInv, Handlers
    <3>2. ExecType' /\ \A s \in Streams : Kept(s)'
      BY <1>1, <2>1, <3>1 DEF ExecInv, ExecType, Kept, ChildStates
    <3> QED BY <1>1, <3>1, <3>2 DEF ExecInv
  <2>2. CASE handler' = [handler EXCEPT !.pc = "recv"] /\ UNCHANGED <<child, writers>>
    BY <1>3, <1>5, <2>2 DEF TryWait
  <2> QED BY <1>2, <1>5, <2>1, <2>2 DEF TryWait
<1>6. ASSUME NEW answer \in {"data", "remote"}, Answer(answer), handler.pc \in {"drain", "join"},
             UNCHANGED <<child, writers>>, answer = "data" => Complete
      PROVE  ExecInv'
  <2>1. handler'.pc = "answered" /\ handler'.answer = answer /\ child.state = "reaped"
        /\ handler' \in Handlers
    BY <1>6 DEF Answer, ExecInv, Handlers
  <2>2. answer = "data" => \A s \in Streams : capture[s].state = "end" /\ ~capture[s].overflow
    BY <1>6 DEF Complete
  <2>3. ExecType' /\ \A s \in Streams : Kept(s)'
    BY <1>1, <1>6 DEF ExecInv, ExecType, Kept
  <2> QED BY <1>1, <1>6, <2>1, <2>2, <2>3 DEF ExecInv
<1>7. CASE Drain
  BY <1>6, <1>7 DEF Drain
<1>8. CASE Join
  <2>1. Answer(IF Complete THEN "data" ELSE "remote") /\ handler.pc = "join" /\ UNCHANGED <<child, writers>>
    BY <1>8 DEF Join
  <2> QED BY <1>6, <2>1
<1> QED BY <1>4, <1>5, <1>7, <1>8 DEF RunExec

(***************************************************************************)
(* The two ends of the session, and the frames between them.               *)
(***************************************************************************)
Clients ==
  [pc : {"hello", "request", "await", "finish", "done"}, next : Nat, protocol : Nat \cup {None},
   answers : Seq(Nat),
   result : {None, "ok", "auth_failed", "malformed", "incompatible", "session_lost", "remote"}]
Servers == [pc : {"start", "hello", "request", "run", "ended"}, ok : BOOLEAN, executed : Seq(Methods)]

Greetings == {Torn, Error(HelloId, "incompatible")} \cup {ClientHello(protocol) : protocol \in Nat}
Calls == {Request(n, script[n]) : n \in 1..Len(script)}
ClientFrames == Greetings \cup Calls

Errors == {Error(id, code) : id \in Nat, code \in {"malformed", "incompatible"}}
Responses(last) == {Response(id, ok) : id \in 0..last, ok \in BOOLEAN}
ServerFrames(last) == {Torn, ServerHello} \cup Errors \cup Responses(last)

TypeInv ==
  /\ worker \in Workers /\ script \in Seq(Methods)
  /\ client \in Clients /\ server \in Servers
  /\ toServer \in Seq(ClientFrames) /\ toClient \in Seq(ServerFrames(Len(server.executed)))

\* The calls made, executed and answered, in the order of the script.
CallInv ==
  /\ Len(server.executed) <= Len(script)
  /\ \A n \in 1..Len(server.executed) : server.executed[n] = script[n]
  /\ Len(client.answers) <= Len(server.executed)
  /\ \A n \in 1..Len(client.answers) : client.answers[n] = n
  /\ client.pc \in {"hello", "request"} => client.next = Len(client.answers) + 1
  /\ client.pc = "await" => client.next = Len(client.answers) + 2
  /\ client.pc = "finish" \/ client.result = "ok" => Len(client.answers) >= Len(script)

\* The version is the newest both speak.
Agreed ==
  /\ worker.schema = 1
  /\ client.protocol \in ProtocolMin..ProtocolMax
  /\ client.protocol \in worker.min..worker.max
  /\ client.protocol + 1 \notin (ProtocolMin..ProtocolMax) \cap (worker.min..worker.max)

\* Before there is a version nothing is called.
AgreedInv ==
  /\ client.pc = "hello" => toServer = <<>> /\ server.executed = <<>>
  /\ \/ Agreed
     \/ /\ client.pc \in {"hello", "done"} /\ server.executed = <<>>
        /\ toServer \in Seq(Greetings)

SessionInv == TypeInv /\ CallInv /\ AgreedInv

LEMMA FrameKinds ==
  /\ \A frame \in Greetings : frame.type # "request"
  /\ \A frame \in Calls : /\ frame.type = "request" /\ frame.id \in 1..Len(script)
                          /\ frame.method = script[frame.id]
  /\ \A frame \in Errors : frame.type = "error" /\ frame.code \in {"malformed", "incompatible"}
  /\ \A last \in Nat : \A frame \in Responses(last) : frame.type = "response" /\ frame.id \in 0..last
  /\ Torn.type = "torn" /\ ServerHello.type = "server_hello"
BY DEF Greetings, Calls, Errors, Responses, Torn, ServerHello, ClientHello, Error, Request, Response

LEMMA MoreFrames ==
  ASSUME NEW n \in Nat, NEW m \in Nat, n <= m
  PROVE  Seq(ServerFrames(n)) \subseteq Seq(ServerFrames(m))
<1>1. ServerFrames(n) \subseteq ServerFrames(m)
  BY DEF ServerFrames, Responses
<1> QED BY <1>1, SeqMonotonic

LEMMA CutType ==
  ASSUME NEW S, Torn \in S, NEW frames \in Seq(S), NEW left \in Cut(frames)
  PROVE  left \in Seq(S)
<1>1. ASSUME NEW n \in 0..Len(frames) PROVE SubSeq(frames, 1, n) \in Seq(S)
  BY SubSeqProperties, ElementOfSeq
<1>2. CASE \E n \in 0..Len(frames) : left = SubSeq(frames, 1, n)
  BY <1>1, <1>2
<1>3. CASE \E n \in 1..Len(frames) : left = Append(SubSeq(frames, 1, n - 1), Torn)
  <2>1. PICK n \in 1..Len(frames) : left = Append(SubSeq(frames, 1, n - 1), Torn)
    BY <1>3
  <2>2. n - 1 \in 0..Len(frames)
    BY LenProperties
  <2> QED BY <1>1, <2>1, <2>2, AppendProperties
<1> QED BY <1>2, <1>3 DEF Cut

LEMMA CutEmpty == ASSUME NEW left \in Cut(<<>>) PROVE left = <<>>
<1>1. left \in {SubSeq(<<>>, 1, n) : n \in 0..0}
  BY EmptySeq DEF Cut
<1> QED BY <1>1, SubSeqEmpty

LEMMA TornIsFrame ==
  /\ Torn \in Greetings /\ Torn \in ClientFrames
  /\ \A last \in Nat : Torn \in ServerFrames(last)
BY DEF Greetings, ClientFrames, ServerFrames

\* What arrives when ssh is lost is still of the frames that were on their way.
LEMMA LoseLinkKeeps ==
  ASSUME SessionInv, LoseLink
  PROVE  SessionInv'
<1>1. /\ UNCHANGED <<worker, script, client, server>>
      /\ toServer' \in Cut(toServer) /\ toClient' \in Cut(toClient)
  BY DEF LoseLink
<1>2. Len(server.executed) \in Nat
  BY LenProperties DEF SessionInv, TypeInv, Servers
<1>3. toServer' \in Seq(ClientFrames) /\ toClient' \in Seq(ServerFrames(Len(server.executed)))
  BY <1>1, <1>2, CutType, TornIsFrame DEF SessionInv, TypeInv
<1>4. toServer \in Seq(Greetings) => toServer' \in Seq(Greetings)
  BY <1>1, CutType, TornIsFrame
<1>5. toServer = <<>> => toServer' = <<>>
  BY <1>1, CutEmpty
<1>6. TypeInv'
  BY <1>1, <1>3 DEF SessionInv, TypeInv, ClientFrames, Calls, Greetings, ServerFrames, Responses
<1>7. CallInv' /\ AgreedInv'
  BY <1>1, <1>4, <1>5 DEF SessionInv, CallInv, AgreedInv, Agreed
<1> QED BY <1>6, <1>7 DEF SessionInv

Failures == {"auth_failed", "malformed", "incompatible", "session_lost", "remote"}

LEMMA PcField ==
  ASSUME NEW c \in Clients, NEW pc \in {"request", "await", "finish", "done"}, NEW moved, moved = [c EXCEPT !.pc = pc]
  PROVE  /\ moved \in Clients /\ moved.pc = pc /\ moved.next = c.next
         /\ moved.protocol = c.protocol /\ moved.answers = c.answers /\ moved.result = c.result
BY DEF Clients

LEMMA NextField ==
  ASSUME NEW c \in Clients, NEW next \in Nat, NEW moved, moved = [c EXCEPT !.next = next]
  PROVE  /\ moved \in Clients /\ moved.pc = c.pc /\ moved.next = next
         /\ moved.protocol = c.protocol /\ moved.answers = c.answers /\ moved.result = c.result
BY DEF Clients

LEMMA ProtocolField ==
  ASSUME NEW c \in Clients, NEW protocol \in Nat, NEW moved, moved = [c EXCEPT !.protocol = protocol]
  PROVE  /\ moved \in Clients /\ moved.pc = c.pc /\ moved.next = c.next
         /\ moved.protocol = protocol /\ moved.answers = c.answers /\ moved.result = c.result
BY DEF Clients

LEMMA AnswersField ==
  ASSUME NEW c \in Clients, NEW answers \in Seq(Nat), NEW moved, moved = [c EXCEPT !.answers = answers]
  PROVE  /\ moved \in Clients /\ moved.pc = c.pc /\ moved.next = c.next
         /\ moved.protocol = c.protocol /\ moved.answers = answers /\ moved.result = c.result
BY DEF Clients

LEMMA ResultField ==
  ASSUME NEW c \in Clients, NEW result \in {"ok"} \cup Failures, NEW moved, moved = [c EXCEPT !.result = result]
  PROVE  /\ moved \in Clients /\ moved.pc = c.pc /\ moved.next = c.next
         /\ moved.protocol = c.protocol /\ moved.answers = c.answers /\ moved.result = result
BY DEF Clients, Failures

LEMMA DoneIs ==
  ASSUME TypeInv, NEW result \in {"ok"} \cup Failures, Done(result)
  PROVE  /\ client' \in Clients /\ client'.pc = "done" /\ client'.result = result
         /\ client'.protocol = client.protocol /\ client'.answers = client.answers
<1> DEFINE c == [client EXCEPT !.pc = "done"]
<1>1. c \in Clients /\ c.pc = "done" /\ c.protocol = client.protocol /\ c.answers = client.answers
  BY PcField DEF TypeInv
<1>2. client' = [c EXCEPT !.result = result]
  BY DEF Done
<1> HIDE DEF c
<1> QED BY <1>1, <1>2, ResultField

\* The frames and the versions, when worker, script and what was executed stay.
LEMMA TypesKept ==
  ASSUME TypeInv, UNCHANGED <<worker, script>>, client' \in Clients, server' \in Servers,
         server'.executed = server.executed, toServer' \in Seq(ClientFrames),
         toClient' \in Seq(ServerFrames(Len(server.executed)))
  PROVE  TypeInv'
<1>1. /\ ClientFrames' = ClientFrames
      /\ ServerFrames(Len(server.executed))' = ServerFrames(Len(server.executed))
  BY DEF ClientFrames, Calls, Greetings, ServerFrames, Responses
<1> QED BY <1>1 DEF TypeInv

LEMMA AbortKeeps ==
  ASSUME SessionInv, NEW result \in Failures, NEW frames \in Seq(ClientFrames),
         Abort(result, frames), UNCHANGED <<worker, script, server>>,
         toServer \in Seq(Greetings) => frames \in Seq(Greetings)
  PROVE  SessionInv'
<1>1. /\ client' \in Clients /\ client'.pc = "done" /\ client'.result = result
      /\ client'.protocol = client.protocol /\ client'.answers = client.answers
  BY DoneIs DEF Abort, SessionInv
<1>2. toServer' \in Cut(frames) \cup {toServer} /\ toClient' \in {<<>>, toClient}
  BY DEF Abort
<1>3. toServer' \in Seq(ClientFrames) /\ (toServer \in Seq(Greetings) => toServer' \in Seq(Greetings))
  BY <1>2, CutType, TornIsFrame DEF SessionInv, TypeInv
<1>4. TypeInv'
  BY <1>1, <1>2, <1>3, TypesKept, EmptySeq DEF SessionInv, TypeInv
<1>5. CallInv'
  BY <1>1 DEF SessionInv, CallInv, Failures
<1>6. AgreedInv'
  BY <1>1, <1>3, EmptySeq DEF SessionInv, AgreedInv, Agreed
<1> QED BY <1>4, <1>5, <1>6 DEF SessionInv

LEMMA HighestIs ==
  ASSUME worker \in Workers, Intersection(worker) # {}
  PROVE  /\ HighestCommon(worker) \in Nat /\ HighestCommon(worker) \in ProtocolMin..ProtocolMax
         /\ HighestCommon(worker) \in worker.min..worker.max
         /\ HighestCommon(worker) + 1 \notin Intersection(worker)
<1> DEFINE top == IF ProtocolMax <= worker.max THEN ProtocolMax ELSE worker.max
           Highest(x) == x \in Intersection(worker) /\ \A y \in Intersection(worker) : x >= y
<1>1. ProtocolMin \in Nat /\ ProtocolMax \in Nat /\ worker.min \in Nat /\ worker.max \in Nat
  BY SessionAssumption
<1>2. Highest(top)
  BY <1>1 DEF Intersection
<1>3. HighestCommon(worker) = CHOOSE x : Highest(x)
  BY DEF HighestCommon, Max
<1>4. Highest(HighestCommon(worker))
  <2> HIDE DEF top, Highest
  <2> QED BY <1>2, <1>3
<1>5. \A x \in Intersection(worker) : x \in Nat /\ x \in ProtocolMin..ProtocolMax /\ x \in worker.min..worker.max
  BY <1>1 DEF Intersection
<1> QED BY <1>4, <1>5

\* ReceiveHello.
LEMMA ReceiveHelloKeeps ==
  ASSUME SessionInv, ReceiveHello
  PROVE  SessionInv'
<1>1. UNCHANGED <<worker, script, server>> /\ client.pc = "hello"
  BY DEF ReceiveHello
<1>2. toServer = <<>> /\ toServer \in Seq(Greetings) /\ toServer \in Seq(ClientFrames)
  BY <1>1, EmptySeq DEF SessionInv, AgreedInv
<1>3. ASSUME NEW result \in Failures, Abort(result, toServer) PROVE SessionInv'
  BY <1>1, <1>2, <1>3, AbortKeeps
<1>4. CASE Abort("incompatible", Append(toServer, Error(HelloId, "incompatible")))
  <2> DEFINE frames == Append(toServer, Error(HelloId, "incompatible"))
  <2>1. Error(HelloId, "incompatible") \in Greetings /\ Error(HelloId, "incompatible") \in ClientFrames
    BY DEF Greetings, ClientFrames
  <2>2. frames \in Seq(Greetings) /\ frames \in Seq(ClientFrames)
    BY <1>2, <2>1, AppendProperties
  <2> HIDE DEF frames
  <2> QED BY <1>1, <1>4, <2>2, AbortKeeps DEF Failures, frames
<1>5. CASE /\ Compatible /\ toClient # <<>> /\ toClient' = Tail(toClient)
           /\ client' = [client EXCEPT !.pc = "request", !.protocol = HighestCommon(worker)]
           /\ toServer' = Append(toServer, ClientHello(HighestCommon(worker)))
  <2> DEFINE protocol == HighestCommon(worker)
             c == [client EXCEPT !.pc = "request"]
  <2>1. /\ protocol \in Nat /\ protocol \in ProtocolMin..ProtocolMax
        /\ protocol \in worker.min..worker.max /\ protocol + 1 \notin Intersection(worker)
    BY <1>5, HighestIs DEF Compatible, SessionInv, TypeInv
  <2>2. /\ c \in Clients /\ c.pc = "request" /\ c.next = client.next /\ c.answers = client.answers
        /\ c.result = client.result
    BY PcField DEF SessionInv, TypeInv
  <2>3. client' = [c EXCEPT !.protocol = protocol]
    BY <1>5
  <2> HIDE DEF c
  <2>4. /\ client' \in Clients /\ client'.pc = "request" /\ client'.next = client.next
        /\ client'.answers = client.answers /\ client'.protocol = protocol
        /\ client'.result = client.result
    <3> HIDE DEF protocol
    <3> QED BY <2>1, <2>2, <2>3, ProtocolField
  <2>5. ClientHello(protocol) \in ClientFrames
    BY <2>1 DEF Greetings, ClientFrames
  <2>6. toServer' \in Seq(ClientFrames)
    BY <1>2, <1>5, <2>5, AppendProperties
  <2>7. toClient' \in Seq(ServerFrames(Len(server.executed)))
    BY <1>5, HeadTailProperties DEF SessionInv, TypeInv
  <2>8. TypeInv'
    BY <1>1, <2>4, <2>6, <2>7, TypesKept DEF SessionInv, TypeInv
  <2>9. Agreed'
    BY <1>1, <1>5, <2>1, <2>4 DEF Agreed, Compatible, Intersection
  <2>10. CallInv'
    BY <1>1, <2>4 DEF SessionInv, CallInv
  <2> QED BY <2>4, <2>8, <2>9, <2>10 DEF SessionInv, AgreedInv
<1> QED BY <1>3, <1>4, <1>5, Zenon DEF ReceiveHello, Failures

LEMMA SendRequestKeeps ==
  ASSUME SessionInv, SendRequest
  PROVE  SessionInv'
<1>1. /\ UNCHANGED <<worker, script, server>> /\ client.pc = "request"
      /\ Len(client.answers) + 1 <= Len(script)
  BY DEF SendRequest, NextCall
<1>2. CASE Abort("session_lost", toServer)
  BY <1>1, <1>2, AbortKeeps DEF Failures, SessionInv, TypeInv
<1>3. CASE /\ client' = [client EXCEPT !.pc = "await", !.next = @ + 1]
           /\ toServer' = Append(toServer, Request(client.next, script[NextCall]))
           /\ UNCHANGED toClient
  <2> DEFINE c == [client EXCEPT !.pc = "await"]
             n == client.next
  <2>1. /\ c \in Clients /\ c.pc = "await" /\ c.next = n /\ c.answers = client.answers
        /\ c.result = client.result /\ c.protocol = client.protocol
    BY PcField DEF SessionInv, TypeInv
  <2>2. /\ n \in Nat /\ n = Len(client.answers) + 1 /\ client.answers \in Seq(Nat)
        /\ Len(client.answers) \in Nat /\ Len(script) \in Nat
    BY <1>1, LenProperties DEF SessionInv, CallInv, TypeInv, Clients
  <2>3. client' = [c EXCEPT !.next = n + 1]
    BY <1>3
  <2> HIDE DEF c
  <2>4. /\ client' \in Clients /\ client'.pc = "await" /\ client'.next = n + 1
        /\ client'.answers = client.answers /\ client'.protocol = client.protocol
        /\ client'.result = client.result
    <3>1. n + 1 \in Nat
      BY <2>2
    <3> HIDE DEF n
    <3> QED BY <2>1, <2>3, <3>1, NextField
  <2>5. n \in 1..Len(script) /\ toServer' = Append(toServer, Request(n, script[n]))
    BY <1>1, <1>3, <2>2 DEF NextCall
  <2>6. Request(n, script[n]) \in ClientFrames
    <3> HIDE DEF n
    <3> QED BY <2>5 DEF ClientFrames, Calls
  <2>7. toServer' \in Seq(ClientFrames)
    BY <2>5, <2>6, AppendProperties DEF SessionInv, TypeInv
  <2>8. TypeInv'
    BY <1>1, <1>3, <2>4, <2>7, TypesKept DEF SessionInv, TypeInv
  <2>9. CallInv'
    BY <1>1, <2>2, <2>4 DEF SessionInv, CallInv
  <2>10. AgreedInv'
    BY <1>1, <2>4 DEF SessionInv, AgreedInv, Agreed
  <2> QED BY <2>8, <2>9, <2>10 DEF SessionInv
<1> QED BY <1>2, <1>3, Zenon DEF SendRequest

\* ReceiveResponse.
LEMMA ReceiveResponseKeeps ==
  ASSUME SessionInv, ReceiveResponse
  PROVE  SessionInv'
<1>1. UNCHANGED <<worker, script, server>> /\ client.pc = "await"
  BY DEF ReceiveResponse
<1>2. ASSUME NEW result \in Failures, Abort(result, toServer) PROVE SessionInv'
  BY <1>1, <1>2, AbortKeeps DEF SessionInv, TypeInv
<1>3. CASE ClientEof /\ Abort("session_lost", toServer)
  BY <1>2, <1>3 DEF Failures
<1>4. CASE toClient # <<>>
  <2> DEFINE frame == Head(toClient)
             last == Len(server.executed)
  <2>1. /\ frame \in ServerFrames(last) /\ Tail(toClient) \in Seq(ServerFrames(last))
        /\ last \in Nat
    BY <1>4, HeadTailProperties, LenProperties DEF SessionInv, TypeInv, Servers
  <2>2. frame.type = "error" => frame.code \in Failures
    BY <2>1, FrameKinds DEF ServerFrames, Failures
  <2>3. frame.type = "response" => frame.id \in 0..last
    BY <2>1, FrameKinds DEF ServerFrames
  <2>4. CASE frame.type = "response" /\ Awaited(frame) /\ Answered
    <3>1. CASE Abort("malformed", toServer)
      BY <1>2, <3>1 DEF Failures
    <3>2. CASE /\ client' = [client EXCEPT !.pc = "request", !.answers = Append(@, frame.id)]
               /\ toClient' = Tail(toClient) /\ UNCHANGED toServer
      <4> DEFINE c == [client EXCEPT !.pc = "request"]
                 answers == Append(client.answers, frame.id)
      <4>1. /\ c \in Clients /\ c.pc = "request" /\ c.next = client.next
            /\ c.answers = client.answers /\ c.result = client.result /\ c.protocol = client.protocol
        BY PcField DEF SessionInv, TypeInv
      <4>2. client' = [c EXCEPT !.answers = answers]
        BY <3>2
      <4> HIDE DEF c
      <4>3. /\ frame.id \in Nat /\ frame.id <= last /\ frame.id = client.next - 1
            /\ client.next = Len(client.answers) + 2 /\ client.answers \in Seq(Nat)
            /\ Len(client.answers) \in Nat
        <5> HIDE DEF frame
        <5>1. client.answers \in Seq(Nat) /\ Len(client.answers) \in Nat
          BY LenProperties DEF SessionInv, TypeInv, Clients
        <5> QED BY <1>1, <2>1, <2>3, <2>4, <5>1 DEF Awaited, SessionInv, CallInv
      <4> HIDE DEF frame
      <4>4. /\ answers \in Seq(Nat) /\ Len(answers) = Len(client.answers) + 1
            /\ \A n \in 1..Len(client.answers) : answers[n] = client.answers[n]
            /\ answers[Len(client.answers) + 1] = frame.id
        BY <4>3, AppendProperties
      <4> HIDE DEF answers
      <4>5. /\ client' \in Clients /\ client'.pc = "request" /\ client'.next = client.next
            /\ client'.answers = answers /\ client'.protocol = client.protocol
            /\ client'.result = client.result
        BY <4>1, <4>2, <4>4, AnswersField
      <4>6. TypeInv'
        BY <1>1, <2>1, <3>2, <4>5, TypesKept DEF SessionInv, TypeInv
      <4>7. CallInv'
        <5> HIDE DEF last
        <5>0. \A n \in 1..Len(client.answers) : client.answers[n] = n
          BY DEF SessionInv, CallInv
        <5>1. Len(answers) <= last /\ \A n \in 1..Len(answers) : answers[n] = n
          <6>1. frame.id = Len(client.answers) + 1
            BY <4>3
          <6>2. Len(answers) <= last
            BY <4>3, <4>4, <6>1
          <6>3. ASSUME NEW n \in 1..Len(answers) PROVE answers[n] = n
            <7>1. n \in 1..Len(client.answers) \/ n = Len(client.answers) + 1
              BY <4>3, <4>4
            <7> QED BY <4>4, <5>0, <6>1, <7>1
          <6> QED BY <6>2, <6>3
        <5>2. client.result # "ok" \/ Len(answers) >= Len(script)
          BY <4>3, <4>4, LenProperties DEF SessionInv, CallInv, TypeInv
        <5> QED BY <1>1, <4>3, <4>4, <4>5, <5>1, <5>2 DEF SessionInv, CallInv, last
      <4>8. AgreedInv'
        BY <1>1, <3>2, <4>5 DEF SessionInv, AgreedInv, Agreed
      <4> QED BY <4>6, <4>7, <4>8 DEF SessionInv
    <3> QED BY <2>4, <3>1, <3>2, Zenon DEF Answered
  <2>5. \/ \E result \in Failures : Abort(result, toServer)
        \/ frame.type = "response" /\ Awaited(frame) /\ Answered
    <3>1. \/ ClientEof /\ Abort("session_lost", toServer)
          \/ IF ~Awaited(frame) THEN Abort("malformed", toServer)
             ELSE IF frame.type = "error" THEN Abort(frame.code, toServer)
             ELSE IF frame.ok THEN Answered ELSE CallFailed
      BY Zenon DEF ReceiveResponse
    <3>2. Awaited(frame) => frame.type \in {"response", "error"}
      BY DEF Awaited
    <3> HIDE DEF frame
    <3> QED BY <2>2, <3>1, <3>2 DEF CallFailed, Failures
  <2> QED BY <1>2, <2>4, <2>5
<1> QED BY <1>3, <1>4 DEF ReceiveResponse

\* finish, and the end of ssh.
LEMMA FinishKeeps ==
  ASSUME SessionInv, Finish \/ Reaped
  PROVE  SessionInv'
<1>1. UNCHANGED <<worker, script, server, toServer, toClient>>
  BY DEF Finish, Reaped
<1>2. ASSUME client' \in Clients, client'.answers = client.answers, client'.protocol = client.protocol,
             client'.pc \in {"finish", "done"}, client.pc \in {"request", "finish"},
             client'.pc = "finish" \/ client'.result = "ok" => Len(client.answers) >= Len(script)
      PROVE  SessionInv'
  <2>1. TypeInv'
    BY <1>1, <1>2, TypesKept DEF SessionInv, TypeInv
  <2>2. CallInv' /\ AgreedInv'
    BY <1>1, <1>2 DEF SessionInv, CallInv, AgreedInv, Agreed
  <2> QED BY <2>1, <2>2 DEF SessionInv
<1>3. CASE Finish
  <2>1. client.pc = "request" /\ client' = [client EXCEPT !.pc = "finish"]
        /\ Len(client.answers) + 1 > Len(script)
    BY <1>3 DEF Finish, NextCall
  <2>2. Len(client.answers) \in Nat /\ Len(script) \in Nat
    BY LenProperties DEF SessionInv, TypeInv, Clients
  <2>3. /\ client' \in Clients /\ client'.pc = "finish" /\ client'.answers = client.answers
        /\ client'.protocol = client.protocol
    BY <2>1, PcField DEF SessionInv, TypeInv
  <2> QED BY <1>2, <2>1, <2>2, <2>3
<1>4. CASE Reaped
  <2>1. PICK result \in {"ok"} \cup Failures : Done(result)
    BY <1>4 DEF Reaped, Failures
  <2>2. /\ client' \in Clients /\ client'.pc = "done" /\ client'.result = result
        /\ client'.protocol = client.protocol /\ client'.answers = client.answers
    BY <2>1, DoneIs DEF SessionInv
  <2>3. client.pc = "finish"
    BY <1>4 DEF Reaped
  <2>4. Len(client.answers) >= Len(script)
    BY <2>3 DEF SessionInv, CallInv
  <2> QED BY <1>2, <2>2, <2>3, <2>4
<1> QED BY <1>3, <1>4

(***************************************************************************)
(* The server.                                                             *)
(***************************************************************************)
Taken(frames) == {frames} \cup IF frames = <<>> THEN {} ELSE {Tail(frames)}

LEMMA TakenType ==
  ASSUME NEW S, NEW frames \in Seq(S), NEW left \in Taken(frames)
  PROVE  left \in Seq(S)
BY HeadTailProperties DEF Taken

LEMMA ServerKeeps ==
  ASSUME SessionInv, UNCHANGED <<worker, script, client>>, server' \in Servers,
         server'.executed = server.executed, toServer' \in Taken(toServer),
         toClient' \in Seq(ServerFrames(Len(server.executed)))
  PROVE  SessionInv'
<1>1. /\ toServer' \in Seq(ClientFrames)
      /\ toServer \in Seq(Greetings) => toServer' \in Seq(Greetings)
      /\ toServer = <<>> => toServer' = <<>>
  BY TakenType DEF SessionInv, TypeInv, Taken
<1>2. TypeInv'
  BY <1>1, TypesKept DEF SessionInv, TypeInv
<1>3. CallInv' /\ AgreedInv'
  BY <1>1 DEF SessionInv, CallInv, AgreedInv, Agreed
<1> QED BY <1>2, <1>3 DEF SessionInv

LEMMA ServerFields ==
  ASSUME NEW s \in Servers, NEW moved, NEW step \in {"hello", "request", "run"}, NEW ok \in BOOLEAN,
         \/ moved = [s EXCEPT !.pc = step]
         \/ moved = [s EXCEPT !.pc = "ended", !.ok = ok]
  PROVE  moved \in Servers /\ moved.executed = s.executed
<1>1. CASE moved = [s EXCEPT !.pc = step]
  BY <1>1 DEF Servers
<1>2. CASE moved = [s EXCEPT !.pc = "ended", !.ok = ok]
  <2> DEFINE ended == [s EXCEPT !.pc = "ended"]
  <2>1. ended \in Servers /\ ended.executed = s.executed
    BY DEF Servers
  <2>2. moved = [ended EXCEPT !.ok = ok]
    BY <1>2
  <2> HIDE DEF ended
  <2> QED BY <2>1, <2>2 DEF Servers
<1> QED BY <1>1, <1>2

LEMMA EndsIs ==
  ASSUME TypeInv, NEW ok \in BOOLEAN, ServerEnds(ok)
  PROVE  server' \in Servers /\ server'.executed = server.executed
BY ServerFields, Zenon DEF TypeInv, ServerEnds

LEMMA StepIs ==
  ASSUME TypeInv, NEW step \in {"hello", "request", "run"}, server' = [server EXCEPT !.pc = step]
  PROVE  server' \in Servers /\ server'.executed = server.executed
BY ServerFields, Zenon DEF TypeInv

LEMMA WriteIs ==
  ASSUME TypeInv, NEW frame \in ServerFrames(Len(server.executed)),
         NEW step \in {"hello", "request"}, Write(frame, step)
  PROVE  /\ server' \in Servers /\ server'.executed = server.executed
         /\ toClient' \in Seq(ServerFrames(Len(server.executed)))
<1>1. CASE ServerEnds(FALSE) /\ UNCHANGED toClient
  BY <1>1, EndsIs DEF TypeInv
<1>2. CASE server' = [server EXCEPT !.pc = step] /\ toClient' = Append(toClient, frame)
  BY <1>2, StepIs, AppendProperties DEF TypeInv
<1> QED BY <1>1, <1>2 DEF Write

LEMMA FailureIs ==
  ASSUME TypeInv, NEW id \in Nat, NEW code \in {"malformed", "incompatible"}, ProtocolFailure(id, code)
  PROVE  /\ server' \in Servers /\ server'.executed = server.executed
         /\ toClient' \in Seq(ServerFrames(Len(server.executed)))
<1>1. Error(id, code) \in ServerFrames(Len(server.executed))
  BY DEF ServerFrames, Errors
<1>2. toClient' \in {toClient, Append(toClient, Error(id, code))}
  BY DEF ProtocolFailure
<1> QED BY <1>1, <1>2, EndsIs, AppendProperties DEF TypeInv, ProtocolFailure

LEMMA ServeKeeps ==
  ASSUME SessionInv, Serve
  PROVE  SessionInv'
<1>1. UNCHANGED <<worker, script, client, toServer>> /\ toServer' \in Taken(toServer)
  BY DEF Serve, Taken
<1>2. ServerHello \in ServerFrames(Len(server.executed))
  BY DEF ServerFrames
<1>3. CASE Write(ServerHello, "hello")
  BY <1>1, <1>2, <1>3, WriteIs, ServerKeeps DEF SessionInv
<1>4. CASE ServerEnds(FALSE) /\ UNCHANGED toClient
  BY <1>1, <1>4, EndsIs, ServerKeeps DEF SessionInv, TypeInv
<1> QED BY <1>3, <1>4 DEF Serve

LEMMA ReadClientHelloKeeps ==
  ASSUME SessionInv, ReadClientHello
  PROVE  SessionInv'
<1>1. UNCHANGED <<worker, script, client>> /\ toServer' \in Taken(toServer)
  BY DEF ReadClientHello, Taken
<1>2. \/ \E ok \in BOOLEAN : ServerEnds(ok) /\ UNCHANGED toClient
      \/ \E code \in {"malformed", "incompatible"} : ProtocolFailure(HelloId, code)
      \/ server' = [server EXCEPT !.pc = "request"] /\ UNCHANGED toClient
  BY Zenon DEF ReadClientHello
<1>3. HelloId \in Nat
  BY DEF HelloId
<1> QED BY <1>1, <1>2, <1>3, EndsIs, FailureIs, StepIs, ServerKeeps DEF SessionInv, TypeInv

LEMMA RespondKeeps ==
  ASSUME SessionInv, Respond
  PROVE  SessionInv'
<1>1. UNCHANGED <<worker, script, client, toServer>> /\ toServer' \in Taken(toServer)
  BY DEF Respond, Taken
<1>2. PICK ok \in BOOLEAN : Write(Response(Len(server.executed), ok), "request")
  BY DEF Respond
<1>3. Len(server.executed) \in Nat
  BY LenProperties DEF SessionInv, TypeInv, Servers
<1>4. Response(Len(server.executed), ok) \in ServerFrames(Len(server.executed))
  BY <1>3 DEF ServerFrames, Responses
<1> QED BY <1>1, <1>2, <1>4, WriteIs, ServerKeeps DEF SessionInv

\* A request that is taken up is the next of the script.
LEMMA ExecutedKeeps ==
  ASSUME SessionInv, UNCHANGED <<worker, script, client, toClient>>,
         toServer # <<>>, toServer' = Tail(toServer), Head(toServer).type = "request",
         Head(toServer).id = Len(server.executed) + 1,
         server' = [server EXCEPT !.pc = "run", !.executed = Append(@, Head(toServer).method)]
  PROVE  SessionInv'
<1> DEFINE frame == Head(toServer)
           executed == Append(server.executed, frame.method)
           s == [server EXCEPT !.pc = "run"]
           last == Len(server.executed)
<1>1. /\ frame \in ClientFrames /\ toServer' \in Seq(ClientFrames)
      /\ toServer \in Seq(Greetings) => frame \in Greetings
  BY HeadTailProperties DEF SessionInv, TypeInv
<1>2. frame \in Calls /\ toServer \notin Seq(Greetings)
  BY <1>1, FrameKinds DEF ClientFrames
<1>3. /\ script \in Seq(Methods) /\ server.executed \in Seq(Methods) /\ last \in Nat
      /\ Len(script) \in Nat
  BY LenProperties DEF SessionInv, TypeInv, Servers
<1>4. frame.id \in 1..Len(script) /\ frame.method = script[frame.id] /\ frame.id = last + 1
  BY <1>2, FrameKinds
<1> HIDE DEF frame
<1>5. frame.method \in Methods /\ last + 1 <= Len(script) /\ frame.method = script[last + 1]
  BY <1>3, <1>4, ElementOfSeq
<1>6. /\ executed \in Seq(Methods) /\ Len(executed) = last + 1 /\ executed # <<>>
      /\ \A n \in 1..last : executed[n] = server.executed[n]
      /\ executed[last + 1] = frame.method
  BY <1>3, <1>5, AppendProperties
<1>7. s \in Servers /\ s.executed = server.executed
  BY DEF SessionInv, TypeInv, Servers
<1>8. server' = [s EXCEPT !.executed = executed]
  BY DEF frame
<1> HIDE DEF s, executed
<1>9. server' \in Servers /\ server'.executed = executed
  BY <1>6, <1>7, <1>8 DEF Servers
<1>10. toClient' \in Seq(ServerFrames(last + 1))
  <2>1. last + 1 \in Nat /\ last <= last + 1
    BY <1>3
  <2>2. toClient \in Seq(ServerFrames(last))
    BY DEF SessionInv, TypeInv
  <2> HIDE DEF last
  <2> QED BY <1>3, <2>1, <2>2, MoreFrames
<1>11. TypeInv'
  <2>1. /\ ClientFrames' = ClientFrames
        /\ ServerFrames(Len(server.executed))' = ServerFrames(last + 1)
    BY <1>6, <1>9 DEF ClientFrames, Calls, Greetings, ServerFrames, Responses
  <2> QED BY <1>1, <1>9, <1>10, <2>1 DEF SessionInv, TypeInv
<1>12. CallInv'
  <2>1. \A n \in 1..last : server.executed[n] = script[n]
    BY DEF SessionInv, CallInv
  <2>2. Len(executed) <= Len(script) /\ \A n \in 1..Len(executed) : executed[n] = script[n]
    <3> HIDE DEF last
    <3>1. ASSUME NEW n \in 1..Len(executed) PROVE executed[n] = script[n]
      <4>1. n \in 1..last \/ n = last + 1
        BY <1>3, <1>6
      <4> QED BY <1>5, <1>6, <2>1, <4>1
    <3> QED BY <1>5, <1>6, <3>1
  <2>3. Len(client.answers) \in Nat /\ Len(client.answers) <= last
    BY LenProperties DEF SessionInv, CallInv, TypeInv, Clients
  <2>4. Len(client.answers) <= Len(executed)
    <3> HIDE DEF last
    <3> QED BY <1>3, <1>6, <2>3
  <2> QED BY <1>9, <2>2, <2>4 DEF SessionInv, CallInv
<1>13. AgreedInv'
  BY <1>2 DEF SessionInv, AgreedInv, Agreed
<1> QED BY <1>11, <1>12, <1>13 DEF SessionInv

LEMMA ReadRequestKeeps ==
  ASSUME SessionInv, ReadRequest
  PROVE  SessionInv'
<1> DEFINE frame == Head(toServer)
<1>1. UNCHANGED <<worker, script, client>> /\ toServer' \in Taken(toServer)
  BY DEF ReadRequest, Taken
<1>2. \/ ServerEnds(TRUE) /\ UNCHANGED toClient
      \/ ProtocolFailure(HelloId, "malformed")
      \/ frame.type = "request" /\ toServer # <<>> /\ ProtocolFailure(frame.id, "malformed")
      \/ /\ toServer # <<>> /\ toServer' = Tail(toServer) /\ frame.type = "request"
         /\ frame.id = Len(server.executed) + 1
         /\ server' = [server EXCEPT !.pc = "run", !.executed = Append(@, frame.method)]
         /\ UNCHANGED toClient
  BY Zenon DEF ReadRequest
<1>3. frame.type = "request" /\ toServer # <<>> => frame.id \in Nat
  <2>1. toServer # <<>> => frame \in ClientFrames
    BY HeadTailProperties DEF SessionInv, TypeInv
  <2>2. Len(script) \in Nat
    BY LenProperties DEF SessionInv, TypeInv
  <2> HIDE DEF frame
  <2> QED BY <2>1, <2>2, FrameKinds DEF ClientFrames
<1>4. HelloId \in Nat
  BY DEF HelloId
<1>5. CASE /\ toServer # <<>> /\ toServer' = Tail(toServer) /\ frame.type = "request"
           /\ frame.id = Len(server.executed) + 1
           /\ server' = [server EXCEPT !.pc = "run", !.executed = Append(@, frame.method)]
           /\ UNCHANGED toClient
  BY <1>1, <1>5, ExecutedKeeps, Zenon
<1>6. CASE \/ ProtocolFailure(HelloId, "malformed")
           \/ frame.type = "request" /\ toServer # <<>> /\ ProtocolFailure(frame.id, "malformed")
  <2>1. \E id \in Nat : ProtocolFailure(id, "malformed")
    BY <1>3, <1>4, <1>6, Zenon
  <2> QED BY <1>1, <2>1, FailureIs, ServerKeeps DEF SessionInv
<1>7. CASE ServerEnds(TRUE) /\ UNCHANGED toClient
  BY <1>1, <1>7, EndsIs, ServerKeeps DEF SessionInv, TypeInv
<1> QED BY <1>2, <1>5, <1>6, <1>7, Zenon

LEMMA SessionStep ==
  ASSUME SessionInv, [Next]_vars
  PROVE  SessionInv'
<1>1. ASSUME UNCHANGED <<worker, script, client, server, toServer, toClient>> PROVE SessionInv'
  <2>1. toServer' \in Taken(toServer)
    BY <1>1 DEF Taken
  <2> QED BY <1>1, <2>1, ServerKeeps DEF SessionInv, TypeInv
<1>2. CASE Exec \/ Outside \/ Terminated \/ UNCHANGED vars
  BY <1>1, <1>2 DEF Exec, Outside, Terminated, vars, rpcVars
<1> QED BY <1>2, LoseLinkKeeps, ReceiveHelloKeeps, SendRequestKeeps, ReceiveResponseKeeps,
           FinishKeeps, ServeKeeps, ReadClientHelloKeeps, ReadRequestKeeps, RespondKeeps
        DEF Next, Client, Server

LEMMA ExecStep ==
  ASSUME ExecInv, [Next]_vars
  PROVE  ExecInv'
<1>1. ASSUME UNCHANGED execVars PROVE ExecInv'
  BY <1>1 DEF execVars, ExecInv, ExecType, Kept
<1>2. CASE Exec
  BY <1>2, RunExecKeeps, CaptureKeeps DEF Exec
<1>3. CASE Outside
  BY <1>3, CommandKeeps DEF Outside
<1>4. CASE ReadRequest
  <2>1. UNCHANGED execVars \/ Spawn
    BY <1>4, Zenon DEF ReadRequest
  <2> QED BY <1>1, <2>1, SpawnKeeps
<1>5. CASE Client \/ Serve \/ ReadClientHello \/ Respond \/ LoseLink \/ Terminated \/ UNCHANGED vars
  <2>1. UNCHANGED execVars
    BY <1>5, Zenon DEF Client, ReceiveHello, SendRequest, ReceiveResponse, Finish, Reaped, Serve,
                       ReadClientHello, Respond, LoseLink, Terminated, vars
  <2> QED BY <1>1, <2>1
<1> QED BY <1>2, <1>3, <1>4, <1>5 DEF Next, Server

(***************************************************************************)
(* The theorems.                                                           *)
(***************************************************************************)
LEMMA InitSession == Init => SessionInv
<1> SUFFICES ASSUME Init PROVE SessionInv
  OBVIOUS
<1>1. /\ client.pc = "hello" /\ client.next = 1 /\ client.answers = <<>> /\ client.result = None
      /\ server.executed = <<>> /\ toServer = <<>> /\ toClient = <<>>
  BY DEF Init
<1>2. client \in Clients /\ server \in Servers
  BY EmptySeq DEF Init, Clients, Servers
<1>3. worker \in Workers /\ script \in Seq(Methods)
  BY SessionAssumption DEF Init
<1>4. TypeInv
  BY <1>1, <1>2, <1>3, EmptySeq DEF TypeInv
<1>5. Len(<<>>) = 0 /\ Len(script) \in Nat
  BY <1>3, EmptySeq, LenProperties
<1>6. CallInv
  BY <1>1, <1>5, SessionAssumption DEF CallInv
<1>7. AgreedInv
  BY <1>1, EmptySeq DEF AgreedInv
<1> QED BY <1>4, <1>6, <1>7 DEF SessionInv

LEMMA InitExec == Init => ExecInv
<1> SUFFICES ASSUME Init PROVE ExecInv
  OBVIOUS
<1>1. ExecIdle
  BY DEF Init
<1>2. ExecType
  BY <1>1 DEF ExecIdle, ExecType, ChildStates, Unspawned, Threads, Reading
<1>3. \A s \in Streams : Kept(s) /\ capture[s].state = "reading" /\ writers[s] = {}
  BY <1>1 DEF ExecIdle, Kept, Reading
<1>4. child.state = "none" /\ handler = [pc |-> "idle", answer |-> None]
  BY <1>1 DEF ExecIdle, Unspawned
<1>5. handler \in Handlers /\ handler.pc = "idle" /\ handler.answer # "data"
  BY <1>4, SessionAssumption DEF Handlers
<1> QED BY <1>2, <1>3, <1>4, <1>5 DEF ExecInv

LEMMA SessionHolds ==
  ASSUME SessionInv
  PROVE  CallsAtMostOnce /\ OnlyCompatible
<1>1. /\ Len(server.executed) \in Nat /\ Len(script) \in Nat /\ Len(client.answers) \in Nat
      /\ server.executed \in Seq(Methods) /\ script \in Seq(Methods) /\ client.answers \in Seq(Nat)
      /\ DOMAIN client.answers = 1..Len(client.answers)
  BY LenProperties DEF SessionInv, TypeInv, Servers, Clients
<1>2. /\ Len(server.executed) <= Len(script)
      /\ \A n \in 1..Len(server.executed) : server.executed[n] = script[n]
      /\ Len(client.answers) <= Len(server.executed)
      /\ \A n \in 1..Len(client.answers) : client.answers[n] = n
      /\ client.result = "ok" => Len(client.answers) >= Len(script)
  BY DEF SessionInv, CallInv
<1>3. IsPrefix(server.executed, script)
  <2> DEFINE k == Len(server.executed)
             s == SubSeq(server.executed, 1, k)
             t == SubSeq(script, 1, k)
  <2>1. /\ s \in Seq(Methods) /\ t \in Seq(Methods) /\ Len(s) = k /\ Len(t) = k
        /\ \A n \in 1..k : s[n] = server.executed[n] /\ t[n] = script[n]
    <3>1. \A n \in 1..k : server.executed[n] \in Methods /\ script[n] \in Methods
      BY <1>1, <1>2, ElementOfSeq
    <3> HIDE DEF s, t
    <3>2. s \in Seq(Methods) /\ Len(s) = k /\ \A n \in 1..k : s[n] = server.executed[n]
      BY <1>1, <3>1, SubSeqProperties DEF s
    <3>3. t \in Seq(Methods) /\ Len(t) = k /\ \A n \in 1..k : t[n] = script[n]
      BY <1>1, <3>1, SubSeqProperties DEF t
    <3> QED BY <3>2, <3>3
  <2>2. s = t
    <3> HIDE DEF s, t
    <3> QED BY <1>2, <2>1, SeqEqual
  <2> QED BY <1>2, <2>2 DEF IsPrefix
<1>4. client.answers = [n \in DOMAIN client.answers |-> n]
  <2> DEFINE answers == client.answers
             last == Len(client.answers)
  <2>1. /\ answers \in [1..last -> Nat] /\ DOMAIN answers = 1..last
        /\ \A n \in 1..last : answers[n] = n
    BY <1>1, <1>2, LenProperties
  <2> HIDE DEF answers, last
  <2>2. answers = [n \in DOMAIN answers |-> n]
    BY <2>1
  <2> QED BY <2>2 DEF answers
<1>5. ASSUME client.result = "ok"
      PROVE  server.executed = script /\ Len(client.answers) = Len(script)
  <2>1. Len(client.answers) = Len(script) /\ Len(server.executed) = Len(script)
    BY <1>1, <1>2, <1>5
  <2> QED BY <1>1, <1>2, <2>1, SeqEqual
<1>6. CallsAtMostOnce
  BY <1>2, <1>3, <1>4, <1>5 DEF CallsAtMostOnce
<1>7. OnlyCompatible
  BY DEF SessionInv, AgreedInv, OnlyCompatible, Agreed
<1> QED BY <1>6, <1>7

\* The worker executes a prefix of the script, each call at most once and in order; the
\* client takes the answers of just these calls, in their order; a command that reports
\* success has executed and answered all: whatever is lost, torn or refused on the way.
THEOREM CalledAtMostOnce == Spec => []CallsAtMostOnce
<1>1. Init => SessionInv
  BY InitSession
<1>2. SessionInv /\ [Next]_vars => SessionInv'
  BY SessionStep
<1>3. SessionInv => CallsAtMostOnce
  BY SessionHolds
<1> QED BY <1>1, <1>2, <1>3, PTL DEF Spec

\* Nothing is executed but under the newest version both releases speak, and on a
\* worker whose manifest the controller can read.
THEOREM ExecutedCompatible == Spec => []OnlyCompatible
<1>1. Init => SessionInv
  BY InitSession
<1>2. SessionInv /\ [Next]_vars => SessionInv'
  BY SessionStep
<1>3. SessionInv => OnlyCompatible
  BY SessionHolds
<1> QED BY <1>1, <1>2, <1>3, PTL DEF Spec

\* An answer of exec that holds output holds all that was ever written, whatever the
\* limit and however many processes still hold the streams, and no answer leaves the
\* command running or a zombie.
THEOREM ExecAnswerComplete == Spec => []ExecIsComplete
<1>1. Init => ExecInv
  BY InitExec
<1>2. ExecInv /\ [Next]_vars => ExecInv'
  BY ExecStep
<1>3. ExecInv => ExecIsComplete
  BY ExecHolds
<1> QED BY <1>1, <1>2, <1>3, PTL DEF Spec

(***************************************************************************)
(* The rows of reads of a probe.                                           *)
(***************************************************************************)
IsRead(read, reads, unless, fails, then) ==
  /\ read.reads = reads /\ read.unless = unless
  /\ read.fails = fails /\ read.then = then

\* All reads that a row is made of.
TheReads ==
  {Read({"bin"}),
   Then(Read({"bin"}), "absent"),
   OrElse("local", "bin"),
   Then(OrElse("local", "bin"), "absent"),
   Commanded({}),
   Commanded({"sshd"}),
   Commanded({"awake"}),
   Then(OfProgram({"pubkey", "files"}), "transport"),
   Then(Commanded({}), "transport"),
   OfProgram({"pubkey", "files"}),
   OfProgram({"online"}),
   OfProgram({"works"}),
   Unit("sshd"),
   Then(Unit("ssh"), "alias"),
   Unit("active"),
   Then(Unit("enabled"), "all"),
   Then(Read({"home"}), "private"),
   Then(Read({"dir"}), "private"),
   Read({"keys"}),
   Read({"app"}),
   Read({"gui"}),
   OrElse("gui2", "gui"),
   Read({"daemon"}),
   Then(OrElse("daemon2", "daemon"), "mode"),
   Read({"active"}),
   Read({"enabled"}),
   Read({"unattended"})}

LEMMA Forms ==
  /\ IsRead(Read({"bin"}), {"bin"}, {}, "no", "go")
  /\ IsRead(Then(Read({"bin"}), "absent"), {"bin"}, {}, "no", "absent")
  /\ IsRead(OrElse("local", "bin"), {"local"}, {"bin"}, "no", "go")
  /\ IsRead(Then(OrElse("local", "bin"), "absent"), {"local"}, {"bin"}, "no", "absent")
  /\ IsRead(Commanded({}), {}, {}, "stop", "go")
  /\ IsRead(Commanded({"sshd"}), {"sshd"}, {}, "stop", "go")
  /\ IsRead(Commanded({"awake"}), {"awake"}, {}, "stop", "go")
  /\ IsRead(Then(OfProgram({"pubkey", "files"}), "transport"), {"pubkey", "files"}, {}, "stop",
          "transport")
  /\ IsRead(Then(Commanded({}), "transport"), {}, {}, "stop", "transport")
  /\ IsRead(OfProgram({"pubkey", "files"}), {"pubkey", "files"}, {}, "stop", "go")
  /\ IsRead(OfProgram({"online"}), {"online"}, {}, "stop", "go")
  /\ IsRead(OfProgram({"works"}), {"works"}, {}, "stop", "go")
  /\ IsRead(Unit("sshd"), {"sshd"}, {}, "dim", "go")
  /\ IsRead(Then(Unit("ssh"), "alias"), {"ssh"}, {}, "dim", "alias")
  /\ IsRead(Unit("active"), {"active"}, {}, "dim", "go")
  /\ IsRead(Then(Unit("enabled"), "all"), {"enabled"}, {}, "dim", "all")
  /\ IsRead(Then(Read({"home"}), "private"), {"home"}, {}, "no", "private")
  /\ IsRead(Then(Read({"dir"}), "private"), {"dir"}, {}, "no", "private")
  /\ IsRead(Read({"keys"}), {"keys"}, {}, "no", "go")
  /\ IsRead(Read({"app"}), {"app"}, {}, "no", "go")
  /\ IsRead(Read({"gui"}), {"gui"}, {}, "no", "go")
  /\ IsRead(OrElse("gui2", "gui"), {"gui2"}, {"gui"}, "no", "go")
  /\ IsRead(Read({"daemon"}), {"daemon"}, {}, "no", "go")
  /\ IsRead(Then(OrElse("daemon2", "daemon"), "mode"), {"daemon2"}, {"daemon"}, "no", "mode")
  /\ IsRead(Read({"active"}), {"active"}, {}, "no", "go")
  /\ IsRead(Read({"enabled"}), {"enabled"}, {}, "no", "go")
  /\ IsRead(Read({"unattended"}), {"unattended"}, {}, "no", "go")
BY DEF Read, Commanded, OfProgram, Unit, OrElse, Then, IsRead

LEMMA InTheReads ==
  /\ Read({"bin"}) \in TheReads
  /\ Then(Read({"bin"}), "absent") \in TheReads
  /\ OrElse("local", "bin") \in TheReads
  /\ Then(OrElse("local", "bin"), "absent") \in TheReads
  /\ Commanded({}) \in TheReads
  /\ Commanded({"sshd"}) \in TheReads
  /\ Commanded({"awake"}) \in TheReads
  /\ Then(OfProgram({"pubkey", "files"}), "transport") \in TheReads
  /\ Then(Commanded({}), "transport") \in TheReads
  /\ OfProgram({"pubkey", "files"}) \in TheReads
  /\ OfProgram({"online"}) \in TheReads
  /\ OfProgram({"works"}) \in TheReads
  /\ Unit("sshd") \in TheReads
  /\ Then(Unit("ssh"), "alias") \in TheReads
  /\ Unit("active") \in TheReads
  /\ Then(Unit("enabled"), "all") \in TheReads
  /\ Then(Read({"home"}), "private") \in TheReads
  /\ Then(Read({"dir"}), "private") \in TheReads
  /\ Read({"keys"}) \in TheReads
  /\ Read({"app"}) \in TheReads
  /\ Read({"gui"}) \in TheReads
  /\ OrElse("gui2", "gui") \in TheReads
  /\ Read({"daemon"}) \in TheReads
  /\ Then(OrElse("daemon2", "daemon"), "mode") \in TheReads
  /\ Read({"active"}) \in TheReads
  /\ Read({"enabled"}) \in TheReads
  /\ Read({"unattended"}) \in TheReads
BY DEF TheReads

Steps(row) == {row[i] : i \in DOMAIN row}
Told(reads) == UNION {read.reads : read \in reads}

\* The facts a decision rests on.
Basis(read) ==
  CASE read.then = "absent" -> Programs [] read.then = "alias" -> {"sshd", "ssh"}
    [] read.then = "all" -> {"active", "enabled"}
    [] read.then = "mode" -> {"bin", "local", "app", "gui", "gui2", "daemon", "daemon2"}
    [] read.then = "transport" -> {"sshd", "ssh", "pubkey"}
    [] read.then = "private" -> read.reads
    [] OTHER -> {}

\* A read that may follow those that told what is told: none is read again, and what it
\* decides it decides by what has been read.
Fit(all, told, read) ==
  /\ read \in TheReads /\ read.reads \subseteq all /\ read.reads \cap told = {}
  /\ Basis(read) \cap all \subseteq told \cup read.reads
  /\ read.fails = "dim" /\ "sshd" \in read.reads => "ssh" \in all

Row(all, told, row, reads, after) ==
  /\ row \in Seq(TheReads) /\ Steps(row) = reads /\ after = told \cup Told(reads)
  /\ \A i \in 1..Len(row) : Fit(all, told \cup Told({row[j] : j \in 1..(i - 1)}), row[i])

LEMMA EmptyRow ==
  ASSUME NEW all, NEW told
  PROVE  Row(all, told, <<>>, {}, told)
<1>1. <<>> \in Seq(TheReads) /\ Len(<<>>) = 0 /\ Steps(<<>>) = {} /\ Told({}) = {}
  BY DEF Steps, Told
<1> QED
  BY <1>1 DEF Row

LEMMA LongerRow ==
  ASSUME NEW all, NEW told, NEW row, NEW reads, NEW after, Row(all, told, row, reads, after),
         NEW read, Fit(all, after, read),
         NEW longer \in Seq(TheReads), Len(longer) = Len(row) + 1,
         \A i \in 1..Len(row) : longer[i] = row[i], longer[Len(row) + 1] = read
  PROVE  Row(all, told, longer, reads \cup {read}, after \cup read.reads)
<1>1. row \in Seq(TheReads) /\ Len(row) \in Nat /\ DOMAIN row = 1..Len(row)
      /\ DOMAIN longer = 1..(Len(row) + 1)
  BY DEF Row
<1>2. Steps(longer) = reads \cup {read}
  BY <1>1 DEF Row, Steps
<1>3. after \cup read.reads = told \cup Told(reads \cup {read})
  BY DEF Row, Told
<1>4. ASSUME NEW i \in 1..(Len(row) + 1)
      PROVE  Fit(all, told \cup Told({longer[j] : j \in 1..(i - 1)}), longer[i])
  <2>1. {longer[j] : j \in 1..(i - 1)} = {row[j] : j \in 1..(i - 1)}
    BY <1>1
  <2>2. CASE i \in 1..Len(row)
    BY <2>1, <2>2 DEF Row
  <2>3. CASE i = Len(row) + 1
    <3>1. {row[j] : j \in 1..(i - 1)} = reads
      BY <1>1, <2>3 DEF Row, Steps
    <3> QED
      BY <2>1, <2>3, <3>1 DEF Row
  <2> QED
    BY <1>1, <2>2, <2>3
<1> QED
  BY <1>1, <1>2, <1>3, <1>4 DEF Row

LEMMA JoinedRows ==
  ASSUME NEW all, NEW told, NEW row, NEW reads, NEW mid, Row(all, told, row, reads, mid),
         NEW rest, NEW more, NEW after, Row(all, mid, rest, more, after)
  PROVE  Row(all, told, row \o rest, reads \cup more, after)
<1> DEFINE whole == row \o rest
<1>1. /\ row \in Seq(TheReads) /\ Len(row) \in Nat /\ DOMAIN row = 1..Len(row)
      /\ rest \in Seq(TheReads) /\ Len(rest) \in Nat /\ DOMAIN rest = 1..Len(rest)
  BY DEF Row
<1>2. /\ whole \in Seq(TheReads) /\ Len(whole) = Len(row) + Len(rest)
      /\ DOMAIN whole = 1..(Len(row) + Len(rest))
      /\ \A i \in 1..(Len(row) + Len(rest)) :
           whole[i] = IF i <= Len(row) THEN row[i] ELSE rest[i - Len(row)]
  BY <1>1, ConcatProperties
<1> HIDE DEF whole
<1>3. Steps(whole) = reads \cup more
  <2>1. ASSUME NEW i \in DOMAIN whole PROVE whole[i] \in reads \cup more
    <3>1. CASE i <= Len(row)
      BY <1>1, <1>2, <3>1 DEF Row, Steps
    <3>2. CASE ~(i <= Len(row))
      <4>1. i - Len(row) \in DOMAIN rest /\ whole[i] = rest[i - Len(row)]
        BY <1>1, <1>2, <3>2
      <4> QED
        BY <4>1 DEF Row, Steps
    <3> QED
      BY <3>1, <3>2
  <2>2. \A i \in DOMAIN row : row[i] \in Steps(whole)
    BY <1>1, <1>2 DEF Steps
  <2>3. ASSUME NEW i \in DOMAIN rest PROVE rest[i] \in Steps(whole)
    <3>1. Len(row) + i \in DOMAIN whole /\ whole[Len(row) + i] = rest[i]
      BY <1>1, <1>2
    <3> QED
      BY <3>1 DEF Steps
  <2> QED
    BY <2>1, <2>2, <2>3 DEF Row, Steps
<1>4. after = told \cup Told(reads \cup more)
  BY DEF Row, Told
<1>5. ASSUME NEW i \in 1..(Len(row) + Len(rest))
      PROVE  Fit(all, told \cup Told({whole[j] : j \in 1..(i - 1)}), whole[i])
  <2>1. CASE i \in 1..Len(row)
    <3>1. {whole[j] : j \in 1..(i - 1)} = {row[j] : j \in 1..(i - 1)} /\ whole[i] = row[i]
      BY <1>1, <1>2, <2>1
    <3> QED
      BY <2>1, <3>1 DEF Row
  <2>2. CASE i \notin 1..Len(row)
    <3> DEFINE k == i - Len(row)
    <3>1. k \in 1..Len(rest) /\ whole[i] = rest[k]
      BY <1>1, <1>2, <2>2
    <3>2. {whole[j] : j \in 1..(i - 1)} = reads \cup {rest[j] : j \in 1..(k - 1)}
      <4>1. ASSUME NEW j \in 1..(i - 1)
            PROVE  whole[j] \in reads \cup {rest[l] : l \in 1..(k - 1)}
        <5>1. CASE j <= Len(row)
          BY <1>1, <1>2, <5>1 DEF Row, Steps
        <5>2. CASE ~(j <= Len(row))
          <6>1. /\ j \in 1..(Len(row) + Len(rest)) /\ ~(j <= Len(row))
                /\ j - Len(row) \in 1..(k - 1)
            BY <1>1, <5>2
          <6>2. whole[j] = rest[j - Len(row)]
            BY <1>2, <6>1
          <6> QED
            BY <6>1, <6>2
        <5> QED
          BY <5>1, <5>2
      <4>2. \A j \in DOMAIN row : j \in 1..(i - 1) /\ whole[j] = row[j]
        BY <1>1, <1>2, <2>2
      <4>3. ASSUME NEW j \in 1..(k - 1)
            PROVE  Len(row) + j \in 1..(i - 1) /\ whole[Len(row) + j] = rest[j]
        <5>1. j \in Int /\ k \in Int /\ Len(row) + j \in 1..(i - 1) /\ ~(Len(row) + j <= Len(row))
              /\ (Len(row) + j) - Len(row) = j
          BY <1>1, <2>2, <3>1
        <5> QED
          BY <1>1, <1>2, <5>1
      <4>4. {whole[j] : j \in 1..(i - 1)} \subseteq reads \cup {rest[j] : j \in 1..(k - 1)}
        BY <4>1
      <4>5. reads \subseteq {whole[j] : j \in 1..(i - 1)}
        <5>1. reads = {row[j] : j \in DOMAIN row}
          BY DEF Row, Steps
        <5> QED
          BY <4>2, <5>1
      <4>6. {rest[j] : j \in 1..(k - 1)} \subseteq {whole[j] : j \in 1..(i - 1)}
        BY <4>3
      <4> QED
        BY <4>4, <4>5, <4>6
    <3>3. told \cup Told({whole[j] : j \in 1..(i - 1)}) = mid \cup Told({rest[j] : j \in 1..(k - 1)})
      BY <3>2 DEF Row, Told
    <3> QED
      BY <3>1, <3>3 DEF Row
  <2> QED
    BY <2>1, <2>2
<1> QED
  BY <1>1, <1>2, <1>3, <1>4, <1>5 DEF Row, whole
----------------------------------------------------------------------------
(* What each of the rows tells. *)

LinuxSshFacts == {"bin", "local", "sshd", "ssh", "pubkey", "files", "home", "dir", "keys"}
MacSshFacts == {"bin", "sshd", "pubkey", "files", "home", "dir", "keys"}
WindowsSshFacts == {"bin", "sshd", "pubkey", "files", "dir", "keys"}
LinuxTailscaleFacts == {"bin", "local", "active", "enabled", "online"}
MacTailscaleFacts == {"bin", "local", "app", "gui", "gui2", "daemon", "daemon2", "online"}
WindowsTailscaleFacts == {"bin", "active", "enabled", "unattended", "online"}
LinuxGitFacts == {"bin", "local", "works"}
MacGitFacts == {"bin", "works"}
SleepFacts == {"awake"}


LEMMA OneRead ==
  ASSUME NEW all, NEW told, NEW a, Fit(all, told, a)
  PROVE  Row(all, told, <<a>>, {a}, told \cup a.reads)
<1> DEFINE none == <<>>
           row == <<a>>
<1>1. row \in Seq(TheReads) /\ Len(row) = Len(none) + 1 /\ row[Len(none) + 1] = a
      /\ \A i \in 1..Len(none) : row[i] = none[i]
  BY DEF Fit
<1>2. Row(all, told, none, {}, told)
  BY EmptyRow
<1> HIDE DEF none, row
<1>3. Row(all, told, row, {} \cup {a}, told \cup a.reads)
  BY <1>1, <1>2, LongerRow
<1> QED
  BY <1>3 DEF row

LEMMA TwoReads ==
  ASSUME NEW all, NEW told, NEW a, NEW b, Fit(all, told, a), Fit(all, told \cup a.reads, b)
  PROVE  Row(all, told, <<a, b>>, {a, b}, told \cup a.reads \cup b.reads)
<1> DEFINE one == <<a>>
           row == <<a, b>>
<1>1. row \in Seq(TheReads) /\ Len(row) = Len(one) + 1 /\ row[Len(one) + 1] = b
      /\ \A i \in 1..Len(one) : row[i] = one[i]
  BY DEF Fit
<1>2. Row(all, told, one, {a}, told \cup a.reads)
  BY OneRead
<1> HIDE DEF one, row
<1>3. Row(all, told, row, {a} \cup {b}, (told \cup a.reads) \cup b.reads)
  BY <1>1, <1>2, LongerRow
<1>4. {a} \cup {b} = {a, b}
  OBVIOUS
<1> QED
  BY <1>3, <1>4 DEF row

LEMMA ThreeReads ==
  ASSUME NEW all, NEW told, NEW a, NEW b, NEW c, Fit(all, told, a), Fit(all, told \cup a.reads, b),
         Fit(all, told \cup a.reads \cup b.reads, c)
  PROVE  Row(all, told, <<a, b, c>>, {a, b, c}, told \cup a.reads \cup b.reads \cup c.reads)
<1> DEFINE two == <<a, b>>
           row == <<a, b, c>>
<1>1. row \in Seq(TheReads) /\ Len(row) = Len(two) + 1 /\ row[Len(two) + 1] = c
      /\ \A i \in 1..Len(two) : row[i] = two[i]
  <2>1. \A i \in 1..2 : i = 1 \/ i = 2
    OBVIOUS
  <2> QED
    BY <2>1 DEF Fit
<1>2. Row(all, told, two, {a, b}, told \cup a.reads \cup b.reads)
  BY TwoReads
<1> HIDE DEF two, row
<1>3. Row(all, told, row, {a, b} \cup {c}, (told \cup a.reads \cup b.reads) \cup c.reads)
  BY <1>1, <1>2, LongerRow
<1>4. {a, b} \cup {c} = {a, b, c}
  OBVIOUS
<1> QED
  BY <1>3, <1>4 DEF row

LEMMA FindRow ==
  ASSUME NEW all, all \cap Programs = {"bin", "local"}
  PROVE  Row(all, {}, Find, {Read({"bin"}), Then(OrElse("local", "bin"), "absent")}, {"bin", "local"})
<1>1. Fit(all, {}, Read({"bin"}))
  BY Forms, InTheReads DEF IsRead, Fit, Basis, Programs
<1>2. Fit(all, {} \cup {"bin"}, Then(OrElse("local", "bin"), "absent"))
  BY Forms, InTheReads DEF IsRead, Fit, Basis, Programs
<1> QED
  BY <1>1, <1>2, TwoReads, Forms DEF IsRead, Find

LEMMA FindOneRow ==
  ASSUME NEW all, all \cap Programs = {"bin"}
  PROVE  Row(all, {}, FindOne, {Then(Read({"bin"}), "absent")}, {"bin"})
<1>1. Fit(all, {}, Then(Read({"bin"}), "absent"))
  BY Forms, InTheReads DEF IsRead, Fit, Basis, Programs
<1> QED
  BY <1>1, OneRead, Forms DEF IsRead, FindOne

LEMMA SshdRow ==
  ASSUME NEW all, NEW told, all \cap {"sshd", "ssh"} \subseteq told, {"pubkey", "files"} \subseteq all,
         told \cap {"pubkey", "files"} = {}
  PROVE  Row(all, told, Transport(Sshd),
             {Commanded({}), Then(OfProgram({"pubkey", "files"}), "transport")},
             told \cup {"pubkey", "files"})
<1>1. /\ Sshd = <<Commanded({}), OfProgram({"pubkey", "files"})>>
      /\ Len(Sshd) = 2
  BY DEF Sshd
<1>2. Transport(Sshd) = <<Commanded({}), Then(OfProgram({"pubkey", "files"}), "transport")>>
  BY <1>1 DEF Transport, Then
<1>3. Fit(all, told, Commanded({}))
  BY Forms, InTheReads DEF IsRead, Fit, Basis
<1>4. Fit(all, told \cup {}, Then(OfProgram({"pubkey", "files"}), "transport"))
  BY Forms, InTheReads DEF IsRead, Fit, Basis
<1> QED
  BY <1>2, <1>3, <1>4, TwoReads, Forms DEF IsRead

LEMMA WindowsSshdRow ==
  ASSUME NEW all, NEW told, all \cap {"sshd", "ssh"} \subseteq told, {"pubkey", "files"} \subseteq all,
         told \cap {"pubkey", "files"} = {}
  PROVE  Row(all, told, Transport(Sshd \o <<Commanded({})>>),
             {Commanded({}), OfProgram({"pubkey", "files"}), Then(Commanded({}), "transport")},
             told \cup {"pubkey", "files"})
<1> DEFINE row == <<Commanded({}), OfProgram({"pubkey", "files"}), Commanded({})>>
           sshd == Sshd \o <<Commanded({})>>
<1>1. Sshd \in Seq(TheReads) /\ <<Commanded({})>> \in Seq(TheReads) /\ row \in Seq(TheReads)
  BY InTheReads DEF Sshd
<1>2. /\ Len(Sshd) = 2 /\ Sshd[1] = row[1] /\ Sshd[2] = row[2] /\ Len(<<Commanded({})>>) = 1
      /\ <<Commanded({})>>[1] = row[3] /\ Len(row) = 3
  BY DEF Sshd
<1> HIDE DEF row
<1>3. sshd \in Seq(TheReads) /\ Len(sshd) = 3 /\ sshd[1] = row[1] /\ sshd[2] = row[2]
        /\ sshd[3] = row[3]
  <2> DEFINE one == <<Commanded({})>>
  <2> HIDE DEF one
  <2>1. /\ Sshd \o one \in Seq(TheReads) /\ Len(Sshd \o one) = Len(Sshd) + Len(one)
        /\ \A i \in 1..(Len(Sshd) + Len(one)) :
             (Sshd \o one)[i] = IF i <= Len(Sshd) THEN Sshd[i] ELSE one[i - Len(Sshd)]
    BY <1>1, ConcatProperties DEF one
  <2>2. Len(Sshd) = 2 /\ Len(one) = 1 /\ one[1] = row[3]
    BY <1>2 DEF one
  <2>3. 1 \in 1..3 /\ 2 \in 1..3 /\ 3 \in 1..3
    OBVIOUS
  <2>4. (Sshd \o one)[1] = Sshd[1] /\ (Sshd \o one)[2] = Sshd[2] /\ (Sshd \o one)[3] = one[1]
    BY <2>1, <2>2, <2>3
  <2> QED
    BY <1>2, <2>1, <2>2, <2>4 DEF one
<1> HIDE DEF sshd
<1>4. sshd = row
  <2>1. \A i \in 1..3 : i = 1 \/ i = 2 \/ i = 3
    OBVIOUS
  <2>2. \A i \in 1..3 : sshd[i] = row[i]
    BY <1>3, <2>1
  <2> QED
    BY <1>1, <1>2, <1>3, <2>2, SeqEqual
<1>5. Transport(sshd) = <<Commanded({}), OfProgram({"pubkey", "files"}), Then(Commanded({}),
        "transport")>>
  BY <1>2, <1>4 DEF Transport, Then, row
<1>6. Fit(all, told, Commanded({}))
  BY Forms, InTheReads DEF IsRead, Fit, Basis
<1>7. Fit(all, told \cup {}, OfProgram({"pubkey", "files"}))
  BY Forms, InTheReads DEF IsRead, Fit, Basis
<1>8. Fit(all, told \cup {} \cup {"pubkey", "files"}, Then(Commanded({}), "transport"))
  BY Forms, InTheReads DEF IsRead, Fit, Basis
<1>9. told \cup {} \cup {"pubkey", "files"} \cup {} = told \cup {"pubkey", "files"}
  OBVIOUS
<1> QED
  BY <1>5, <1>6, <1>7, <1>8, <1>9, ThreeReads, Forms DEF IsRead, sshd

LEMMA KeysRow ==
  ASSUME NEW all, NEW told
  PROVE  /\ {"home", "dir", "keys"} \subseteq all /\ {"home", "dir", "keys"} \cap told = {} =>
              Row(all, told, UnixKeys,
                  {Then(Read({"home"}), "private"), Then(Read({"dir"}), "private"), Read({"keys"})},
                  told \cup {"home", "dir", "keys"})
         /\ {"dir", "keys"} \subseteq all /\ {"dir", "keys"} \cap told = {} =>
              Row(all, told, WindowsKeys, {Then(Read({"dir"}), "private"), Read({"keys"})},
                  told \cup {"dir", "keys"})
<1>1. ASSUME {"home", "dir", "keys"} \subseteq all, {"home", "dir", "keys"} \cap told = {}
      PROVE  Row(all, told, UnixKeys,
                 {Then(Read({"home"}), "private"), Then(Read({"dir"}), "private"), Read({"keys"})},
                 told \cup {"home", "dir", "keys"})
  <2>1. Fit(all, told, Then(Read({"home"}), "private"))
    BY <1>1, Forms, InTheReads DEF IsRead, Fit, Basis
  <2>2. Fit(all, told \cup {"home"}, Then(Read({"dir"}), "private"))
    BY <1>1, Forms, InTheReads DEF IsRead, Fit, Basis
  <2>3. Fit(all, told \cup {"home"} \cup {"dir"}, Read({"keys"}))
    BY <1>1, Forms, InTheReads DEF IsRead, Fit, Basis
  <2>4. told \cup {"home"} \cup {"dir"} \cup {"keys"} = told \cup {"home", "dir", "keys"}
    OBVIOUS
  <2> QED
    BY <2>1, <2>2, <2>3, <2>4, ThreeReads, Forms DEF IsRead, UnixKeys
<1>2. ASSUME {"dir", "keys"} \subseteq all, {"dir", "keys"} \cap told = {}
      PROVE  Row(all, told, WindowsKeys, {Then(Read({"dir"}), "private"), Read({"keys"})},
                 told \cup {"dir", "keys"})
  <2>1. Fit(all, told, Then(Read({"dir"}), "private"))
    BY <1>2, Forms, InTheReads DEF IsRead, Fit, Basis
  <2>2. Fit(all, told \cup {"dir"}, Read({"keys"}))
    BY <1>2, Forms, InTheReads DEF IsRead, Fit, Basis
  <2>3. told \cup {"dir"} \cup {"keys"} = told \cup {"dir", "keys"}
    OBVIOUS
  <2> QED
    BY <2>1, <2>2, <2>3, TwoReads, Forms DEF IsRead, WindowsKeys
<1> QED
  BY <1>1, <1>2

LEMMA LinuxSshRow ==
  /\ Row(LinuxSshFacts, {}, LinuxSsh(TRUE),
         {Read({"bin"}), Then(OrElse("local", "bin"), "absent"), Unit("sshd"),
          Then(Unit("ssh"), "alias"), Commanded({}),
          Then(OfProgram({"pubkey", "files"}), "transport"), Then(Read({"home"}), "private"),
          Then(Read({"dir"}), "private"), Read({"keys"})}, LinuxSshFacts)
  /\ Row(LinuxSshFacts, {}, LinuxSsh(FALSE),
         {Read({"bin"}), Then(OrElse("local", "bin"), "absent"), Unit("sshd"),
          Then(Unit("ssh"), "alias"), Commanded({}),
          Then(OfProgram({"pubkey", "files"}), "transport")}, {"bin", "local", "sshd", "ssh",
                  "pubkey", "files"})
<1>1. Row(LinuxSshFacts, {}, Find,
         {Read({"bin"}), Then(OrElse("local", "bin"), "absent")}, {"bin", "local"})
  BY FindRow DEF LinuxSshFacts, Programs
<1>2. Fit(LinuxSshFacts, {"bin", "local"}, Unit("sshd"))
  BY Forms, InTheReads DEF IsRead, Fit, Basis, Programs, LinuxSshFacts
<1>3. Fit(LinuxSshFacts, {"bin", "local", "sshd"}, Then(Unit("ssh"), "alias"))
  BY Forms, InTheReads DEF IsRead, Fit, Basis, Programs, LinuxSshFacts
<1>4. Row(LinuxSshFacts, {"bin", "local"}, <<Unit("sshd"), Then(Unit("ssh"), "alias")>>,
         {Unit("sshd"), Then(Unit("ssh"), "alias")}, {"bin", "local", "sshd", "ssh"})
  BY <1>2, <1>3, TwoReads, Forms DEF IsRead
<1>5. Row(LinuxSshFacts, {}, Find \o <<Unit("sshd"), Then(Unit("ssh"), "alias")>>,
         {Read({"bin"}), Then(OrElse("local", "bin"), "absent"), Unit("sshd"),
          Then(Unit("ssh"), "alias")}, {"bin", "local", "sshd", "ssh"})
  <2>1. {Read({"bin"}), Then(OrElse("local", "bin"), "absent")} \cup
        {Unit("sshd"), Then(Unit("ssh"), "alias")} =
        {Read({"bin"}), Then(OrElse("local", "bin"), "absent"), Unit("sshd"),
          Then(Unit("ssh"), "alias")}
    OBVIOUS
  <2> QED
    BY <2>1, <1>1, <1>4, JoinedRows
<1>6. Row(LinuxSshFacts, {"bin", "local", "sshd", "ssh"}, Transport(Sshd),
         {Commanded({}), Then(OfProgram({"pubkey", "files"}), "transport")}, {"bin", "local",
                 "sshd", "ssh", "pubkey", "files"})
  BY SshdRow DEF LinuxSshFacts, Programs
<1>7. Row(LinuxSshFacts, {}, Find \o <<Unit("sshd"), Then(Unit("ssh"), "alias")>> \o Transport(Sshd),
         {Read({"bin"}), Then(OrElse("local", "bin"), "absent"), Unit("sshd"),
          Then(Unit("ssh"), "alias"), Commanded({}),
          Then(OfProgram({"pubkey", "files"}), "transport")}, {"bin", "local", "sshd", "ssh",
                  "pubkey", "files"})
  <2>1. {Read({"bin"}), Then(OrElse("local", "bin"), "absent"), Unit("sshd"),
          Then(Unit("ssh"), "alias")} \cup
        {Commanded({}), Then(OfProgram({"pubkey", "files"}), "transport")} =
        {Read({"bin"}), Then(OrElse("local", "bin"), "absent"), Unit("sshd"),
          Then(Unit("ssh"), "alias"), Commanded({}),
          Then(OfProgram({"pubkey", "files"}), "transport")}
    OBVIOUS
  <2> QED
    BY <2>1, <1>5, <1>6, JoinedRows
<1>8. Row(LinuxSshFacts, {"bin", "local", "sshd", "ssh", "pubkey", "files"}, UnixKeys,
         {Then(Read({"home"}), "private"), Then(Read({"dir"}), "private"), Read({"keys"})}, {"bin",
                 "local", "sshd", "ssh", "pubkey", "files", "home", "dir", "keys"})
  <2> DEFINE before == {"bin", "local", "sshd", "ssh", "pubkey", "files"}
  <2>1. {"home", "dir", "keys"} \subseteq LinuxSshFacts /\ {"home", "dir", "keys"} \cap before = {}
    BY DEF LinuxSshFacts, Programs
  <2>2. before \cup {"home", "dir", "keys"} =
        {"bin", "local", "sshd", "ssh", "pubkey", "files", "home", "dir", "keys"}
    OBVIOUS
  <2>3. Row(LinuxSshFacts, before, UnixKeys,
            {Then(Read({"home"}), "private"), Then(Read({"dir"}), "private"), Read({"keys"})},
            before \cup {"home", "dir", "keys"})
    <3> HIDE DEF before
    <3> QED
      BY <2>1, KeysRow
  <2> QED
    BY <2>2, <2>3
<1>9. Row(LinuxSshFacts, {}, Find \o <<Unit("sshd"), Then(Unit("ssh"), "alias")>>
        \o Transport(Sshd) \o UnixKeys,
         {Read({"bin"}), Then(OrElse("local", "bin"), "absent"), Unit("sshd"),
          Then(Unit("ssh"), "alias"), Commanded({}),
          Then(OfProgram({"pubkey", "files"}), "transport"), Then(Read({"home"}), "private"),
          Then(Read({"dir"}), "private"), Read({"keys"})}, {"bin", "local", "sshd", "ssh",
                  "pubkey", "files", "home", "dir", "keys"})
  <2>1. {Read({"bin"}), Then(OrElse("local", "bin"), "absent"), Unit("sshd"),
          Then(Unit("ssh"), "alias"), Commanded({}),
          Then(OfProgram({"pubkey", "files"}), "transport")} \cup
        {Then(Read({"home"}), "private"), Then(Read({"dir"}), "private"), Read({"keys"})} =
        {Read({"bin"}), Then(OrElse("local", "bin"), "absent"), Unit("sshd"),
          Then(Unit("ssh"), "alias"), Commanded({}),
          Then(OfProgram({"pubkey", "files"}), "transport"), Then(Read({"home"}), "private"),
          Then(Read({"dir"}), "private"), Read({"keys"})}
    OBVIOUS
  <2> QED
    BY <2>1, <1>7, <1>8, JoinedRows
<1>10. Row(LinuxSshFacts, {"bin", "local", "sshd", "ssh", "pubkey", "files"}, <<>>,
         {}, {"bin", "local", "sshd", "ssh", "pubkey", "files"})
  BY EmptyRow
<1>11. Row(LinuxSshFacts, {}, Find \o <<Unit("sshd"), Then(Unit("ssh"), "alias")>>
        \o Transport(Sshd) \o <<>>,
         {Read({"bin"}), Then(OrElse("local", "bin"), "absent"), Unit("sshd"),
          Then(Unit("ssh"), "alias"), Commanded({}),
          Then(OfProgram({"pubkey", "files"}), "transport")}, {"bin", "local", "sshd", "ssh",
                  "pubkey", "files"})
  <2>1. {Read({"bin"}), Then(OrElse("local", "bin"), "absent"), Unit("sshd"),
          Then(Unit("ssh"), "alias"), Commanded({}),
          Then(OfProgram({"pubkey", "files"}), "transport")} \cup
        {} =
        {Read({"bin"}), Then(OrElse("local", "bin"), "absent"), Unit("sshd"),
          Then(Unit("ssh"), "alias"), Commanded({}),
          Then(OfProgram({"pubkey", "files"}), "transport")}
    OBVIOUS
  <2> QED
    BY <2>1, <1>7, <1>10, JoinedRows
<1> QED
  BY <1>9, <1>11 DEF LinuxSsh, LinuxSshFacts

LEMMA MacSshRow ==
  /\ Row(MacSshFacts, {}, MacSsh(TRUE),
         {Then(Read({"bin"}), "absent"), Commanded({"sshd"}), Commanded({}),
          Then(OfProgram({"pubkey", "files"}), "transport"), Then(Read({"home"}), "private"),
          Then(Read({"dir"}), "private"), Read({"keys"})}, MacSshFacts)
  /\ Row(MacSshFacts, {}, MacSsh(FALSE),
         {Then(Read({"bin"}), "absent"), Commanded({"sshd"}), Commanded({}),
          Then(OfProgram({"pubkey", "files"}), "transport")}, {"bin", "sshd", "pubkey", "files"})
<1>1. Row(MacSshFacts, {}, FindOne,
         {Then(Read({"bin"}), "absent")}, {"bin"})
  BY FindOneRow DEF MacSshFacts, Programs
<1>2. Fit(MacSshFacts, {"bin"}, Commanded({"sshd"}))
  BY Forms, InTheReads DEF IsRead, Fit, Basis, Programs, MacSshFacts
<1>3. Row(MacSshFacts, {"bin"}, <<Commanded({"sshd"})>>,
         {Commanded({"sshd"})}, {"bin", "sshd"})
  BY <1>2, OneRead, Forms DEF IsRead
<1>4. Row(MacSshFacts, {}, FindOne \o <<Commanded({"sshd"})>>,
         {Then(Read({"bin"}), "absent"), Commanded({"sshd"})}, {"bin", "sshd"})
  <2>1. {Then(Read({"bin"}), "absent")} \cup
        {Commanded({"sshd"})} =
        {Then(Read({"bin"}), "absent"), Commanded({"sshd"})}
    OBVIOUS
  <2> QED
    BY <2>1, <1>1, <1>3, JoinedRows
<1>5. Row(MacSshFacts, {"bin", "sshd"}, Transport(Sshd),
         {Commanded({}), Then(OfProgram({"pubkey", "files"}), "transport")}, {"bin", "sshd",
                 "pubkey", "files"})
  BY SshdRow DEF MacSshFacts, Programs
<1>6. Row(MacSshFacts, {}, FindOne \o <<Commanded({"sshd"})>> \o Transport(Sshd),
         {Then(Read({"bin"}), "absent"), Commanded({"sshd"}), Commanded({}),
          Then(OfProgram({"pubkey", "files"}), "transport")}, {"bin", "sshd", "pubkey", "files"})
  <2>1. {Then(Read({"bin"}), "absent"), Commanded({"sshd"})} \cup
        {Commanded({}), Then(OfProgram({"pubkey", "files"}), "transport")} =
        {Then(Read({"bin"}), "absent"), Commanded({"sshd"}), Commanded({}),
          Then(OfProgram({"pubkey", "files"}), "transport")}
    OBVIOUS
  <2> QED
    BY <2>1, <1>4, <1>5, JoinedRows
<1>7. Row(MacSshFacts, {"bin", "sshd", "pubkey", "files"}, UnixKeys,
         {Then(Read({"home"}), "private"), Then(Read({"dir"}), "private"), Read({"keys"})}, {"bin",
                 "sshd", "pubkey", "files", "home", "dir", "keys"})
  <2> DEFINE before == {"bin", "sshd", "pubkey", "files"}
  <2>1. {"home", "dir", "keys"} \subseteq MacSshFacts /\ {"home", "dir", "keys"} \cap before = {}
    BY DEF MacSshFacts, Programs
  <2>2. before \cup {"home", "dir", "keys"} =
        {"bin", "sshd", "pubkey", "files", "home", "dir", "keys"}
    OBVIOUS
  <2>3. Row(MacSshFacts, before, UnixKeys,
            {Then(Read({"home"}), "private"), Then(Read({"dir"}), "private"), Read({"keys"})},
            before \cup {"home", "dir", "keys"})
    <3> HIDE DEF before
    <3> QED
      BY <2>1, KeysRow
  <2> QED
    BY <2>2, <2>3
<1>8. Row(MacSshFacts, {}, FindOne \o <<Commanded({"sshd"})>> \o Transport(Sshd) \o UnixKeys,
         {Then(Read({"bin"}), "absent"), Commanded({"sshd"}), Commanded({}),
          Then(OfProgram({"pubkey", "files"}), "transport"), Then(Read({"home"}), "private"),
          Then(Read({"dir"}), "private"), Read({"keys"})}, {"bin", "sshd", "pubkey", "files",
                  "home", "dir", "keys"})
  <2>1. {Then(Read({"bin"}), "absent"), Commanded({"sshd"}), Commanded({}),
          Then(OfProgram({"pubkey", "files"}), "transport")} \cup
        {Then(Read({"home"}), "private"), Then(Read({"dir"}), "private"), Read({"keys"})} =
        {Then(Read({"bin"}), "absent"), Commanded({"sshd"}), Commanded({}),
          Then(OfProgram({"pubkey", "files"}), "transport"), Then(Read({"home"}), "private"),
          Then(Read({"dir"}), "private"), Read({"keys"})}
    OBVIOUS
  <2> QED
    BY <2>1, <1>6, <1>7, JoinedRows
<1>9. Row(MacSshFacts, {"bin", "sshd", "pubkey", "files"}, <<>>,
         {}, {"bin", "sshd", "pubkey", "files"})
  BY EmptyRow
<1>10. Row(MacSshFacts, {}, FindOne \o <<Commanded({"sshd"})>> \o Transport(Sshd) \o <<>>,
         {Then(Read({"bin"}), "absent"), Commanded({"sshd"}), Commanded({}),
          Then(OfProgram({"pubkey", "files"}), "transport")}, {"bin", "sshd", "pubkey", "files"})
  <2>1. {Then(Read({"bin"}), "absent"), Commanded({"sshd"}), Commanded({}),
          Then(OfProgram({"pubkey", "files"}), "transport")} \cup
        {} =
        {Then(Read({"bin"}), "absent"), Commanded({"sshd"}), Commanded({}),
          Then(OfProgram({"pubkey", "files"}), "transport")}
    OBVIOUS
  <2> QED
    BY <2>1, <1>6, <1>9, JoinedRows
<1> QED
  BY <1>8, <1>10 DEF MacSsh, MacSshFacts

LEMMA LinuxGitRow ==
  /\ Row(LinuxGitFacts, {}, LinuxGit,
         {Read({"bin"}), Then(OrElse("local", "bin"), "absent"), OfProgram({"works"})}, LinuxGitFacts)
<1>1. Row(LinuxGitFacts, {}, Find,
         {Read({"bin"}), Then(OrElse("local", "bin"), "absent")}, {"bin", "local"})
  BY FindRow DEF LinuxGitFacts, Programs
<1>2. Fit(LinuxGitFacts, {"bin", "local"}, OfProgram({"works"}))
  BY Forms, InTheReads DEF IsRead, Fit, Basis, Programs, LinuxGitFacts
<1>3. Row(LinuxGitFacts, {"bin", "local"}, <<OfProgram({"works"})>>,
         {OfProgram({"works"})}, {"bin", "local", "works"})
  BY <1>2, OneRead, Forms DEF IsRead
<1>4. Row(LinuxGitFacts, {}, Find \o <<OfProgram({"works"})>>,
         {Read({"bin"}), Then(OrElse("local", "bin"), "absent"), OfProgram({"works"})}, {"bin",
                 "local", "works"})
  <2>1. {Read({"bin"}), Then(OrElse("local", "bin"), "absent")} \cup
        {OfProgram({"works"})} =
        {Read({"bin"}), Then(OrElse("local", "bin"), "absent"), OfProgram({"works"})}
    OBVIOUS
  <2> QED
    BY <2>1, <1>1, <1>3, JoinedRows
<1> QED
  BY <1>4 DEF LinuxGit, LinuxGitFacts

LEMMA MacGitRow ==
  /\ Row(MacGitFacts, {}, MacGit,
         {Then(Read({"bin"}), "absent"), OfProgram({"works"})}, MacGitFacts)
<1>1. Row(MacGitFacts, {}, FindOne,
         {Then(Read({"bin"}), "absent")}, {"bin"})
  BY FindOneRow DEF MacGitFacts, Programs
<1>2. Fit(MacGitFacts, {"bin"}, OfProgram({"works"}))
  BY Forms, InTheReads DEF IsRead, Fit, Basis, Programs, MacGitFacts
<1>3. Row(MacGitFacts, {"bin"}, <<OfProgram({"works"})>>,
         {OfProgram({"works"})}, {"bin", "works"})
  BY <1>2, OneRead, Forms DEF IsRead
<1>4. Row(MacGitFacts, {}, FindOne \o <<OfProgram({"works"})>>,
         {Then(Read({"bin"}), "absent"), OfProgram({"works"})}, {"bin", "works"})
  <2>1. {Then(Read({"bin"}), "absent")} \cup
        {OfProgram({"works"})} =
        {Then(Read({"bin"}), "absent"), OfProgram({"works"})}
    OBVIOUS
  <2> QED
    BY <2>1, <1>1, <1>3, JoinedRows
<1> QED
  BY <1>4 DEF MacGit, MacGitFacts

LEMMA LinuxSleepRow ==
  /\ Row(SleepFacts, {}, LinuxSleep,
         {Commanded({"awake"})}, SleepFacts)
<1>1. Fit(SleepFacts, {}, Commanded({"awake"}))
  BY Forms, InTheReads DEF IsRead, Fit, Basis, Programs, SleepFacts
<1>2. Row(SleepFacts, {}, <<Commanded({"awake"})>>,
         {Commanded({"awake"})}, {"awake"})
  BY <1>1, OneRead, Forms DEF IsRead
<1> QED
  BY <1>2 DEF LinuxSleep, SleepFacts

LEMMA WindowsSleepRow ==
  /\ Row(SleepFacts, {}, WindowsSleep,
         {Commanded({}), Commanded({"awake"})}, SleepFacts)
<1>1. Fit(SleepFacts, {}, Commanded({}))
  BY Forms, InTheReads DEF IsRead, Fit, Basis, Programs, SleepFacts
<1>2. Row(SleepFacts, {}, <<Commanded({})>>,
         {Commanded({})}, {})
  BY <1>1, OneRead, Forms DEF IsRead
<1>3. Row(SleepFacts, {}, LinuxSleep,
         {Commanded({"awake"})}, {"awake"})
  BY LinuxSleepRow DEF SleepFacts, Programs
<1>4. Row(SleepFacts, {}, <<Commanded({})>> \o LinuxSleep,
         {Commanded({}), Commanded({"awake"})}, {"awake"})
  <2>1. {Commanded({})} \cup
        {Commanded({"awake"})} =
        {Commanded({}), Commanded({"awake"})}
    OBVIOUS
  <2> QED
    BY <2>1, <1>2, <1>3, JoinedRows
<1> QED
  BY <1>4 DEF WindowsSleep, SleepFacts

LEMMA LinuxTailscaleRow ==
  /\ Row(LinuxTailscaleFacts, {}, LinuxTailscale,
         {Read({"bin"}), Then(OrElse("local", "bin"), "absent"), Unit("active"),
          Then(Unit("enabled"), "all"), OfProgram({"online"})}, LinuxTailscaleFacts)
<1>1. Row(LinuxTailscaleFacts, {}, Find,
         {Read({"bin"}), Then(OrElse("local", "bin"), "absent")}, {"bin", "local"})
  BY FindRow DEF LinuxTailscaleFacts, Programs
<1>2. Fit(LinuxTailscaleFacts, {"bin", "local"}, Unit("active"))
  BY Forms, InTheReads DEF IsRead, Fit, Basis, Programs, LinuxTailscaleFacts
<1>3. Fit(LinuxTailscaleFacts, {"bin", "local", "active"}, Then(Unit("enabled"), "all"))
  BY Forms, InTheReads DEF IsRead, Fit, Basis, Programs, LinuxTailscaleFacts
<1>4. Fit(LinuxTailscaleFacts, {"bin", "local", "active", "enabled"}, OfProgram({"online"}))
  BY Forms, InTheReads DEF IsRead, Fit, Basis, Programs, LinuxTailscaleFacts
<1>5. Row(LinuxTailscaleFacts, {"bin", "local"}, <<Unit("active"), Then(Unit("enabled"), "all"),
        OfProgram({"online"})>>,
         {Unit("active"), Then(Unit("enabled"), "all"), OfProgram({"online"})}, {"bin", "local",
                 "active", "enabled", "online"})
  BY <1>2, <1>3, <1>4, ThreeReads, Forms DEF IsRead
<1>6. Row(LinuxTailscaleFacts, {}, Find \o <<Unit("active"), Then(Unit("enabled"), "all"),
        OfProgram({"online"})>>,
         {Read({"bin"}), Then(OrElse("local", "bin"), "absent"), Unit("active"),
          Then(Unit("enabled"), "all"), OfProgram({"online"})}, {"bin", "local", "active",
                  "enabled", "online"})
  <2>1. {Read({"bin"}), Then(OrElse("local", "bin"), "absent")} \cup
        {Unit("active"), Then(Unit("enabled"), "all"), OfProgram({"online"})} =
        {Read({"bin"}), Then(OrElse("local", "bin"), "absent"), Unit("active"),
          Then(Unit("enabled"), "all"), OfProgram({"online"})}
    OBVIOUS
  <2> QED
    BY <2>1, <1>1, <1>5, JoinedRows
<1> QED
  BY <1>6 DEF LinuxTailscale, LinuxTailscaleFacts

LEMMA MacTailscaleRow ==
  Row(MacTailscaleFacts, {}, MacTailscale,
      {Read({"bin"}), OrElse("local", "bin"), Read({"app"}), Read({"gui"}),
       OrElse("gui2", "gui"), Read({"daemon"}), Then(OrElse("daemon2", "daemon"), "mode"),
       OfProgram({"online"})}, MacTailscaleFacts)
<1>1. Fit(MacTailscaleFacts, {}, Read({"bin"}))
  BY Forms, InTheReads DEF IsRead, Fit, Basis, Programs, MacTailscaleFacts
<1>2. Fit(MacTailscaleFacts, {"bin"}, OrElse("local", "bin"))
  BY Forms, InTheReads DEF IsRead, Fit, Basis, Programs, MacTailscaleFacts
<1>3. Fit(MacTailscaleFacts, {"bin", "local"}, Read({"app"}))
  BY Forms, InTheReads DEF IsRead, Fit, Basis, Programs, MacTailscaleFacts
<1>4. Fit(MacTailscaleFacts, {"bin", "local", "app"}, Read({"gui"}))
  BY Forms, InTheReads DEF IsRead, Fit, Basis, Programs, MacTailscaleFacts
<1>5. Fit(MacTailscaleFacts, {"bin", "local", "app", "gui"}, OrElse("gui2", "gui"))
  BY Forms, InTheReads DEF IsRead, Fit, Basis, Programs, MacTailscaleFacts
<1>6. Fit(MacTailscaleFacts, {"bin", "local", "app", "gui", "gui2"}, Read({"daemon"}))
  BY Forms, InTheReads DEF IsRead, Fit, Basis, Programs, MacTailscaleFacts
<1>7. Fit(MacTailscaleFacts, {"bin", "local", "app", "gui", "gui2", "daemon"},
        Then(OrElse("daemon2", "daemon"), "mode"))
  BY Forms, InTheReads DEF IsRead, Fit, Basis, Programs, MacTailscaleFacts
<1>8. Fit(MacTailscaleFacts, {"bin", "local", "app", "gui", "gui2", "daemon", "daemon2"},
        OfProgram({"online"}))
  BY Forms, InTheReads DEF IsRead, Fit, Basis, Programs, MacTailscaleFacts
<1>9. Row(MacTailscaleFacts, {}, <<Read({"bin"}), OrElse("local", "bin"), Read({"app"})>>,
         {Read({"bin"}), OrElse("local", "bin"), Read({"app"})}, {"bin", "local", "app"})
  BY <1>1, <1>2, <1>3, ThreeReads, Forms DEF IsRead
<1>10. Row(MacTailscaleFacts, {}, <<Read({"bin"}), OrElse("local", "bin"), Read({"app"}),
        Read({"gui"})>>,
         {Read({"bin"}), OrElse("local", "bin"), Read({"app"}), Read({"gui"})}, {"bin", "local",
                 "app", "gui"})
  <2> DEFINE row == <<Read({"bin"}), OrElse("local", "bin"), Read({"app"})>>
           longer == <<Read({"bin"}), OrElse("local", "bin"), Read({"app"}), Read({"gui"})>>
  <2>1. /\ longer \in Seq(TheReads) /\ Len(longer) = Len(row) + 1
        /\ longer[Len(row) + 1] = Read({"gui"})
        /\ \A i \in 1..Len(row) : longer[i] = row[i]
    <3>1. \A i \in 1..3 : i = 1 \/ i = 2 \/ i = 3
      OBVIOUS
    <3> QED
      BY <3>1, InTheReads
  <2>2. Row(MacTailscaleFacts, {}, row,
            {Read({"bin"}), OrElse("local", "bin"), Read({"app"})}, {"bin", "local", "app"})
    BY <1>9 DEF row
  <2> HIDE DEF row, longer
  <2>3. Read({"gui"}).reads = {"gui"}
    BY Forms DEF IsRead
  <2>4. Row(MacTailscaleFacts, {}, longer,
            {Read({"bin"}), OrElse("local", "bin"), Read({"app"})} \cup {Read({"gui"})},
            {"bin", "local", "app"} \cup {"gui"})
    BY <1>4, <2>1, <2>2, <2>3, LongerRow
  <2> QED
    BY <2>4 DEF longer
<1>11. Row(MacTailscaleFacts, {}, <<Read({"bin"}), OrElse("local", "bin"), Read({"app"}), Read({"gui"}),
                          OrElse("gui2", "gui")>>,
         {Read({"bin"}), OrElse("local", "bin"), Read({"app"}), Read({"gui"}),
          OrElse("gui2", "gui")}, {"bin", "local", "app", "gui", "gui2"})
  <2> DEFINE row == <<Read({"bin"}), OrElse("local", "bin"), Read({"app"}), Read({"gui"})>>
           longer == <<Read({"bin"}), OrElse("local", "bin"), Read({"app"}), Read({"gui"}),
                       OrElse("gui2", "gui")>>
  <2>1. /\ longer \in Seq(TheReads) /\ Len(longer) = Len(row) + 1
        /\ longer[Len(row) + 1] = OrElse("gui2", "gui")
        /\ \A i \in 1..Len(row) : longer[i] = row[i]
    <3>1. \A i \in 1..4 : i = 1 \/ i = 2 \/ i = 3 \/ i = 4
      OBVIOUS
    <3> QED
      BY <3>1, InTheReads
  <2>2. Row(MacTailscaleFacts, {}, row,
            {Read({"bin"}), OrElse("local", "bin"), Read({"app"}), Read({"gui"})}, {"bin", "local",
                    "app", "gui"})
    BY <1>10 DEF row
  <2> HIDE DEF row, longer
  <2>3. OrElse("gui2", "gui").reads = {"gui2"}
    BY Forms DEF IsRead
  <2>4. Row(MacTailscaleFacts, {}, longer,
            {Read({"bin"}), OrElse("local", "bin"), Read({"app"}), Read({"gui"})}
                    \cup {OrElse("gui2", "gui")},
            {"bin", "local", "app", "gui"} \cup {"gui2"})
    BY <1>5, <2>1, <2>2, <2>3, LongerRow
  <2> QED
    BY <2>4 DEF longer
<1>12. Row(MacTailscaleFacts, {}, <<Read({"bin"}), OrElse("local", "bin"), Read({"app"}), Read({"gui"}),
                          OrElse("gui2", "gui"), Read({"daemon"})>>,
         {Read({"bin"}), OrElse("local", "bin"), Read({"app"}), Read({"gui"}),
          OrElse("gui2", "gui"), Read({"daemon"})}, {"bin", "local", "app", "gui", "gui2", "daemon"})
  <2> DEFINE row == <<Read({"bin"}), OrElse("local", "bin"), Read({"app"}), Read({"gui"}),
                    OrElse("gui2", "gui")>>
           longer == <<Read({"bin"}), OrElse("local", "bin"), Read({"app"}), Read({"gui"}),
                       OrElse("gui2", "gui"), Read({"daemon"})>>
  <2>1. /\ longer \in Seq(TheReads) /\ Len(longer) = Len(row) + 1
        /\ longer[Len(row) + 1] = Read({"daemon"})
        /\ \A i \in 1..Len(row) : longer[i] = row[i]
    <3>1. \A i \in 1..5 : i = 1 \/ i = 2 \/ i = 3 \/ i = 4 \/ i = 5
      OBVIOUS
    <3> QED
      BY <3>1, InTheReads
  <2>2. Row(MacTailscaleFacts, {}, row,
            {Read({"bin"}), OrElse("local", "bin"), Read({"app"}), Read({"gui"}),
             OrElse("gui2", "gui")}, {"bin", "local", "app", "gui", "gui2"})
    BY <1>11 DEF row
  <2> HIDE DEF row, longer
  <2>3. Read({"daemon"}).reads = {"daemon"}
    BY Forms DEF IsRead
  <2>4. Row(MacTailscaleFacts, {}, longer,
            {Read({"bin"}), OrElse("local", "bin"), Read({"app"}), Read({"gui"}),
             OrElse("gui2", "gui")} \cup {Read({"daemon"})},
            {"bin", "local", "app", "gui", "gui2"} \cup {"daemon"})
    BY <1>6, <2>1, <2>2, <2>3, LongerRow
  <2> QED
    BY <2>4 DEF longer
<1>13. Row(MacTailscaleFacts, {}, <<Read({"bin"}), OrElse("local", "bin"), Read({"app"}), Read({"gui"}),
                          OrElse("gui2", "gui"), Read({"daemon"}),
                          Then(OrElse("daemon2", "daemon"), "mode")>>,
         {Read({"bin"}), OrElse("local", "bin"), Read({"app"}), Read({"gui"}),
          OrElse("gui2", "gui"), Read({"daemon"}), Then(OrElse("daemon2", "daemon"), "mode")},
                  {"bin", "local", "app", "gui", "gui2", "daemon", "daemon2"})
  <2> DEFINE row == <<Read({"bin"}), OrElse("local", "bin"), Read({"app"}), Read({"gui"}),
                    OrElse("gui2", "gui"), Read({"daemon"})>>
           longer == <<Read({"bin"}), OrElse("local", "bin"), Read({"app"}), Read({"gui"}),
                       OrElse("gui2", "gui"), Read({"daemon"}),
                       Then(OrElse("daemon2", "daemon"), "mode")>>
  <2>1. /\ longer \in Seq(TheReads) /\ Len(longer) = Len(row) + 1
        /\ longer[Len(row) + 1] = Then(OrElse("daemon2", "daemon"), "mode")
        /\ \A i \in 1..Len(row) : longer[i] = row[i]
    <3>1. \A i \in 1..6 : i = 1 \/ i = 2 \/ i = 3 \/ i = 4 \/ i = 5 \/ i = 6
      OBVIOUS
    <3> QED
      BY <3>1, InTheReads
  <2>2. Row(MacTailscaleFacts, {}, row,
            {Read({"bin"}), OrElse("local", "bin"), Read({"app"}), Read({"gui"}),
             OrElse("gui2", "gui"), Read({"daemon"})}, {"bin", "local", "app", "gui", "gui2", "daemon"})
    BY <1>12 DEF row
  <2> HIDE DEF row, longer
  <2>3. Then(OrElse("daemon2", "daemon"), "mode").reads = {"daemon2"}
    BY Forms DEF IsRead
  <2>4. Row(MacTailscaleFacts, {}, longer,
            {Read({"bin"}), OrElse("local", "bin"), Read({"app"}), Read({"gui"}),
             OrElse("gui2", "gui"), Read({"daemon"})} \cup {Then(OrElse("daemon2", "daemon"), "mode")},
            {"bin", "local", "app", "gui", "gui2", "daemon"} \cup {"daemon2"})
    BY <1>7, <2>1, <2>2, <2>3, LongerRow
  <2> QED
    BY <2>4 DEF longer
<1>14. Row(MacTailscaleFacts, {}, <<Read({"bin"}), OrElse("local", "bin"), Read({"app"}), Read({"gui"}),
                          OrElse("gui2", "gui"), Read({"daemon"}),
                          Then(OrElse("daemon2", "daemon"), "mode"), OfProgram({"online"})>>,
         {Read({"bin"}), OrElse("local", "bin"), Read({"app"}), Read({"gui"}),
          OrElse("gui2", "gui"), Read({"daemon"}), Then(OrElse("daemon2", "daemon"), "mode"),
          OfProgram({"online"})}, {"bin", "local", "app", "gui", "gui2", "daemon", "daemon2", "online"})
  <2> DEFINE row == <<Read({"bin"}), OrElse("local", "bin"), Read({"app"}), Read({"gui"}),
                    OrElse("gui2", "gui"), Read({"daemon"}),
                    Then(OrElse("daemon2", "daemon"), "mode")>>
           longer == <<Read({"bin"}), OrElse("local", "bin"), Read({"app"}), Read({"gui"}),
                       OrElse("gui2", "gui"), Read({"daemon"}),
                       Then(OrElse("daemon2", "daemon"), "mode"), OfProgram({"online"})>>
  <2>1. /\ longer \in Seq(TheReads) /\ Len(longer) = Len(row) + 1
        /\ longer[Len(row) + 1] = OfProgram({"online"})
        /\ \A i \in 1..Len(row) : longer[i] = row[i]
    <3>1. \A i \in 1..7 : i = 1 \/ i = 2 \/ i = 3 \/ i = 4 \/ i = 5 \/ i = 6 \/ i = 7
      OBVIOUS
    <3> QED
      BY <3>1, InTheReads
  <2>2. Row(MacTailscaleFacts, {}, row,
            {Read({"bin"}), OrElse("local", "bin"), Read({"app"}), Read({"gui"}),
             OrElse("gui2", "gui"), Read({"daemon"}), Then(OrElse("daemon2", "daemon"), "mode")},
                     {"bin", "local", "app", "gui", "gui2", "daemon", "daemon2"})
    BY <1>13 DEF row
  <2> HIDE DEF row, longer
  <2>3. OfProgram({"online"}).reads = {"online"}
    BY Forms DEF IsRead
  <2>4. Row(MacTailscaleFacts, {}, longer,
            {Read({"bin"}), OrElse("local", "bin"), Read({"app"}), Read({"gui"}),
             OrElse("gui2", "gui"), Read({"daemon"}), Then(OrElse("daemon2", "daemon"),
                     "mode")} \cup {OfProgram({"online"})},
            {"bin", "local", "app", "gui", "gui2", "daemon", "daemon2"} \cup {"online"})
    BY <1>8, <2>1, <2>2, <2>3, LongerRow
  <2> QED
    BY <2>4 DEF longer
<1> QED
  BY <1>14 DEF MacTailscale, MacTailscaleFacts

LEMMA WindowsTailscaleRow ==
  Row(WindowsTailscaleFacts, {}, WindowsTailscale,
      {Then(Read({"bin"}), "absent"), Commanded({}), Read({"active"}), Read({"enabled"}),
       Read({"unattended"}), OfProgram({"online"})}, WindowsTailscaleFacts)
<1>1. Fit(WindowsTailscaleFacts, {"bin"}, Commanded({}))
  BY Forms, InTheReads DEF IsRead, Fit, Basis, Programs, WindowsTailscaleFacts
<1>2. Fit(WindowsTailscaleFacts, {"bin"}, Read({"active"}))
  BY Forms, InTheReads DEF IsRead, Fit, Basis, Programs, WindowsTailscaleFacts
<1>3. Fit(WindowsTailscaleFacts, {"bin", "active"}, Read({"enabled"}))
  BY Forms, InTheReads DEF IsRead, Fit, Basis, Programs, WindowsTailscaleFacts
<1>4. Fit(WindowsTailscaleFacts, {"bin", "active", "enabled"}, Read({"unattended"}))
  BY Forms, InTheReads DEF IsRead, Fit, Basis, Programs, WindowsTailscaleFacts
<1>5. Fit(WindowsTailscaleFacts, {"bin", "active", "enabled", "unattended"}, OfProgram({"online"}))
  BY Forms, InTheReads DEF IsRead, Fit, Basis, Programs, WindowsTailscaleFacts
<1>6. Row(WindowsTailscaleFacts, {"bin"}, <<Commanded({}), Read({"active"}), Read({"enabled"})>>,
         {Commanded({}), Read({"active"}), Read({"enabled"})}, {"bin", "active", "enabled"})
  BY <1>1, <1>2, <1>3, ThreeReads, Forms DEF IsRead
<1>7. Row(WindowsTailscaleFacts, {"bin"}, <<Commanded({}), Read({"active"}), Read({"enabled"}),
        Read({"unattended"})>>,
         {Commanded({}), Read({"active"}), Read({"enabled"}), Read({"unattended"})}, {"bin",
                 "active", "enabled", "unattended"})
  <2> DEFINE row == <<Commanded({}), Read({"active"}), Read({"enabled"})>>
           longer == <<Commanded({}), Read({"active"}), Read({"enabled"}), Read({"unattended"})>>
  <2>1. /\ longer \in Seq(TheReads) /\ Len(longer) = Len(row) + 1
        /\ longer[Len(row) + 1] = Read({"unattended"})
        /\ \A i \in 1..Len(row) : longer[i] = row[i]
    <3>1. \A i \in 1..3 : i = 1 \/ i = 2 \/ i = 3
      OBVIOUS
    <3> QED
      BY <3>1, InTheReads
  <2>2. Row(WindowsTailscaleFacts, {"bin"}, row,
            {Commanded({}), Read({"active"}), Read({"enabled"})}, {"bin", "active", "enabled"})
    BY <1>6 DEF row
  <2> HIDE DEF row, longer
  <2>3. Read({"unattended"}).reads = {"unattended"}
    BY Forms DEF IsRead
  <2>4. Row(WindowsTailscaleFacts, {"bin"}, longer,
            {Commanded({}), Read({"active"}), Read({"enabled"})} \cup {Read({"unattended"})},
            {"bin", "active", "enabled"} \cup {"unattended"})
    BY <1>4, <2>1, <2>2, <2>3, LongerRow
  <2> QED
    BY <2>4 DEF longer
<1>8. Row(WindowsTailscaleFacts, {"bin"}, <<Commanded({}), Read({"active"}), Read({"enabled"}),
        Read({"unattended"}),
                          OfProgram({"online"})>>,
         {Commanded({}), Read({"active"}), Read({"enabled"}), Read({"unattended"}),
          OfProgram({"online"})}, {"bin", "active", "enabled", "unattended", "online"})
  <2> DEFINE row == <<Commanded({}), Read({"active"}), Read({"enabled"}), Read({"unattended"})>>
           longer == <<Commanded({}), Read({"active"}), Read({"enabled"}), Read({"unattended"}),
                       OfProgram({"online"})>>
  <2>1. /\ longer \in Seq(TheReads) /\ Len(longer) = Len(row) + 1
        /\ longer[Len(row) + 1] = OfProgram({"online"})
        /\ \A i \in 1..Len(row) : longer[i] = row[i]
    <3>1. \A i \in 1..4 : i = 1 \/ i = 2 \/ i = 3 \/ i = 4
      OBVIOUS
    <3> QED
      BY <3>1, InTheReads
  <2>2. Row(WindowsTailscaleFacts, {"bin"}, row,
            {Commanded({}), Read({"active"}), Read({"enabled"}), Read({"unattended"})}, {"bin",
                    "active", "enabled", "unattended"})
    BY <1>7 DEF row
  <2> HIDE DEF row, longer
  <2>3. OfProgram({"online"}).reads = {"online"}
    BY Forms DEF IsRead
  <2>4. Row(WindowsTailscaleFacts, {"bin"}, longer,
            {Commanded({}), Read({"active"}), Read({"enabled"}), Read({"unattended"})}
                    \cup {OfProgram({"online"})},
            {"bin", "active", "enabled", "unattended"} \cup {"online"})
    BY <1>5, <2>1, <2>2, <2>3, LongerRow
  <2> QED
    BY <2>4 DEF longer
<1>9. Row(WindowsTailscaleFacts, {}, FindOne,
         {Then(Read({"bin"}), "absent")}, {"bin"})
  BY FindOneRow DEF WindowsTailscaleFacts, Programs
<1>10. {Then(Read({"bin"}), "absent")} \cup
      {Commanded({}), Read({"active"}), Read({"enabled"}), Read({"unattended"}),
        OfProgram({"online"})} =
      {Then(Read({"bin"}), "absent"), Commanded({}), Read({"active"}), Read({"enabled"}),
        Read({"unattended"}), OfProgram({"online"})}
  OBVIOUS
<1> QED
  BY <1>8, <1>9, <1>10, JoinedRows DEF WindowsTailscale, WindowsTailscaleFacts

LEMMA WindowsSshRow ==
  /\ Row(WindowsSshFacts, {}, WindowsSsh(TRUE),
         {Commanded({}), Then(Read({"bin"}), "absent"), Commanded({"sshd"}),
          OfProgram({"pubkey", "files"}), Then(Commanded({}), "transport"),
          Then(Read({"dir"}), "private"), Read({"keys"})}, WindowsSshFacts)
  /\ Row(WindowsSshFacts, {}, WindowsSsh(FALSE),
         {Commanded({}), Then(Read({"bin"}), "absent"), Commanded({"sshd"}),
          Then(OfProgram({"pubkey", "files"}), "transport")}, {"bin", "sshd", "pubkey", "files"})
<1>1. Fit(WindowsSshFacts, {}, Commanded({})) /\ Fit(WindowsSshFacts, {"bin"}, Commanded({"sshd"}))
  BY Forms, InTheReads DEF IsRead, Fit, Basis, Programs, WindowsSshFacts
<1>2. Row(WindowsSshFacts, {}, <<Commanded({})>>, {Commanded({})}, {})
  BY <1>1, OneRead, Forms DEF IsRead
<1>3. Row(WindowsSshFacts, {}, FindOne, {Then(Read({"bin"}), "absent")}, {"bin"})
  BY FindOneRow DEF WindowsSshFacts, Programs
<1>4. Row(WindowsSshFacts, {"bin"}, <<Commanded({"sshd"})>>, {Commanded({"sshd"})}, {"bin", "sshd"})
  BY <1>1, OneRead, Forms DEF IsRead
<1>5. Row(WindowsSshFacts, {}, <<Commanded({})>> \o FindOne, {Commanded({})}
        \cup {Then(Read({"bin"}), "absent")}, {"bin"})
  BY <1>2, <1>3, JoinedRows
<1>6. Row(WindowsSshFacts, {}, <<Commanded({})>> \o FindOne \o <<Commanded({"sshd"})>>,
          {Commanded({}), Then(Read({"bin"}), "absent")} \cup {Commanded({"sshd"})}, {"bin", "sshd"})
  <2>1. {Commanded({})} \cup {Then(Read({"bin"}), "absent")} = {Commanded({}), Then(Read({"bin"}),
          "absent")}
    OBVIOUS
  <2> QED
    BY <2>1, <1>4, <1>5, JoinedRows
<1>7. Row(WindowsSshFacts, {"bin", "sshd"}, Transport(Sshd),
          {Commanded({}), Then(OfProgram({"pubkey", "files"}), "transport")}, {"bin", "sshd",
                  "pubkey", "files"})
  BY SshdRow DEF WindowsSshFacts, Programs
<1>8. Row(WindowsSshFacts, {"bin", "sshd"}, Transport(Sshd \o <<Commanded({})>>),
          {Commanded({}), OfProgram({"pubkey", "files"}), Then(Commanded({}), "transport")},
                  {"bin", "sshd", "pubkey", "files"})
  BY WindowsSshdRow DEF WindowsSshFacts, Programs
<1>9. Row(WindowsSshFacts, {"bin", "sshd", "pubkey", "files"}, WindowsKeys, {Then(Read({"dir"}),
        "private"), Read({"keys"})}, WindowsSshFacts)
  <2>1. Row(WindowsSshFacts, {"bin", "sshd", "pubkey", "files"}, WindowsKeys, {Then(Read({"dir"}),
          "private"), Read({"keys"})},
            {"bin", "sshd", "pubkey", "files"} \cup {"dir", "keys"})
    BY KeysRow DEF WindowsSshFacts
  <2>2. WindowsSshFacts = {"bin", "sshd", "pubkey", "files"} \cup {"dir", "keys"}
    BY DEF WindowsSshFacts
  <2> QED
    BY <2>1, <2>2
<1>10. Row(WindowsSshFacts, {"bin", "sshd"}, Transport(Sshd \o <<Commanded({})>>) \o WindowsKeys,
           {Commanded({}), OfProgram({"pubkey", "files"}), Then(Commanded({}), "transport")}
                   \cup {Then(Read({"dir"}), "private"), Read({"keys"})}, WindowsSshFacts)
  BY <1>8, <1>9, JoinedRows
<1>11. {Commanded({}), Then(Read({"bin"}), "absent")} \cup {Commanded({"sshd"})}
        \cup {Commanded({}), Then(OfProgram({"pubkey", "files"}), "transport")} =
       {Commanded({}), Then(Read({"bin"}), "absent"), Commanded({"sshd"}),
               Then(OfProgram({"pubkey", "files"}), "transport")}
  OBVIOUS
<1>12. {Commanded({}), Then(Read({"bin"}), "absent")} \cup {Commanded({"sshd"})}
         \cup ({Commanded({}), OfProgram({"pubkey", "files"}), Then(Commanded({}),
                 "transport")} \cup {Then(Read({"dir"}), "private"), Read({"keys"})}) =
       {Commanded({}), Then(Read({"bin"}), "absent"), Commanded({"sshd"}),
        OfProgram({"pubkey", "files"}), Then(Commanded({}), "transport"),
        Then(Read({"dir"}), "private"), Read({"keys"})}
  OBVIOUS
<1>13. Row(WindowsSshFacts, {}, WindowsSsh(FALSE), {Commanded({}), Then(Read({"bin"}),
        "absent")} \cup {Commanded({"sshd"})}
           \cup {Commanded({}), Then(OfProgram({"pubkey", "files"}), "transport")}, {"bin", "sshd",
                   "pubkey", "files"})
  BY <1>6, <1>7, JoinedRows DEF WindowsSsh
<1>14. Row(WindowsSshFacts, {}, WindowsSsh(TRUE), {Commanded({}), Then(Read({"bin"}),
        "absent")} \cup {Commanded({"sshd"})}
           \cup ({Commanded({}), OfProgram({"pubkey", "files"}), Then(Commanded({}),
                   "transport")} \cup {Then(Read({"dir"}), "private"), Read({"keys"})}),
                           WindowsSshFacts)
  BY <1>6, <1>10, JoinedRows DEF WindowsSsh
<1> QED
  BY <1>11, <1>12, <1>13, <1>14

----------------------------------------------------------------------------
(* The row that is read, by what is probed and where. *)

AskedInv ==
  /\ platform \in Platforms /\ subject \in Subjects /\ keys \in BOOLEAN
  /\ mode \in {"", "gui", "tailscaled", "service"}

Ordered(row) ==
  /\ row \in Seq(TheReads)
  /\ \A i \in 1..Len(row) : Fit(Relevant, Told({row[j] : j \in 1..(i - 1)}), row[i])

LEMMA RowOrdered ==
  ASSUME NEW row, NEW reads, NEW after, Row(Relevant, {}, row, reads, after)
  PROVE  Ordered(row) /\ Steps(row) = reads
<1>1. ASSUME NEW reads1 PROVE {} \cup Told(reads1) = Told(reads1)
  OBVIOUS
<1> QED
  BY <1>1 DEF Row, Ordered

LEMMA RelevantIs ==
  ASSUME NEW all, NEW reads, Row(all, {}, Reads("doctor"), reads, all)
  PROVE  Relevant = all
BY DEF Row, Relevant, Told, Steps

\* What is known of any probe of ssh.
SshRow(use, row) ==
  /\ Relevant \cap Programs \subseteq {"bin", "local"}
  /\ \E read \in Steps(row) : read.then = "absent"
  /\ \E read \in Steps(row) : read.then = "transport"
  /\ WithKeys(use) => /\ {"files", "keys"} \subseteq Relevant /\ Told(Steps(row)) = Relevant
                      /\ \A fact \in Relevant \cap {"home", "dir"} :
                           \E read \in Steps(row) : read.then = "private" /\ read.reads = {fact}
  /\ \A read \in Steps(row) : read.then = "private" => WithKeys(use)

LEMMA SshReads ==
  ASSUME AskedInv, subject = "ssh-server", NEW use
  PROVE  Ordered(Reads(use)) /\ SshRow(use, Reads(use))
<1>1. Reads(use) = Ssh(WithKeys(use)) /\ Reads("doctor") = Ssh(TRUE)
      /\ (WithKeys(use) = TRUE \/ WithKeys(use) = FALSE)
  BY DEF Reads, WithKeys
<1>2. CASE platform = "linux"
  <2>1. Reads(use) = LinuxSsh(WithKeys(use)) /\ Reads("doctor") = LinuxSsh(TRUE)
    BY <1>1, <1>2 DEF Ssh
  <2>2. Relevant = LinuxSshFacts
    BY <2>1, LinuxSshRow, RelevantIs
  <2>3. CASE WithKeys(use) = TRUE
    <3>1. Row(Relevant, {}, Reads(use),
              {Read({"bin"}), Then(OrElse("local", "bin"), "absent"), Unit("sshd"),
               Then(Unit("ssh"), "alias"), Commanded({}),
               Then(OfProgram({"pubkey", "files"}), "transport"),
               Then(Read({"home"}), "private"), Then(Read({"dir"}), "private"), Read({"keys"})},
                       Relevant)
      BY <2>1, <2>2, <2>3, LinuxSshRow
    <3>2. Ordered(Reads(use)) /\ Told(Steps(Reads(use))) = Relevant
      BY <3>1, RowOrdered DEF Row
    <3> QED
      BY <2>2, <2>3, <3>1, <3>2, RowOrdered, Forms DEF IsRead, SshRow, LinuxSshFacts, Programs
  <2>4. CASE WithKeys(use) = FALSE
    <3>1. Row(Relevant, {}, Reads(use),
              {Read({"bin"}), Then(OrElse("local", "bin"), "absent"), Unit("sshd"),
               Then(Unit("ssh"), "alias"), Commanded({}),
               Then(OfProgram({"pubkey", "files"}), "transport")},
              {"bin", "local", "sshd", "ssh", "pubkey", "files"})
      BY <2>1, <2>2, <2>4, LinuxSshRow
    <3> QED
      BY <2>2, <2>4, <3>1, RowOrdered, Forms DEF IsRead, SshRow, LinuxSshFacts, Programs
  <2> QED
    BY <1>1, <2>3, <2>4
<1>3. CASE platform = "macos"
  <2>1. Reads(use) = MacSsh(WithKeys(use)) /\ Reads("doctor") = MacSsh(TRUE)
    BY <1>1, <1>3 DEF Ssh
  <2>2. Relevant = MacSshFacts
    BY <2>1, MacSshRow, RelevantIs
  <2>3. CASE WithKeys(use) = TRUE
    <3>1. Row(Relevant, {}, Reads(use),
              {Then(Read({"bin"}), "absent"), Commanded({"sshd"}), Commanded({}),
               Then(OfProgram({"pubkey", "files"}), "transport"),
               Then(Read({"home"}), "private"), Then(Read({"dir"}), "private"), Read({"keys"})},
                       Relevant)
      BY <2>1, <2>2, <2>3, MacSshRow
    <3>2. Ordered(Reads(use)) /\ Told(Steps(Reads(use))) = Relevant
      BY <3>1, RowOrdered DEF Row
    <3> QED
      BY <2>2, <2>3, <3>1, <3>2, RowOrdered, Forms DEF IsRead, SshRow, MacSshFacts, Programs
  <2>4. CASE WithKeys(use) = FALSE
    <3>1. Row(Relevant, {}, Reads(use),
              {Then(Read({"bin"}), "absent"), Commanded({"sshd"}), Commanded({}),
               Then(OfProgram({"pubkey", "files"}), "transport")},
              {"bin", "sshd", "pubkey", "files"})
      BY <2>1, <2>2, <2>4, MacSshRow
    <3> QED
      BY <2>2, <2>4, <3>1, RowOrdered, Forms DEF IsRead, SshRow, MacSshFacts, Programs
  <2> QED
    BY <1>1, <2>3, <2>4
<1>4. CASE platform = "windows"
  <2>1. Reads(use) = WindowsSsh(WithKeys(use)) /\ Reads("doctor") = WindowsSsh(TRUE)
    BY <1>1, <1>4 DEF Ssh
  <2>2. Relevant = WindowsSshFacts
    BY <2>1, WindowsSshRow, RelevantIs
  <2>3. CASE WithKeys(use) = TRUE
    <3>1. Row(Relevant, {}, Reads(use),
              {Commanded({}), Then(Read({"bin"}), "absent"), Commanded({"sshd"}),
               OfProgram({"pubkey", "files"}), Then(Commanded({}), "transport"),
               Then(Read({"dir"}), "private"), Read({"keys"})}, Relevant)
      BY <2>1, <2>2, <2>3, WindowsSshRow
    <3>2. Ordered(Reads(use)) /\ Told(Steps(Reads(use))) = Relevant
      BY <3>1, RowOrdered DEF Row
    <3> QED
      BY <2>2, <2>3, <3>1, <3>2, RowOrdered, Forms DEF IsRead, SshRow, WindowsSshFacts, Programs
  <2>4. CASE WithKeys(use) = FALSE
    <3>1. Row(Relevant, {}, Reads(use),
              {Commanded({}), Then(Read({"bin"}), "absent"), Commanded({"sshd"}),
               Then(OfProgram({"pubkey", "files"}), "transport")},
              {"bin", "sshd", "pubkey", "files"})
      BY <2>1, <2>2, <2>4, WindowsSshRow
    <3> QED
      BY <2>2, <2>4, <3>1, RowOrdered, Forms DEF IsRead, SshRow, WindowsSshFacts, Programs
  <2> QED
    BY <1>1, <2>3, <2>4
<1> QED
  BY <1>2, <1>3, <1>4 DEF AskedInv, Platforms

NoKeys(row) == \A read \in Steps(row) : read.then \notin {"transport", "private"}

TailscaleRow(row) ==
  /\ Told(Steps(row)) = Relevant /\ NoKeys(row)
  /\ platform = "linux" => /\ Relevant = LinuxTailscaleFacts
                           /\ \E read \in Steps(row) : read.then = "absent"
                           /\ \E read \in Steps(row) : read.then = "all"
  /\ platform = "macos" => /\ Relevant = MacTailscaleFacts
                           /\ \E read \in Steps(row) : read.then = "mode"
                           /\ \A read \in Steps(row) : read.fails # "dim"
  /\ platform = "windows" => /\ Relevant = WindowsTailscaleFacts
                             /\ \E read \in Steps(row) : read.then = "absent"
                             /\ \A read \in Steps(row) : read.fails # "dim"

LEMMA TailscaleReads ==
  ASSUME AskedInv, subject = "tailscale", NEW use
  PROVE  Ordered(Reads(use)) /\ TailscaleRow(Reads(use))
<1>1. Reads(use) = Tailscale /\ Reads("doctor") = Tailscale
  BY DEF Reads
<1>2. CASE platform = "linux"
  <2>1. Reads(use) = LinuxTailscale /\ Reads("doctor") = LinuxTailscale
    BY <1>1, <1>2 DEF Tailscale
  <2>2. Relevant = LinuxTailscaleFacts
    BY <2>1, LinuxTailscaleRow, RelevantIs
  <2>3. Row(Relevant, {}, Reads(use),
            {Read({"bin"}), Then(OrElse("local", "bin"), "absent"), Unit("active"),
             Then(Unit("enabled"), "all"), OfProgram({"online"})}, Relevant)
    BY <2>1, <2>2, LinuxTailscaleRow
  <2>4. /\ Ordered(Reads(use)) /\ Told(Steps(Reads(use))) = Relevant
        /\ Steps(Reads(use)) =
             {Read({"bin"}), Then(OrElse("local", "bin"), "absent"), Unit("active"),
              Then(Unit("enabled"), "all"), OfProgram({"online"})}
    BY <2>3, RowOrdered DEF Row
  <2> QED
    BY <1>2, <2>2, <2>4, Forms DEF IsRead, TailscaleRow, NoKeys, LinuxTailscaleFacts, Programs
<1>3. CASE platform = "macos"
  <2>1. Reads(use) = MacTailscale /\ Reads("doctor") = MacTailscale
    BY <1>1, <1>3 DEF Tailscale
  <2>2. Relevant = MacTailscaleFacts
    BY <2>1, MacTailscaleRow, RelevantIs
  <2>3. Row(Relevant, {}, Reads(use),
            {Read({"bin"}), OrElse("local", "bin"), Read({"app"}), Read({"gui"}),
             OrElse("gui2", "gui"), Read({"daemon"}), Then(OrElse("daemon2", "daemon"), "mode"),
             OfProgram({"online"})}, Relevant)
    BY <2>1, <2>2, MacTailscaleRow
  <2>4. /\ Ordered(Reads(use)) /\ Told(Steps(Reads(use))) = Relevant
        /\ Steps(Reads(use)) =
             {Read({"bin"}), OrElse("local", "bin"), Read({"app"}), Read({"gui"}),
              OrElse("gui2", "gui"), Read({"daemon"}),
              Then(OrElse("daemon2", "daemon"), "mode"), OfProgram({"online"})}
    BY <2>3, RowOrdered DEF Row
  <2> QED
    BY <1>3, <2>2, <2>4, Forms DEF IsRead, TailscaleRow, NoKeys, MacTailscaleFacts, Programs
<1>4. CASE platform = "windows"
  <2>1. Reads(use) = WindowsTailscale /\ Reads("doctor") = WindowsTailscale
    BY <1>1, <1>4 DEF Tailscale
  <2>2. Relevant = WindowsTailscaleFacts
    BY <2>1, WindowsTailscaleRow, RelevantIs
  <2>3. Row(Relevant, {}, Reads(use),
            {Then(Read({"bin"}), "absent"), Commanded({}), Read({"active"}), Read({"enabled"}),
             Read({"unattended"}), OfProgram({"online"})}, Relevant)
    BY <2>1, <2>2, WindowsTailscaleRow
  <2>4. /\ Ordered(Reads(use)) /\ Told(Steps(Reads(use))) = Relevant
        /\ Steps(Reads(use)) =
             {Then(Read({"bin"}), "absent"), Commanded({}), Read({"active"}), Read({"enabled"}),
              Read({"unattended"}), OfProgram({"online"})}
    BY <2>3, RowOrdered DEF Row
  <2> QED
    BY <1>4, <2>2, <2>4, Forms DEF IsRead, TailscaleRow, NoKeys, WindowsTailscaleFacts, Programs
<1> QED
  BY <1>2, <1>3, <1>4 DEF AskedInv, Platforms

GitRow(row) ==
  /\ Told(Steps(row)) = Relevant /\ NoKeys(row) /\ "works" \in Relevant
  /\ Relevant \cap Programs \subseteq {"bin", "local"}
  /\ \E read \in Steps(row) : read.then = "absent"
  /\ \A read \in Steps(row) : read.fails # "dim"

LEMMA GitReads ==
  ASSUME AskedInv, subject = "git", NEW use
  PROVE  Ordered(Reads(use)) /\ GitRow(Reads(use))
<1>1. Reads(use) = Git /\ Reads("doctor") = Git
  BY DEF Reads
<1>2. CASE platform # "macos"
  <2>1. Reads(use) = LinuxGit /\ Reads("doctor") = LinuxGit
    BY <1>1, <1>2 DEF Git, WindowsGit, AskedInv, Platforms
  <2>2. Relevant = LinuxGitFacts
    BY <2>1, LinuxGitRow, RelevantIs
  <2>3. Row(Relevant, {}, Reads(use),
            {Read({"bin"}), Then(OrElse("local", "bin"), "absent"), OfProgram({"works"})}, Relevant)
    BY <2>1, <2>2, LinuxGitRow
  <2>4. /\ Ordered(Reads(use)) /\ Told(Steps(Reads(use))) = Relevant
        /\ Steps(Reads(use)) =
             {Read({"bin"}), Then(OrElse("local", "bin"), "absent"), OfProgram({"works"})}
    BY <2>3, RowOrdered DEF Row
  <2> QED
    BY <1>2, <2>2, <2>4, Forms DEF IsRead, GitRow, NoKeys, LinuxGitFacts, Programs
<1>3. CASE platform = "macos"
  <2>1. Reads(use) = MacGit /\ Reads("doctor") = MacGit
    BY <1>1, <1>3 DEF Git
  <2>2. Relevant = MacGitFacts
    BY <2>1, MacGitRow, RelevantIs
  <2>3. Row(Relevant, {}, Reads(use),
            {Then(Read({"bin"}), "absent"), OfProgram({"works"})}, Relevant)
    BY <2>1, <2>2, MacGitRow
  <2>4. /\ Ordered(Reads(use)) /\ Told(Steps(Reads(use))) = Relevant
        /\ Steps(Reads(use)) =
             {Then(Read({"bin"}), "absent"), OfProgram({"works"})}
    BY <2>3, RowOrdered DEF Row
  <2> QED
    BY <1>3, <2>2, <2>4, Forms DEF IsRead, GitRow, NoKeys, MacGitFacts, Programs
<1> QED
  BY <1>2, <1>3 DEF AskedInv, Platforms

SleepRow(row) ==
  /\ Told(Steps(row)) = Relevant /\ NoKeys(row) /\ Relevant = {"awake"}
  /\ \A read \in Steps(row) : read.fails # "dim"

LEMMA SleepReads ==
  ASSUME AskedInv, subject = "sleep-policy", NEW use
  PROVE  Ordered(Reads(use)) /\ SleepRow(Reads(use))
<1>1. Reads(use) = Sleep /\ Reads("doctor") = Sleep
  BY DEF Reads
<1>2. CASE platform # "windows"
  <2>1. Reads(use) = LinuxSleep /\ Reads("doctor") = LinuxSleep
    BY <1>1, <1>2 DEF Sleep, MacSleep, AskedInv, Platforms
  <2>2. Relevant = SleepFacts
    BY <2>1, LinuxSleepRow, RelevantIs
  <2>3. Row(Relevant, {}, Reads(use),
            {Commanded({"awake"})}, Relevant)
    BY <2>1, <2>2, LinuxSleepRow
  <2>4. /\ Ordered(Reads(use)) /\ Told(Steps(Reads(use))) = Relevant
        /\ Steps(Reads(use)) =
             {Commanded({"awake"})}
    BY <2>3, RowOrdered DEF Row
  <2> QED
    BY <1>2, <2>2, <2>4, Forms DEF IsRead, SleepRow, NoKeys, SleepFacts, Programs
<1>3. CASE platform = "windows"
  <2>1. Reads(use) = WindowsSleep /\ Reads("doctor") = WindowsSleep
    BY <1>1, <1>3 DEF Sleep
  <2>2. Relevant = SleepFacts
    BY <2>1, WindowsSleepRow, RelevantIs
  <2>3. Row(Relevant, {}, Reads(use),
            {Commanded({}), Commanded({"awake"})}, Relevant)
    BY <2>1, <2>2, WindowsSleepRow
  <2>4. /\ Ordered(Reads(use)) /\ Told(Steps(Reads(use))) = Relevant
        /\ Steps(Reads(use)) =
             {Commanded({}), Commanded({"awake"})}
    BY <2>3, RowOrdered DEF Row
  <2> QED
    BY <1>3, <2>2, <2>4, Forms DEF IsRead, SleepRow, NoKeys, SleepFacts, Programs
<1> QED
  BY <1>2, <1>3 DEF AskedInv, Platforms

LEMMA NoReads ==
  ASSUME subject \in {"styrnd", "deferred"}, NEW use
  PROVE  Reads(use) = <<>> /\ Relevant = {} /\ Ordered(Reads(use))
<1>1. Reads(use) = <<>> /\ Reads("doctor") = <<>>
  BY DEF Reads
<1>2. Relevant = {}
  BY <1>1 DEF Relevant
<1>3. <<>> \in Seq(TheReads) /\ Len(<<>>) = 0
  OBVIOUS
<1> QED
  BY <1>1, <1>2, <1>3 DEF Ordered

LEMMA ReadsOrdered ==
  ASSUME AskedInv, NEW use
  PROVE  Ordered(Reads(use))
BY SshReads, TailscaleReads, GitReads, SleepReads, NoReads DEF AskedInv, Subjects

----------------------------------------------------------------------------
(* What the reads so far let a probe decide. *)

LEMMA ReadFacts ==
  ASSUME NEW read \in TheReads
  PROVE  /\ read.then \in {"go", "absent", "alias", "all", "mode", "transport", "private"}
         /\ read.fails \in {"no", "stop", "dim"}
         /\ read.fails = "dim" => read.reads \subseteq {"sshd", "ssh", "active", "enabled"}
         /\ \A fact \in read.reads, other \in read.unless :
              \/ fact = "local" /\ other = "bin"
              \/ fact = "gui2" /\ other = "gui"
              \/ fact = "daemon2" /\ other = "daemon"
         /\ "ssh" \in read.reads => read.then = "alias"
         /\ read.then = "private" => read.reads = {"home"} \/ read.reads = {"dir"}
<1>1. CASE read = Read({"bin"})
  <2>1. IsRead(read, {"bin"}, {}, "no", "go")
    BY <1>1, Forms
  <2> QED
    BY <2>1 DEF IsRead
<1>2. CASE read = Then(Read({"bin"}), "absent")
  <2>1. IsRead(read, {"bin"}, {}, "no", "absent")
    BY <1>2, Forms
  <2> QED
    BY <2>1 DEF IsRead
<1>3. CASE read = OrElse("local", "bin")
  <2>1. IsRead(read, {"local"}, {"bin"}, "no", "go")
    BY <1>3, Forms
  <2> QED
    BY <2>1 DEF IsRead
<1>4. CASE read = Then(OrElse("local", "bin"), "absent")
  <2>1. IsRead(read, {"local"}, {"bin"}, "no", "absent")
    BY <1>4, Forms
  <2> QED
    BY <2>1 DEF IsRead
<1>5. CASE read = Commanded({})
  <2>1. IsRead(read, {}, {}, "stop", "go")
    BY <1>5, Forms
  <2> QED
    BY <2>1 DEF IsRead
<1>6. CASE read = Commanded({"sshd"})
  <2>1. IsRead(read, {"sshd"}, {}, "stop", "go")
    BY <1>6, Forms
  <2> QED
    BY <2>1 DEF IsRead
<1>7. CASE read = Commanded({"awake"})
  <2>1. IsRead(read, {"awake"}, {}, "stop", "go")
    BY <1>7, Forms
  <2> QED
    BY <2>1 DEF IsRead
<1>8. CASE read = Then(OfProgram({"pubkey", "files"}), "transport")
  <2>1. IsRead(read, {"pubkey", "files"}, {}, "stop", "transport")
    BY <1>8, Forms
  <2> QED
    BY <2>1 DEF IsRead
<1>9. CASE read = Then(Commanded({}), "transport")
  <2>1. IsRead(read, {}, {}, "stop", "transport")
    BY <1>9, Forms
  <2> QED
    BY <2>1 DEF IsRead
<1>10. CASE read = OfProgram({"pubkey", "files"})
  <2>1. IsRead(read, {"pubkey", "files"}, {}, "stop", "go")
    BY <1>10, Forms
  <2> QED
    BY <2>1 DEF IsRead
<1>11. CASE read = OfProgram({"online"})
  <2>1. IsRead(read, {"online"}, {}, "stop", "go")
    BY <1>11, Forms
  <2> QED
    BY <2>1 DEF IsRead
<1>12. CASE read = OfProgram({"works"})
  <2>1. IsRead(read, {"works"}, {}, "stop", "go")
    BY <1>12, Forms
  <2> QED
    BY <2>1 DEF IsRead
<1>13. CASE read = Unit("sshd")
  <2>1. IsRead(read, {"sshd"}, {}, "dim", "go")
    BY <1>13, Forms
  <2> QED
    BY <2>1 DEF IsRead
<1>14. CASE read = Then(Unit("ssh"), "alias")
  <2>1. IsRead(read, {"ssh"}, {}, "dim", "alias")
    BY <1>14, Forms
  <2> QED
    BY <2>1 DEF IsRead
<1>15. CASE read = Unit("active")
  <2>1. IsRead(read, {"active"}, {}, "dim", "go")
    BY <1>15, Forms
  <2> QED
    BY <2>1 DEF IsRead
<1>16. CASE read = Then(Unit("enabled"), "all")
  <2>1. IsRead(read, {"enabled"}, {}, "dim", "all")
    BY <1>16, Forms
  <2> QED
    BY <2>1 DEF IsRead
<1>17. CASE read = Then(Read({"home"}), "private")
  <2>1. IsRead(read, {"home"}, {}, "no", "private")
    BY <1>17, Forms
  <2> QED
    BY <2>1 DEF IsRead
<1>18. CASE read = Then(Read({"dir"}), "private")
  <2>1. IsRead(read, {"dir"}, {}, "no", "private")
    BY <1>18, Forms
  <2> QED
    BY <2>1 DEF IsRead
<1>19. CASE read = Read({"keys"})
  <2>1. IsRead(read, {"keys"}, {}, "no", "go")
    BY <1>19, Forms
  <2> QED
    BY <2>1 DEF IsRead
<1>20. CASE read = Read({"app"})
  <2>1. IsRead(read, {"app"}, {}, "no", "go")
    BY <1>20, Forms
  <2> QED
    BY <2>1 DEF IsRead
<1>21. CASE read = Read({"gui"})
  <2>1. IsRead(read, {"gui"}, {}, "no", "go")
    BY <1>21, Forms
  <2> QED
    BY <2>1 DEF IsRead
<1>22. CASE read = OrElse("gui2", "gui")
  <2>1. IsRead(read, {"gui2"}, {"gui"}, "no", "go")
    BY <1>22, Forms
  <2> QED
    BY <2>1 DEF IsRead
<1>23. CASE read = Read({"daemon"})
  <2>1. IsRead(read, {"daemon"}, {}, "no", "go")
    BY <1>23, Forms
  <2> QED
    BY <2>1 DEF IsRead
<1>24. CASE read = Then(OrElse("daemon2", "daemon"), "mode")
  <2>1. IsRead(read, {"daemon2"}, {"daemon"}, "no", "mode")
    BY <1>24, Forms
  <2> QED
    BY <2>1 DEF IsRead
<1>25. CASE read = Read({"active"})
  <2>1. IsRead(read, {"active"}, {}, "no", "go")
    BY <1>25, Forms
  <2> QED
    BY <2>1 DEF IsRead
<1>26. CASE read = Read({"enabled"})
  <2>1. IsRead(read, {"enabled"}, {}, "no", "go")
    BY <1>26, Forms
  <2> QED
    BY <2>1 DEF IsRead
<1>27. CASE read = Read({"unattended"})
  <2>1. IsRead(read, {"unattended"}, {}, "no", "go")
    BY <1>27, Forms
  <2> QED
    BY <2>1 DEF IsRead
<1> QED
  BY <1>1, <1>2, <1>3, <1>4, <1>5, <1>6, <1>7, <1>8, <1>9, <1>10, <1>11, <1>12, <1>13, <1>14,
     <1>15, <1>16, <1>17, <1>18, <1>19, <1>20, <1>21, <1>22, <1>23, <1>24, <1>25, <1>26, <1>27
     DEF TheReads

LEMMA SameObservation ==
  ASSUME NEW p, NEW q, NEW unit, unit \in q.seen <=> unit \in p.seen, unit \in q.dim <=> unit \in p.dim
  PROVE  Observation(q, unit) = Observation(p, unit)
<1>1. (unit \in q.seen) = (unit \in p.seen)
  OBVIOUS
<1>2. CASE unit \in p.dim
  BY <1>2 DEF Observation
<1>3. CASE unit \notin p.dim
  BY <1>1, <1>3 DEF Observation
<1> QED
  BY <1>2, <1>3

\* A decision stays where nothing changes that it rests on.
LEMMA SameDecision ==
  ASSUME NEW read \in TheReads, NEW p, NEW q,
         \A fact \in Basis(read) :
           (fact \in q.seen <=> fact \in p.seen) /\ (fact \in q.dim <=> fact \in p.dim),
         Decided(read.then, read, p) = None
  PROVE  Decided(read.then, read, q) = None
<1>1. \A some : some \subseteq Basis(read) => (Saw(q, some) <=> Saw(p, some))
  BY DEF Saw
<1>2. CASE read.then = "absent"
  BY <1>1, <1>2 DEF Basis, Decided
<1>3. CASE read.then = "alias"
  <2>1. Observation(q, "sshd") = Observation(p, "sshd") /\ Observation(q, "ssh") = Observation(p, "ssh")
    <3>1. "sshd" \in Basis(read) /\ "ssh" \in Basis(read)
      BY <1>3 DEF Basis
    <3> QED
      BY <3>1, SameObservation
  <2> QED
    BY <1>3, <2>1 DEF Decided, SystemdAliasIsActive
<1>4. CASE read.then = "all"
  <2>1. /\ Observation(q, "active") = Observation(p, "active")
        /\ Observation(q, "enabled") = Observation(p, "enabled")
    <3>1. "active" \in Basis(read) /\ "enabled" \in Basis(read)
      BY <1>4 DEF Basis
    <3> QED
      BY <3>1, SameObservation
  <2> QED
    BY <1>4, <2>1 DEF Decided, AllSystemdStatesAreActive
<1>5. CASE read.then = "mode"
  <2>1. Mode(q) = Mode(p) /\ (Saw(q, Programs) <=> Saw(p, Programs))
    <3>1. /\ Saw(q, {"gui", "gui2"}) = Saw(p, {"gui", "gui2"})
          /\ Saw(q, {"daemon", "daemon2"}) = Saw(p, {"daemon", "daemon2"})
          /\ Saw(q, {"bin", "local"}) = Saw(p, {"bin", "local"})
          /\ Saw(q, Programs) = Saw(p, Programs)
          /\ ("app" \in q.seen) = ("app" \in p.seen)
      BY <1>1, <1>5 DEF Basis, Programs, Saw
    <3> QED
      BY <3>1 DEF Mode, SelectTailscaleMode, TailscaleServiceIsPersistent
  <2> QED
    BY <1>5, <2>1 DEF Decided
<1>6. CASE read.then = "transport"
  <2>1. Observation(q, "sshd") = Observation(p, "sshd") /\ Observation(q, "ssh") = Observation(p, "ssh")
    <3>1. "sshd" \in Basis(read) /\ "ssh" \in Basis(read)
      BY <1>6 DEF Basis
    <3> QED
      BY <3>1, SameObservation
  <2>2. "pubkey" \in q.seen <=> "pubkey" \in p.seen
    BY <1>6 DEF Basis
  <2>3. TransportHealthy(q) <=> TransportHealthy(p)
    BY <2>1, <2>2 DEF TransportHealthy, SystemdAliasIsActive
  <2> QED
    BY <1>6, <2>3 DEF Decided
<1>7. CASE read.then = "private"
  BY <1>1, <1>7 DEF Basis, Decided
<1>8. CASE read.then = "go"
  BY <1>8 DEF Decided
<1> QED
  BY <1>2, <1>3, <1>4, <1>5, <1>6, <1>7, <1>8, ReadFacts

\* What did not hold, or could not be read and was taken for a no.
Unmet(p) == p.missed \cup p.denied

Accounted(p, read) ==
  \A fact \in read.reads :
    \/ fact \in p.seen
    \/ fact \in Unmet(p)
    \/ read.fails = "dim" /\ fact \in p.dim
    \/ Saw(p, read.unless)

UpTo(p, n) == {Reads(p.use)[i] : i \in 1..n}

\* What holds of a probe that has made its first n reads, and of which the first m
\* decided nothing.
HasRead(p, n, m) ==
  /\ p.seen \subseteq p.held /\ p.seen \subseteq Told(UpTo(p, n))
  /\ \A fact \in p.dim : \E read \in UpTo(p, n) : read.fails = "dim" /\ fact \in read.reads
  /\ \A read \in UpTo(p, n) : Accounted(p, read)
  /\ \A read \in UpTo(p, m) : Decided(read.then, read, p) = None

Uses == {"setup", "doctor", "card"}

LEMMA FitHere ==
  ASSUME AskedInv, NEW use, NEW n \in 1..Len(Reads(use))
  PROVE  /\ Reads(use)[n] \in TheReads
         /\ Fit(Relevant, Told({Reads(use)[i] : i \in 1..(n - 1)}), Reads(use)[n])
         /\ Basis(Reads(use)[n]) \cap Relevant \subseteq Told({Reads(use)[i] : i \in 1..n})
         /\ Told({Reads(use)[i] : i \in 1..n}) \subseteq Relevant
<1> DEFINE row == Reads(use)
<1>1. Ordered(row) /\ row \in Seq(TheReads) /\ Len(row) \in Nat
  BY ReadsOrdered DEF Ordered
<1>2. \A i \in 1..n : i \in 1..Len(row)
  BY <1>1
<1> HIDE DEF row
<1>3. \A i \in 1..n : Fit(Relevant, Told({row[j] : j \in 1..(i - 1)}), row[i])
  BY <1>1, <1>2 DEF Ordered
<1>4. Told({row[i] : i \in 1..n}) \subseteq Relevant
  BY <1>3 DEF Fit, Told
<1>5. n \in 1..n /\ \A i \in 1..(n - 1) : i \in 1..n
  BY <1>1
<1>6. Basis(row[n]) \cap Relevant \subseteq Told({row[i] : i \in 1..(n - 1)}) \cup row[n].reads
  BY <1>3, <1>5 DEF Fit
<1>7. Told({row[i] : i \in 1..(n - 1)}) \cup row[n].reads \subseteq Told({row[i] : i \in 1..n})
  BY <1>5 DEF Told
<1> QED
  BY <1>3, <1>4, <1>5, <1>6, <1>7 DEF row, Fit

\* One more read: p has made n - 1 of them, and q is p after the next.
LEMMA OneMore ==
  ASSUME AskedInv, NEW p, NEW q, NEW n \in 1..Len(Reads(p.use)), HasRead(p, n - 1, n - 1),
         q.use = p.use, p.held \subseteq q.held, Unmet(p) \subseteq Unmet(q),
         p.seen \subseteq q.seen, q.seen \subseteq p.seen \cup Reads(p.use)[n].reads,
         p.dim \subseteq q.dim, q.dim \subseteq p.dim \cup Reads(p.use)[n].reads,
         q.dim # p.dim => Reads(p.use)[n].fails = "dim",
         q.seen \subseteq q.held, Accounted(q, Reads(p.use)[n])
  PROVE  HasRead(q, n, n - 1)
<1> DEFINE now == Reads(p.use)[n]
<1>1. n - 1 \in Nat /\ n \in Nat /\ 1..n = 1..(n - 1) \cup {n}
  <2>1. Len(Reads(p.use)) \in Nat
    BY ReadsOrdered DEF Ordered
  <2> QED
    BY <2>1
<1>2. UpTo(q, n) = UpTo(p, n - 1) \cup {now} /\ UpTo(q, n - 1) = UpTo(p, n - 1)
  BY <1>1 DEF UpTo
<1>3. Fit(Relevant, Told(UpTo(p, n - 1)), now)
  BY FitHere DEF UpTo
<1>4. \A i \in 1..(n - 1) : i \in 1..Len(Reads(p.use))
  <2>1. Len(Reads(p.use)) \in Nat
    BY ReadsOrdered DEF Ordered
  <2> QED
    BY <1>1, <2>1
<1> HIDE DEF now
<1>5. \A read \in UpTo(p, n - 1) : read \in TheReads
        /\ Basis(read) \cap Relevant \subseteq Told(UpTo(p, n - 1))
  <2> SUFFICES ASSUME NEW i \in 1..(n - 1)
               PROVE  LET read == Reads(p.use)[i] IN
                      read \in TheReads /\ Basis(read) \cap Relevant \subseteq Told(UpTo(p, n - 1))
    BY DEF UpTo
  <2>1. Reads(p.use)[i] \in TheReads
        /\ Basis(Reads(p.use)[i]) \cap Relevant \subseteq Told(UpTo(p, i))
    BY <1>4, FitHere DEF UpTo
  <2>2. Told(UpTo(p, i)) \subseteq Told(UpTo(p, n - 1))
    <3>1. \A j \in 1..i : j \in 1..(n - 1)
      BY <1>1
    <3> QED
      BY <3>1 DEF UpTo, Told
  <2> QED
    BY <2>1, <2>2
<1>6. now.reads \subseteq Relevant /\ now.reads \cap Told(UpTo(p, n - 1)) = {}
  BY <1>3 DEF Fit
<1>7. ASSUME NEW read \in UpTo(p, n - 1) PROVE Accounted(q, read)
  <2>1. Accounted(p, read)
    BY DEF HasRead
  <2> QED
    BY <2>1 DEF Accounted, Saw
<1>8. ASSUME NEW read \in UpTo(p, n - 1) PROVE Decided(read.then, read, q) = None
  <2>1. \A fact \in Basis(read) : fact \notin now.reads
    BY <1>5, <1>6
  <2>2. \A fact \in Basis(read) :
          (fact \in q.seen <=> fact \in p.seen) /\ (fact \in q.dim <=> fact \in p.dim)
    BY <2>1 DEF now
  <2>3. Decided(read.then, read, p) = None
    BY DEF HasRead
  <2> QED
    BY <1>5, <2>2, <2>3, SameDecision
<1>9. q.seen \subseteq Told(UpTo(q, n))
  BY <1>2 DEF HasRead, Told, now
<1>10. \A fact \in q.dim : \E read \in UpTo(q, n) : read.fails = "dim" /\ fact \in read.reads
  BY <1>2 DEF HasRead, now
<1>11. \A read \in UpTo(q, n) : Accounted(q, read)
  BY <1>2, <1>7 DEF now
<1> QED
  BY <1>2, <1>8, <1>9, <1>10, <1>11 DEF HasRead

----------------------------------------------------------------------------
(* What a probe says is so. *)

ReadyFor(p) == \A some \in Needs(p.use) : some \cap p.held # {}
NotReadyFor(p) == \E some \in Needs(p.use) : some \cap Relevant \subseteq Unmet(p)
NotThereFor(p) == Relevant \cap Programs \subseteq Unmet(p)

Said == {"healthy", "unhealthy", "absent", "broken", "unknowable"}
Postures == [mode : {None, "gui", "tailscaled", "service"},
             persistent : BOOLEAN, unattended : BOOLEAN]

Sound(p, status) ==
  /\ status # None
  /\ status.is \in Said
  /\ status.is = "healthy" => ReadyFor(p)
  /\ status.is = "absent" => NotThereFor(p)
  /\ status.is \in {"unhealthy", "broken"} => NotReadyFor(p)

LEMMA StatusIs ==
  ASSUME NEW is \in Said
  PROVE  Status(is) # None /\ Status(is).is = is
<1>1. [is |-> is, posture |-> None] \in
        [is : {"healthy", "unhealthy", "absent", "broken", "unknowable"}, posture : {None}
                \cup Postures]
  BY DEF Said
<1>2. [is |-> is, posture |-> None] # None
  BY <1>1, BaselineAssumption DEF Postures
<1> QED
  BY <1>2 DEF Status

LEMMA UnknownSound ==
  ASSUME NEW p
  PROVE  Sound(p, Status("unknowable"))
BY StatusIs DEF Sound, Said

LEMMA MissingSound ==
  ASSUME NEW p, NotReadyFor(p)
  PROVE  Sound(p, Status("unhealthy")) /\ Sound(p, Status("broken"))
BY StatusIs DEF Sound, Said

LEMMA ReadsOf ==
  ASSUME AskedInv, NEW p, NEW n \in 1..Len(Reads(p.use)), NEW read \in UpTo(p, n)
  PROVE  /\ read \in TheReads /\ read \in Steps(Reads(p.use))
         /\ read.fails = "dim" /\ "sshd" \in read.reads => "ssh" \in Relevant
<1>1. Reads(p.use) \in Seq(TheReads) /\ DOMAIN Reads(p.use) = 1..Len(Reads(p.use))
        /\ Len(Reads(p.use)) \in Nat
  BY ReadsOrdered DEF Ordered
<1>2. PICK i \in 1..n : read = Reads(p.use)[i]
  BY DEF UpTo
<1>3. i \in 1..Len(Reads(p.use))
  BY <1>1
<1> QED
  BY <1>1, <1>2, <1>3, FitHere DEF Fit, Steps

\* A fact that was asked for and not seen was missed, or there was a reason.
LEMMA NotSeen ==
  ASSUME AskedInv, NEW p, NEW n \in 1..Len(Reads(p.use)), NEW m, HasRead(p, n, m),
         NEW fact \in Told(UpTo(p, n)), fact \notin p.seen
  PROVE  \/ fact \in Unmet(p)
         \/ fact \in p.dim /\ fact \in {"sshd", "ssh", "active", "enabled"}
         \/ fact = "local" /\ "bin" \in p.seen
         \/ fact = "gui2" /\ "gui" \in p.seen
         \/ fact = "daemon2" /\ "daemon" \in p.seen
<1>1. PICK read \in UpTo(p, n) : fact \in read.reads
  BY DEF Told
<1>2. read \in TheReads /\ Accounted(p, read)
  BY ReadsOf DEF HasRead
<1> QED
  BY <1>1, <1>2, ReadFacts DEF Accounted, Saw

LEMMA NoProgram ==
  ASSUME AskedInv, NEW p, NEW n \in 1..Len(Reads(p.use)), NEW m, HasRead(p, n, m),
         Relevant \cap Programs \subseteq Told(UpTo(p, n)), ~Saw(p, Programs)
  PROVE  NotThereFor(p) /\ Sound(p, Status("absent"))
<1>1. \A fact \in Relevant \cap Programs : fact \in Unmet(p)
  BY NotSeen DEF Programs, Saw
<1> QED
  BY <1>1, StatusIs DEF NotThereFor, Sound, Said

\* Where sshd is unknown there is an alias, and it was asked.
LEMMA AliasKnown ==
  ASSUME AskedInv, NEW p, NEW n \in 1..Len(Reads(p.use)), HasRead(p, n, n - 1),
         Reads(p.use)[n].then # "alias", Relevant \cap {"sshd", "ssh"} \subseteq Told(UpTo(p, n))
  PROVE  /\ SystemdAliasIsActive(p) # TRUE => {"sshd", "ssh"} \cap (p.seen \cup p.dim) = {}
         /\ SystemdAliasIsActive(p) = TRUE => Saw(p, {"sshd", "ssh"})
<1>1. ASSUME "ssh" \in Told(UpTo(p, n)) PROVE SystemdAliasIsActive(p) # None
  <2>1. PICK read \in UpTo(p, n) : "ssh" \in read.reads
    BY <1>1 DEF Told
  <2>2. read.then = "alias" /\ read \in UpTo(p, n - 1)
    <3>1. read.then = "alias"
      BY <2>1, ReadsOf, ReadFacts
    <3>2. \A i \in 1..n : i = n \/ i \in 1..(n - 1)
      OBVIOUS
    <3> QED
      BY <3>1, <3>2 DEF UpTo
  <2>3. Decided("alias", read, p) = None
    BY <2>2 DEF HasRead
  <2>4. Status("unknowable") # None
    BY StatusIs DEF Said
  <2> QED
    BY <2>3, <2>4 DEF Decided
<1>2. ASSUME {"sshd", "ssh"} \cap p.dim # {} PROVE "ssh" \in Told(UpTo(p, n))
  <2>1. CASE "ssh" \in p.dim
    BY <2>1 DEF HasRead, Told
  <2>2. CASE "sshd" \in p.dim
    <3>1. PICK read \in UpTo(p, n) : read.fails = "dim" /\ "sshd" \in read.reads
      BY <2>2 DEF HasRead
    <3>2. "ssh" \in Relevant
      BY <3>1, ReadsOf
    <3> QED
      BY <3>2
  <2> QED
    BY <1>2, <2>1, <2>2
<1> DEFINE units == {Observation(p, "sshd"), Observation(p, "ssh")}
<1>3. \A unit : /\ Observation(p, unit) = None <=> unit \in p.dim
                /\ Observation(p, unit) = TRUE => unit \in p.seen
                /\ Observation(p, unit) # TRUE /\ unit \notin p.dim => unit \notin p.seen
  <2> SUFFICES ASSUME NEW unit
               PROVE  /\ Observation(p, unit) = None <=> unit \in p.dim
                      /\ Observation(p, unit) = TRUE => unit \in p.seen
                      /\ Observation(p, unit) # TRUE /\ unit \notin p.dim => unit \notin p.seen
    OBVIOUS
  <2>1. None \notin BOOLEAN
    BY BaselineAssumption
  <2>2. CASE unit \in p.dim
    BY <2>1, <2>2 DEF Observation
  <2>3. CASE unit \notin p.dim
    <3>1. CASE unit \in p.seen
      <4>1. Observation(p, unit) = TRUE
        BY <2>3, <3>1 DEF Observation
      <4> QED
        BY <2>1, <2>3, <3>1, <4>1
    <3>2. CASE unit \notin p.seen
      <4>1. Observation(p, unit) = FALSE
        BY <2>3, <3>2 DEF Observation
      <4> QED
        BY <2>1, <2>3, <3>2, <4>1
    <3> QED
      BY <3>1, <3>2
  <2> QED
    BY <2>2, <2>3
<1>4. SystemdAliasIsActive(p) = TRUE <=> TRUE \in units
  BY BaselineAssumption DEF SystemdAliasIsActive
<1>5. TRUE \notin units /\ None \in units => SystemdAliasIsActive(p) = None
  BY DEF SystemdAliasIsActive
<1>6. ASSUME SystemdAliasIsActive(p) # TRUE PROVE {"sshd", "ssh"} \cap (p.seen \cup p.dim) = {}
  <2>1. TRUE \notin units
    BY <1>4, <1>6
  <2>2. None \notin units
    BY <1>1, <1>2, <1>3, <1>5, <2>1
  <2> QED
    BY <1>3, <2>1, <2>2
<1>7. ASSUME SystemdAliasIsActive(p) = TRUE PROVE Saw(p, {"sshd", "ssh"})
  BY <1>3, <1>4, <1>7 DEF Saw
<1> QED
  BY <1>6, <1>7

\* What a read decides at once is sound.
LEMMA DecidedSound ==
  ASSUME AskedInv, NEW p, NEW n \in 1..Len(Reads(p.use)), HasRead(p, n, n - 1),
         Decided(Reads(p.use)[n].then, Reads(p.use)[n], p) # None
  PROVE  Sound(p, Decided(Reads(p.use)[n].then, Reads(p.use)[n], p))
<1> DEFINE now == Reads(p.use)[n]
           decided == Decided(now.then, now, p)
<1>1. now \in UpTo(p, n)
  BY DEF UpTo
<1>2. /\ now \in TheReads /\ now \in Steps(Reads(p.use))
      /\ Basis(now) \cap Relevant \subseteq Told(UpTo(p, n)) /\ now.reads \subseteq Relevant
  BY <1>1, ReadsOf, FitHere DEF UpTo, Fit
<1> HIDE DEF now
<1>3. CASE now.then = "absent"
  <2>1. Relevant \cap Programs \subseteq Told(UpTo(p, n))
    BY <1>2, <1>3 DEF Basis
  <2>2. decided = Status("absent") /\ ~Saw(p, Programs)
    BY <1>3 DEF Decided, now
  <2> QED
    BY <2>1, <2>2, NoProgram DEF now
<1>4. CASE now.then \in {"alias", "all"}
  <2>1. decided = Status("unknowable")
    BY <1>4 DEF Decided, now
  <2> QED
    BY <2>1, UnknownSound DEF now
<1>5. CASE now.then = "mode"
  <2>1. Relevant \cap Programs \subseteq Told(UpTo(p, n))
    BY <1>2, <1>5 DEF Basis, Programs
  <2>2. decided = Status(IF Saw(p, Programs) THEN "unknowable" ELSE "absent")
    BY <1>5 DEF Decided, now
  <2> QED
    BY <2>1, <2>2, NoProgram, UnknownSound DEF now
<1>6. subject # "ssh-server" => now.then \notin {"transport", "private"}
  <2>1. CASE subject = "tailscale"
    BY <1>2, <2>1, TailscaleReads DEF TailscaleRow, NoKeys
  <2>2. CASE subject = "git"
    BY <1>2, <2>2, GitReads DEF GitRow, NoKeys
  <2>3. CASE subject = "sleep-policy"
    BY <1>2, <2>3, SleepReads DEF SleepRow, NoKeys
  <2>4. CASE subject \in {"styrnd", "deferred"}
    <3>1. Reads(p.use) = <<>>
      BY <2>4, NoReads
    <3> QED
      BY <3>1
  <2> QED
    BY <2>1, <2>2, <2>3, <2>4 DEF AskedInv, Subjects
<1>7. CASE now.then = "transport"
  <2>1. subject = "ssh-server" /\ Relevant \cap {"sshd", "ssh", "pubkey"} \subseteq Told(UpTo(p, n))
    BY <1>2, <1>6, <1>7 DEF Basis
  <2>2. decided = Status("unhealthy") /\ ~TransportHealthy(p)
    BY <1>7 DEF Decided, now
  <2>3. /\ SystemdAliasIsActive(p) # TRUE => {"sshd", "ssh"} \cap (p.seen \cup p.dim) = {}
    BY <1>7, <2>1, AliasKnown DEF now
  <2>4. {{"sshd", "ssh"}, {"pubkey"}} \subseteq Needs(p.use)
    BY <2>1 DEF Needs
  <2>5. NotReadyFor(p)
    <3>1. CASE "pubkey" \notin p.seen
      <4>1. {"pubkey"} \cap Relevant \subseteq Unmet(p)
        BY <2>1, <3>1, NotSeen
      <4> QED
        BY <2>4, <4>1 DEF NotReadyFor
    <3>2. CASE SystemdAliasIsActive(p) # TRUE
      <4>1. {"sshd", "ssh"} \cap Relevant \subseteq Unmet(p)
        BY <2>1, <2>3, <3>2, NotSeen
      <4> QED
        BY <2>4, <4>1 DEF NotReadyFor
    <3> QED
      BY <2>2, <3>1, <3>2 DEF TransportHealthy
  <2> QED
    BY <2>2, <2>5, MissingSound DEF now
<1>8. CASE now.then = "private"
  <2>1. subject = "ssh-server" /\ now.reads \subseteq Told(UpTo(p, n))
    BY <1>1, <1>6, <1>8 DEF Told
  <2>2. decided = Status("unhealthy") /\ now.reads \cap p.seen = {}
    BY <1>8 DEF Decided, now, Saw
  <2>3. PICK fact \in {"home", "dir"} : now.reads = {fact}
    BY <1>2, <1>8, ReadFacts
  <2>4. WithKeys(p.use)
    BY <1>2, <1>8, <2>1, SshReads DEF SshRow
  <2>5. {fact} \in Needs(p.use)
    BY <1>2, <2>1, <2>3, <2>4 DEF Needs, Some
  <2>6. {fact} \subseteq Unmet(p)
    BY <2>1, <2>2, <2>3, NotSeen
  <2>7. NotReadyFor(p)
    BY <2>5, <2>6 DEF NotReadyFor
  <2> QED
    BY <2>2, <2>7, MissingSound DEF now
<1>9. CASE now.then = "go"
  BY <1>9 DEF Decided, now
<1> QED
  BY <1>2, <1>3, <1>4, <1>5, <1>7, <1>8, <1>9, ReadFacts

LEMMA AliasSeen ==
  ASSUME NEW p, SystemdAliasIsActive(p) = TRUE
  PROVE  Saw(p, {"sshd", "ssh"})
<1>1. \A unit : Observation(p, unit) = TRUE => unit \in p.seen
  <2> SUFFICES ASSUME NEW unit, Observation(p, unit) = TRUE PROVE unit \in p.seen
    OBVIOUS
  <2>1. CASE unit \in p.dim
    BY <2>1, BaselineAssumption DEF Observation
  <2>2. CASE unit \notin p.dim
    BY <2>2 DEF Observation
  <2> QED
    BY <2>1, <2>2
<1>2. TRUE \in {Observation(p, "sshd"), Observation(p, "ssh")}
  BY BaselineAssumption DEF SystemdAliasIsActive
<1> QED
  BY <1>1, <1>2 DEF Saw

\* A probe that has made all its reads, none of which decided anything.
HasReadAll(p) ==
  LET last == Len(Reads(p.use)) IN last \in 1..last /\ HasRead(p, last, last)

LEMMA AllRead ==
  ASSUME AskedInv, NEW p, HasReadAll(p)
  PROVE  /\ p.seen \subseteq p.held /\ p.seen \subseteq Relevant
         /\ \A read \in Steps(Reads(p.use)) : Decided(read.then, read, p) = None
         /\ \A fact \in p.dim : \E read \in Steps(Reads(p.use)) : read.fails = "dim"
                 /\ fact \in read.reads
         /\ \A fact \in Told(Steps(Reads(p.use))) \ p.seen :
              \/ fact \in Unmet(p)
              \/ fact \in p.dim /\ fact \in {"sshd", "ssh", "active", "enabled"}
              \/ fact = "local" /\ "bin" \in p.seen
              \/ fact = "gui2" /\ "gui" \in p.seen
              \/ fact = "daemon2" /\ "daemon" \in p.seen
<1> DEFINE last == Len(Reads(p.use))
<1>1. last \in 1..Len(Reads(p.use)) /\ HasRead(p, last, last)
  BY DEF HasReadAll
<1>2. Reads(p.use) \in Seq(TheReads) /\ DOMAIN Reads(p.use) = 1..last
  BY ReadsOrdered DEF Ordered
<1>3. UpTo(p, last) = Steps(Reads(p.use))
  BY <1>2 DEF UpTo, Steps
<1> HIDE DEF last
<1>4. Told(UpTo(p, last)) \subseteq Relevant
  BY <1>1, FitHere DEF UpTo
<1>5. \A fact \in Told(UpTo(p, last)) \ p.seen :
              \/ fact \in Unmet(p)
              \/ fact \in p.dim /\ fact \in {"sshd", "ssh", "active", "enabled"}
              \/ fact = "local" /\ "bin" \in p.seen
              \/ fact = "gui2" /\ "gui" \in p.seen
              \/ fact = "daemon2" /\ "daemon" \in p.seen
  BY <1>1, NotSeen
<1> QED
  BY <1>1, <1>3, <1>4, <1>5 DEF HasRead

LEMMA ProgramFound ==
  ASSUME NEW p, NEW read, read.then = "absent", Decided(read.then, read, p) = None
  PROVE  Saw(p, Programs)
BY StatusIs DEF Decided, Said

LEMMA TransportFound ==
  ASSUME NEW p, NEW read, read.then = "transport", Decided(read.then, read, p) = None
  PROVE  TransportHealthy(p)
BY StatusIs DEF Decided, Said

LEMMA PrivateFound ==
  ASSUME NEW p, NEW read, read.then = "private", Decided(read.then, read, p) = None
  PROVE  Saw(p, read.reads)
BY StatusIs DEF Decided, Said

LEMMA HealthySound ==
  ASSUME NEW p, ReadyFor(p)
  PROVE  Sound(p, Status("healthy"))
BY StatusIs DEF Sound, Said

LEMMA SshSound ==
  ASSUME AskedInv, subject = "ssh-server", NEW p, HasReadAll(p)
  PROVE  Sound(p, BaselineProbeSnapshot(p))
<1> DEFINE row == Reads(p.use)
           healthy == WithKeys(p.use) => {"files", "keys"} \subseteq p.seen
<1>1. SshRow(p.use, row)
  BY SshReads
<1>2. BaselineProbeSnapshot(p) = Status(IF healthy THEN "healthy" ELSE "unhealthy")
  BY DEF BaselineProbeSnapshot
<1>3. CASE healthy
  <2>1. {"bin", "local"} \cap p.held # {}
    <3>1. Saw(p, Programs)
      BY <1>1, AllRead, ProgramFound DEF SshRow
    <3> QED
      BY <1>1, <3>1, AllRead DEF SshRow, Saw
  <2>2. {"sshd", "ssh"} \cap p.held # {} /\ "pubkey" \in p.held
    <3>1. TransportHealthy(p)
      BY <1>1, AllRead, TransportFound DEF SshRow
    <3> QED
      BY <3>1, AllRead, AliasSeen DEF TransportHealthy, Saw
  <2>3. ASSUME WithKeys(p.use), NEW fact \in Relevant \cap {"files", "home", "dir", "keys"}
        PROVE  fact \in p.held
    <3>1. CASE fact \in {"files", "keys"}
      BY <1>3, <2>3, <3>1, AllRead
    <3>2. CASE fact \in {"home", "dir"}
      <4>1. PICK read \in Steps(row) : read.then = "private" /\ read.reads = {fact}
        BY <1>1, <2>3, <3>2 DEF SshRow
      <4>2. Saw(p, read.reads)
        BY <4>1, AllRead, PrivateFound
      <4> QED
        BY <4>1, <4>2, AllRead DEF Saw
    <3> QED
      BY <2>3, <3>1, <3>2
  <2>4. ReadyFor(p)
    <3> SUFFICES ASSUME NEW some \in Needs(p.use) PROVE some \cap p.held # {}
      BY DEF ReadyFor
    <3>1. \/ some \in {{"bin", "local"}, {"sshd", "ssh"}, {"pubkey"}}
          \/ WithKeys(p.use) /\ some \in Some(Relevant \cap {"files", "home", "dir", "keys"})
      BY DEF Needs
    <3> QED
      BY <2>1, <2>2, <2>3, <3>1 DEF Some
  <2> QED
    BY <1>2, <1>3, <2>4, HealthySound
<1>4. CASE ~healthy
  <2>1. PICK fact \in {"files", "keys"} : fact \notin p.seen
    BY <1>4
  <2>2. WithKeys(p.use) /\ fact \in Relevant /\ Told(Steps(row)) = Relevant
    BY <1>1, <1>4 DEF SshRow
  <2>3. fact \in Unmet(p)
    BY <2>1, <2>2, AllRead
  <2>4. {fact} \in Needs(p.use)
    BY <2>2 DEF Needs, Some
  <2>5. NotReadyFor(p)
    BY <2>3, <2>4 DEF NotReadyFor
  <2> QED
    BY <1>2, <1>4, <2>5, MissingSound
<1> QED
  BY <1>3, <1>4

LEMMA GitSound ==
  ASSUME AskedInv, subject = "git", NEW p, HasReadAll(p)
  PROVE  Sound(p, BaselineProbeSnapshot(p))
<1>1. GitRow(Reads(p.use))
  BY GitReads
<1>2. Needs(p.use) = {{"bin", "local"}, {"works"}}
  BY DEF Needs
<1>3. BaselineProbeSnapshot(p) = Status(IF "works" \in p.seen THEN "healthy" ELSE "broken")
  BY DEF BaselineProbeSnapshot
<1>4. CASE "works" \in p.seen
  <2>1. Saw(p, Programs)
    BY <1>1, AllRead, ProgramFound DEF GitRow
  <2>2. {"bin", "local"} \cap p.held # {}
    BY <1>1, <2>1, AllRead DEF GitRow, Saw
  <2>3. ReadyFor(p)
    BY <1>2, <1>4, <2>2, AllRead DEF ReadyFor
  <2> QED
    BY <1>3, <1>4, <2>3, HealthySound
<1>5. CASE "works" \notin p.seen
  <2>1. "works" \in Unmet(p)
    BY <1>1, <1>5, AllRead DEF GitRow
  <2>2. NotReadyFor(p)
    BY <1>2, <2>1 DEF NotReadyFor
  <2> QED
    BY <1>3, <1>5, <2>2, MissingSound
<1> QED
  BY <1>4, <1>5

LEMMA SleepSound ==
  ASSUME AskedInv, subject = "sleep-policy", NEW p, HasReadAll(p)
  PROVE  Sound(p, BaselineProbeSnapshot(p))
<1>1. SleepRow(Reads(p.use))
  BY SleepReads
<1>2. Needs(p.use) = {{"awake"}}
  BY DEF Needs
<1>3. BaselineProbeSnapshot(p) = Status(IF "awake" \in p.seen THEN "healthy" ELSE "unhealthy")
  BY DEF BaselineProbeSnapshot
<1>4. CASE "awake" \in p.seen
  <2>1. ReadyFor(p)
    BY <1>2, <1>4, AllRead DEF ReadyFor
  <2> QED
    BY <1>3, <1>4, <2>1, HealthySound
<1>5. CASE "awake" \notin p.seen
  <2>1. "awake" \in Unmet(p)
    BY <1>1, <1>5, AllRead DEF SleepRow
  <2>2. NotReadyFor(p)
    BY <1>2, <2>1 DEF NotReadyFor
  <2> QED
    BY <1>3, <1>5, <2>2, MissingSound
<1> QED
  BY <1>4, <1>5

\* What Tailscale's snapshot is made of.
LEMMA TailscaleSnapshot ==
  ASSUME AskedInv, subject = "tailscale", NEW p, Mode(p) \in {"gui", "tailscaled", "service"}
  PROVE  LET posture == Posture(p) IN
         /\ BaselineProbeSnapshot(p).is =
              IF /\ "online" \in p.seen /\ posture.persistent
                 /\ posture.mode = "service" => posture.unattended
                 /\ posture.mode = Requested(p.use) THEN "healthy" ELSE "unhealthy"
         /\ BaselineProbeSnapshot(p) # None
<1> DEFINE posture == Posture(p)
           is == IF /\ "online" \in p.seen /\ posture.persistent
                    /\ posture.mode = "service" => posture.unattended
                    /\ posture.mode = Requested(p.use) THEN "healthy" ELSE "unhealthy"
<1>1. posture \in Postures
  <2>1. (IF platform # "macos" THEN {"active", "enabled"} \subseteq p.seen
         ELSE Saw(p, IF Mode(p) = "gui" THEN {"gui", "gui2"} ELSE {"daemon", "daemon2"})) \in BOOLEAN
    BY DEF Saw
  <2>2. (IF platform = "windows" THEN "unattended" \in p.seen ELSE Mode(p) = "tailscaled") \in BOOLEAN
    <3>1. ("unattended" \in p.seen) \in BOOLEAN /\ (Mode(p) = "tailscaled") \in BOOLEAN
      OBVIOUS
    <3> QED
      BY <3>1
  <2> QED
    BY <2>1, <2>2 DEF Posture, Postures
<1>2. BaselineProbeSnapshot(p) = [is |-> is, posture |-> posture]
  BY DEF BaselineProbeSnapshot, TailscaleStatusSnapshot
<1>3. is \in {"healthy", "unhealthy"}
  OBVIOUS
<1> HIDE DEF is, posture
<1>4. [is |-> is, posture |-> posture] \in
        [is : {"healthy", "unhealthy", "absent", "broken", "unknowable"}, posture : {None}
                \cup Postures]
  BY <1>1, <1>3
<1>5. [is |-> is, posture |-> posture] # None
  BY <1>4, BaselineAssumption DEF Postures
<1>6. BaselineProbeSnapshot(p).is = is /\ BaselineProbeSnapshot(p) # None
  BY <1>2, <1>5
<1> QED
  BY <1>6 DEF is, posture

LEMMA UnitsKnown ==
  ASSUME NEW p, NEW read, read.then = "all", Decided(read.then, read, p) = None
  PROVE  p.dim \cap {"active", "enabled"} = {}
<1>1. AllSystemdStatesAreActive(p) # None
  BY StatusIs DEF Decided, Said
<1> QED
  BY <1>1 DEF AllSystemdStatesAreActive, Observation

LEMMA ModeKnown ==
  ASSUME NEW p, NEW read, read.then = "mode", Decided(read.then, read, p) = None
  PROVE  Mode(p) # None
BY StatusIs DEF Decided, Said

LEMMA RequestedIs ==
  ASSUME AskedInv, NEW use
  PROVE  Requested(use) \in {"gui", "tailscaled", "service"}
BY DEF AskedInv, Platforms, Requested, DefaultMode

LEMMA SnapshotSound ==
  ASSUME NEW p, NEW status, status # None, NEW healthy \in BOOLEAN,
         status.is = IF healthy THEN "healthy" ELSE "unhealthy",
         healthy => ReadyFor(p), ~healthy => NotReadyFor(p)
  PROVE  Sound(p, status)
BY DEF Sound, Said

LEMMA LinuxTailscaleSound ==
  ASSUME AskedInv, subject = "tailscale", platform = "linux", NEW p, HasReadAll(p)
  PROVE  Sound(p, BaselineProbeSnapshot(p))
<1> DEFINE healthy == /\ "online" \in p.seen /\ {"active", "enabled"} \subseteq p.seen
                      /\ Requested(p.use) = "tailscaled"
<1>1. TailscaleRow(Reads(p.use))
  BY TailscaleReads
<1>2. /\ Mode(p) = "tailscaled" /\ Posture(p).mode = "tailscaled"
      /\ Posture(p).persistent = ({"active", "enabled"} \subseteq p.seen)
  BY DEF Mode, Posture
<1>3. BaselineProbeSnapshot(p) # None
      /\ BaselineProbeSnapshot(p).is = IF healthy THEN "healthy" ELSE "unhealthy"
  <2>1. Posture(p).persistent <=> {"active", "enabled"} \subseteq p.seen
    BY <1>2
  <2>2. /\ "online" \in p.seen /\ Posture(p).persistent
        /\ Posture(p).mode = "service" => Posture(p).unattended
        /\ Posture(p).mode = Requested(p.use)
        <=> healthy
    BY <1>2, <2>1
  <2> QED
    BY <1>2, <2>2, TailscaleSnapshot
<1>4. p.dim \cap {"active", "enabled"} = {} /\ Saw(p, Programs)
  BY <1>1, AllRead, UnitsKnown, ProgramFound DEF TailscaleRow
<1>5. Requested(p.use) = "tailscaled" =>
        Needs(p.use) = {{"bin", "local"}, {"active"}, {"enabled"}, {"online"}}
  BY DEF Needs, ModeNeeds, DefaultMode, Some
<1>6. Requested(p.use) # "tailscaled" => {} \in Needs(p.use)
  BY DEF Needs, ModeNeeds, DefaultMode
<1>7. ASSUME healthy PROVE ReadyFor(p)
  <2>1. {"bin", "local"} \cap p.held # {}
    BY <1>1, <1>4, AllRead DEF TailscaleRow, LinuxTailscaleFacts, Saw, Programs
  <2> QED
    BY <1>5, <1>7, <2>1, AllRead DEF ReadyFor
<1>8. ASSUME ~healthy PROVE NotReadyFor(p)
  <2>1. CASE Requested(p.use) # "tailscaled"
    BY <1>6, <2>1 DEF NotReadyFor
  <2>2. CASE Requested(p.use) = "tailscaled"
    <3>1. PICK fact \in {"online", "active", "enabled"} : fact \notin p.seen
      BY <1>8, <2>2
    <3>2. fact \in Unmet(p)
      BY <1>1, <1>4, <3>1, AllRead DEF TailscaleRow, LinuxTailscaleFacts
    <3>3. {fact} \in Needs(p.use)
      BY <1>5, <2>2
    <3> QED
      BY <3>2, <3>3 DEF NotReadyFor
  <2> QED
    BY <2>1, <2>2
<1> QED
  BY <1>3, <1>7, <1>8, SnapshotSound

LEMMA WindowsTailscaleSound ==
  ASSUME AskedInv, subject = "tailscale", platform = "windows", NEW p, HasReadAll(p)
  PROVE  Sound(p, BaselineProbeSnapshot(p))
<1> DEFINE healthy == /\ "online" \in p.seen /\ {"active", "enabled"} \subseteq p.seen
                      /\ "unattended" \in p.seen /\ Requested(p.use) = "service"
<1>1. TailscaleRow(Reads(p.use))
  BY TailscaleReads
<1>2. /\ Mode(p) = "service" /\ Posture(p).mode = "service"
      /\ Posture(p).persistent = ({"active", "enabled"} \subseteq p.seen)
      /\ Posture(p).unattended = ("unattended" \in p.seen)
  BY DEF Mode, Posture
<1>3. BaselineProbeSnapshot(p) # None
      /\ BaselineProbeSnapshot(p).is = IF healthy THEN "healthy" ELSE "unhealthy"
  <2>1. /\ Posture(p).persistent <=> {"active", "enabled"} \subseteq p.seen
        /\ Posture(p).unattended <=> "unattended" \in p.seen
    BY <1>2
  <2>2. /\ "online" \in p.seen /\ Posture(p).persistent
        /\ Posture(p).mode = "service" => Posture(p).unattended
        /\ Posture(p).mode = Requested(p.use)
        <=> healthy
    BY <1>2, <2>1
  <2> QED
    BY <1>2, <2>2, TailscaleSnapshot
<1>4. p.dim = {} /\ Saw(p, Programs)
  BY <1>1, AllRead, ProgramFound DEF TailscaleRow
<1>5. Requested(p.use) = "service" =>
        Needs(p.use) = {{"bin"}, {"active"}, {"enabled"}, {"unattended"}, {"online"}}
  BY DEF Needs, ModeNeeds, DefaultMode, Some
<1>6. Requested(p.use) # "service" => {} \in Needs(p.use)
  BY DEF Needs, ModeNeeds, DefaultMode
<1>7. ASSUME healthy PROVE ReadyFor(p)
  <2>1. {"bin"} \cap p.held # {}
    BY <1>1, <1>4, AllRead DEF TailscaleRow, WindowsTailscaleFacts, Saw, Programs
  <2> QED
    BY <1>5, <1>7, <2>1, AllRead DEF ReadyFor
<1>8. ASSUME ~healthy PROVE NotReadyFor(p)
  <2>1. CASE Requested(p.use) # "service"
    BY <1>6, <2>1 DEF NotReadyFor
  <2>2. CASE Requested(p.use) = "service"
    <3>1. PICK fact \in {"online", "active", "enabled", "unattended"} : fact \notin p.seen
      BY <1>8, <2>2
    <3>2. fact \in Unmet(p)
      BY <1>1, <1>4, <3>1, AllRead DEF TailscaleRow, WindowsTailscaleFacts
    <3>3. {fact} \in Needs(p.use)
      BY <1>5, <2>2
    <3> QED
      BY <3>2, <3>3 DEF NotReadyFor
  <2> QED
    BY <2>1, <2>2
<1> QED
  BY <1>3, <1>7, <1>8, SnapshotSound

\* Of the two that may be there on macOS, the one that was selected is there, and what
\* was not selected is not there or not set to stay.
LEMMA MacModeIs ==
  ASSUME NEW p, platform = "macos", Mode(p) # None
  PROVE  /\ Mode(p) \in {"gui", "tailscaled"}
         /\ Mode(p) = "gui" => /\ "app" \in p.seen
                               /\ ~Saw(p, {"bin", "local"}) \/ ~Saw(p, {"daemon", "daemon2"})
         /\ Mode(p) = "tailscaled" => /\ Saw(p, {"bin", "local"})
                                      /\ "app" \notin p.seen \/ ~Saw(p, {"gui", "gui2"})
<1>1. (Saw(p, {"gui", "gui2"}) \in BOOLEAN) /\ (Saw(p, {"daemon", "daemon2"}) \in BOOLEAN)
  BY DEF Saw
<1> DEFINE gui == Saw(p, {"gui", "gui2"})
           daemon == Saw(p, {"daemon", "daemon2"})
<1>2. Mode(p) = IF "app" \notin p.seen THEN (IF Saw(p, {"bin", "local"}) THEN "tailscaled" ELSE None)
                ELSE IF ~Saw(p, {"bin", "local"}) THEN "gui"
                ELSE IF gui = daemon THEN None ELSE IF gui THEN "gui" ELSE "tailscaled"
  BY DEF Mode, SelectTailscaleMode, TailscaleServiceIsPersistent
<1>3. (gui /\ daemon) => gui = daemon
  BY <1>1
<1> HIDE DEF gui, daemon
<1>4. /\ Mode(p) \in {"gui", "tailscaled"}
      /\ Mode(p) = "gui" => "app" \in p.seen /\ (~Saw(p, {"bin", "local"}) \/ ~daemon)
      /\ Mode(p) = "tailscaled" => Saw(p, {"bin", "local"}) /\ ("app" \notin p.seen \/ ~gui)
  BY <1>2, <1>3
<1> QED
  BY <1>4 DEF gui, daemon

LEMMA MacTailscaleSound ==
  ASSUME AskedInv, subject = "tailscale", platform = "macos", NEW p, HasReadAll(p)
  PROVE  Sound(p, BaselineProbeSnapshot(p))
<1> DEFINE stays == Saw(p, IF Mode(p) = "gui" THEN {"gui", "gui2"} ELSE {"daemon", "daemon2"})
           healthy == "online" \in p.seen /\ stays /\ Requested(p.use) = Mode(p)
<1>1. TailscaleRow(Reads(p.use))
  BY TailscaleReads
<1>2. Mode(p) # None
  BY <1>1, AllRead, ModeKnown DEF TailscaleRow
<1>3. Mode(p) \in {"gui", "tailscaled"} /\ Posture(p).mode = Mode(p) /\ Posture(p).persistent = stays
  BY <1>2, MacModeIs DEF Posture
<1>4. BaselineProbeSnapshot(p) # None
      /\ BaselineProbeSnapshot(p).is = IF healthy THEN "healthy" ELSE "unhealthy"
  BY <1>3, TailscaleSnapshot
<1>5. /\ p.dim = {} /\ p.seen \subseteq p.held
      /\ \A fact \in MacTailscaleFacts \ p.seen :
           \/ fact \in Unmet(p)
           \/ fact = "local" /\ "bin" \in p.seen
           \/ fact = "gui2" /\ "gui" \in p.seen
           \/ fact = "daemon2" /\ "daemon" \in p.seen
  BY <1>1, AllRead DEF TailscaleRow
<1>6. /\ Requested(p.use) = "gui" => Needs(p.use) = {{"app"}, {"gui", "gui2"}, {"online"}}
      /\ Requested(p.use) = "tailscaled" =>
           Needs(p.use) = {{"bin", "local"}, {"daemon", "daemon2"}, {"online"}}
      /\ Requested(p.use) = "service" => {} \in Needs(p.use)
  BY DEF Needs, ModeNeeds, DefaultMode
<1>7. ASSUME healthy PROVE ReadyFor(p)
  <2>1. CASE Mode(p) = "gui"
    BY <1>2, <1>5, <1>6, <1>7, <2>1, MacModeIs DEF ReadyFor, Saw
  <2>2. CASE Mode(p) = "tailscaled"
    BY <1>2, <1>5, <1>6, <1>7, <2>2, MacModeIs DEF ReadyFor, Saw
  <2> QED
    BY <1>3, <2>1, <2>2
<1>8. ASSUME NEW some \in {{"app"}, {"gui", "gui2"}, {"bin", "local"}, {"daemon", "daemon2"},
        {"online"}},
             ~Saw(p, some)
      PROVE  some \subseteq Unmet(p)
  <2>1. \A fact \in some : fact \in MacTailscaleFacts /\ fact \notin p.seen
    BY <1>8 DEF MacTailscaleFacts, Saw
  <2>2. /\ "local" \in some => "bin" \in some
        /\ "gui2" \in some => "gui" \in some
        /\ "daemon2" \in some => "daemon" \in some
    OBVIOUS
  <2> QED
    BY <1>5, <2>1, <2>2
<1>9. ASSUME ~healthy PROVE NotReadyFor(p)
  <2>1. SUFFICES \E some \in Needs(p.use) : some \subseteq Unmet(p)
    BY DEF NotReadyFor
  <2>2. Requested(p.use) \in {"gui", "tailscaled", "service"}
    BY RequestedIs
  <2>3. CASE Requested(p.use) = "service"
    BY <1>6, <2>3
  <2>4. CASE "online" \notin p.seen
    <3>1. {"online"} \subseteq Unmet(p)
      BY <1>8, <2>4 DEF Saw
    <3> QED
      BY <1>6, <2>2, <2>3, <3>1
  <2>5. CASE Requested(p.use) = "gui" /\ "online" \in p.seen
    <3>1. ~Saw(p, {"app"}) \/ ~Saw(p, {"gui", "gui2"})
      BY <1>2, <1>3, <1>9, <2>5, MacModeIs DEF Saw
    <3> QED
      BY <1>6, <1>8, <2>5, <3>1
  <2>6. CASE Requested(p.use) = "tailscaled" /\ "online" \in p.seen
    <3>1. ~Saw(p, {"bin", "local"}) \/ ~Saw(p, {"daemon", "daemon2"})
      BY <1>2, <1>3, <1>9, <2>6, MacModeIs DEF Saw
    <3> QED
      BY <1>6, <1>8, <2>6, <3>1
  <2> QED
    BY <2>2, <2>3, <2>4, <2>5, <2>6
<1>10. healthy \in BOOLEAN
  BY DEF Saw
<1> QED
  BY <1>4, <1>7, <1>9, <1>10, SnapshotSound

\* What is made of all reads is sound.
LEMMA EndSound ==
  ASSUME AskedInv, NEW p, HasReadAll(p)
  PROVE  Sound(p, BaselineProbeSnapshot(p))
<1>1. subject \notin {"styrnd", "deferred"}
  <2>1. ASSUME Reads(p.use) = <<>> PROVE FALSE
    BY <2>1 DEF HasReadAll
  <2> QED
    BY <2>1, NoReads
<1>2. subject = "tailscale" => Sound(p, BaselineProbeSnapshot(p))
  BY LinuxTailscaleSound, MacTailscaleSound, WindowsTailscaleSound DEF AskedInv, Platforms
<1> QED
  BY <1>1, <1>2, SshSound, GitSound, SleepSound DEF AskedInv, Subjects

\* A probe without reads, for which no subject has one.
LEMMA NothingToRead ==
  ASSUME AskedInv, NEW p, Reads(p.use) = <<>>
  PROVE  Sound(p, BaselineProbeSnapshot(p))
<1>0. Steps(Reads(p.use)) = {} /\ Told({}) = {}
  BY DEF Told, Steps
<1>1. CASE subject = "ssh-server"
  BY <1>0, <1>1, SshReads DEF SshRow
<1>2. CASE subject = "tailscale"
  BY <1>0, <1>2, TailscaleReads DEF TailscaleRow, AskedInv, Platforms
<1>3. CASE subject = "git"
  BY <1>0, <1>3, GitReads DEF GitRow
<1>4. CASE subject = "sleep-policy"
  BY <1>0, <1>4, SleepReads DEF SleepRow
<1>5. CASE subject = "styrnd"
  <2>1. BaselineProbeSnapshot(p) = Status("absent") /\ NotThereFor(p)
    BY <1>5, NoReads DEF BaselineProbeSnapshot, NotThereFor
  <2> QED
    BY <2>1, StatusIs DEF Sound, Said
<1>6. CASE subject = "deferred"
  BY <1>6, UnknownSound DEF BaselineProbeSnapshot
<1> QED
  BY <1>1, <1>2, <1>3, <1>4, <1>5, <1>6 DEF AskedInv, Subjects

----------------------------------------------------------------------------
(* Every step of a probe. *)

IsProbe(p) ==
  p = [use |-> p.use, at |-> p.at, seen |-> p.seen, dim |-> p.dim,
       held |-> p.held, missed |-> p.missed, denied |-> p.denied, status |-> p.status]

\* A probe under way, when so are the facts of the machine.
Seeing(p, so) ==
  /\ p.at \in 1..Len(Reads(p.use))
  /\ so \subseteq p.held /\ Relevant \ so \subseteq p.missed
  /\ HasRead(p, p.at - 1, p.at - 1)

\* A probe that is under way has read what it says it has; the status of one that ended
\* is sound.
IsSound(p, so) ==
  /\ IsProbe(p) /\ p.use \in Uses \cup {"none"}
  /\ p.use # "none" /\ p.status = None => Seeing(p, so)
  /\ p.use # "none" /\ p.status # None => Sound(p, p.status)

ProbeInv == \E p : p = probe /\ IsSound(p, facts)

LEMMA SameAsked ==
  ASSUME UNCHANGED asked
  PROVE  /\ Relevant' = Relevant
         /\ \A use : Reads(use)' = Reads(use)
         /\ \A use : Needs(use)' = Needs(use)
         /\ \A then, read, p : Decided(then, read, p)' = Decided(then, read, p)
<1>1. platform' = platform /\ subject' = subject /\ keys' = keys /\ mode' = mode
  BY DEF asked
<1>2. ASSUME NEW use PROVE Reads(use)' = Reads(use)
  BY <1>1 DEF Reads, Ssh, Tailscale, Git, Sleep, WithKeys
<1>3. Relevant' = Relevant
  BY <1>2 DEF Relevant
<1>4. ASSUME NEW use PROVE Needs(use)' = Needs(use)
  BY <1>1, <1>3 DEF Needs, ModeNeeds, Requested, DefaultMode, WithKeys
<1>5. ASSUME NEW then, NEW read, NEW p PROVE Decided(then, read, p)' = Decided(then, read, p)
  BY <1>1 DEF Decided, Mode
<1> QED
  BY <1>2, <1>3, <1>4, <1>5

LEMMA SameRead ==
  ASSUME UNCHANGED asked
  PROVE  /\ \A p, n, m : HasRead(p, n, m)' <=> HasRead(p, n, m)
         /\ \A p, status : Sound(p, status)' <=> Sound(p, status)
         /\ AskedInv' <=> AskedInv
<1>1. ASSUME NEW p, NEW n, NEW m PROVE HasRead(p, n, m)' <=> HasRead(p, n, m)
  <2>1. \A k : UpTo(p, k)' = UpTo(p, k)
    BY SameAsked DEF UpTo
  <2>2. \A then, read : Decided(then, read, p)' = Decided(then, read, p)
    BY SameAsked
  <2> QED
    BY <2>1, <2>2 DEF HasRead
<1>2. ASSUME NEW p, NEW status PROVE Sound(p, status)' <=> Sound(p, status)
  BY SameAsked DEF Sound, ReadyFor, NotReadyFor, NotThereFor
<1>3. AskedInv' <=> AskedInv
  BY DEF asked, AskedInv
<1> QED
  BY <1>1, <1>2, <1>3

LEMMA EndedFields ==
  ASSUME NEW p, IsProbe(p), NEW status
  PROVE  LET q == Ended(p, status) IN
            /\ IsProbe(q) /\ q.use = p.use /\ q.held = p.held /\ Unmet(q) = Unmet(p)
            /\ q.status = status
<1> DEFINE a == [p EXCEPT !.at = 1]
           b == [a EXCEPT !.seen = {}]
           c == [b EXCEPT !.dim = {}]
           d == [c EXCEPT !.status = status]
<1>1. Ended(p, status) = d
  BY DEF Ended
<1>2. IsProbe(a) /\ a.use = p.use /\ a.held = p.held /\ Unmet(a) = Unmet(p)
  BY DEF IsProbe, Unmet
<1> HIDE DEF a
<1>3. IsProbe(b) /\ b.use = a.use /\ b.held = a.held /\ Unmet(b) = Unmet(a)
  BY <1>2 DEF IsProbe, Unmet
<1> HIDE DEF b
<1>4. IsProbe(c) /\ c.use = b.use /\ c.held = b.held /\ Unmet(c) = Unmet(b)
  BY <1>3 DEF IsProbe, Unmet
<1> HIDE DEF c
<1>5. /\ IsProbe(d) /\ d.use = c.use /\ d.held = c.held /\ Unmet(d) = Unmet(c)
      /\ d.status = status
  BY <1>4 DEF IsProbe, Unmet
<1> HIDE DEF d
<1> QED
  BY <1>1, <1>2, <1>3, <1>4, <1>5

LEMMA BecomesSound ==
  ASSUME UNCHANGED asked, NEW p, NEW so, IsSound(p, so), facts' = so, probe' = p
  PROVE  ProbeInv'
<1>1. Seeing(p, so) => Seeing(p, so)'
  BY SameAsked, SameRead DEF Seeing
<1>2. IsSound(p, so)'
  BY <1>1, SameRead DEF IsSound
<1> QED
  BY <1>2 DEF ProbeInv

LEMMA ProbeIsSound ==
  ASSUME ProbeInv
  PROVE  IsSound(probe, facts)
BY DEF ProbeInv

\* What a probe has after its next read.
AfterRead(p) ==
  /\ IsProbe(p) /\ p.use = probe.use /\ p.at = probe.at /\ p.status = None
  /\ facts \subseteq p.held /\ Relevant \ facts \subseteq p.missed
  /\ HasRead(p, p.at, p.at - 1)

LEMMA EndedKeeps ==
  ASSUME UNCHANGED <<asked, machine>>, NEW p, IsProbe(p), p.use \in Uses,
         NEW status, Sound(p, status), probe' = Ended(p, status)
  PROVE  ProbeInv' /\ probe'.use = p.use
<1> DEFINE q == Ended(p, status)
<1>1. /\ IsProbe(q) /\ q.use = p.use /\ q.status = status
      /\ q.held = p.held /\ Unmet(q) = Unmet(p)
  BY EndedFields
<1>2. probe' = q
  OBVIOUS
<1> HIDE DEF q
<1>3. status # None
  BY DEF Sound
<1>4. Sound(q, status)
  BY <1>1 DEF Sound, ReadyFor, NotReadyFor, NotThereFor
<1>5. IsSound(q, facts)
  BY <1>1, <1>3, <1>4 DEF IsSound, Uses
<1>6. ProbeInv'
  BY <1>2, <1>5, BecomesSound DEF machine
<1> QED
  BY <1>1, <1>2, <1>6

LEMMA GoesKeeps ==
  ASSUME AskedInv, UNCHANGED <<asked, machine>>, IsSound(probe, facts), Probing,
         NEW p, AfterRead(p), Goes(p)
  PROVE  ProbeInv' /\ probe'.use = probe.use
<1> DEFINE n == p.at
           row == Reads(p.use)
           now == row[n]
           decided == Decided(now.then, now, p)
<1>1. n \in 1..Len(row) /\ IsProbe(p) /\ p.use \in Uses /\ p.use = probe.use /\ p.at = probe.at
  BY DEF IsSound, Seeing, AfterRead, Probing
<1>2. Len(row) \in Nat /\ n \in Nat
  <2>1. Len(row) \in Nat
    BY ReadsOrdered DEF Ordered
  <2> QED
    BY <1>1, <2>1
<1>3. HasRead(p, n, n - 1)
  BY DEF AfterRead
<1>4. probe' = IF decided # None THEN Ended(p, decided)
               ELSE IF n = Len(row) THEN Ended(p, BaselineProbeSnapshot(p))
               ELSE [p EXCEPT !.at = @ + 1]
  BY <1>1 DEF Goes, Now
<1>5. CASE decided # None
  <2>1. Sound(p, decided)
    BY <1>1, <1>3, <1>5, DecidedSound
  <2>2. probe' = Ended(p, decided)
    BY <1>4, <1>5
  <2> QED
    BY <1>1, <2>1, <2>2, EndedKeeps
<1>6. ASSUME decided = None PROVE HasRead(p, n, n)
  <2>1. UpTo(p, n) = UpTo(p, n - 1) \cup {now}
    <3>1. 1..n = 1..(n - 1) \cup {n}
      BY <1>1, <1>2
    <3> QED
      BY <1>1, <3>1 DEF UpTo
  <2> QED
    BY <1>3, <1>6, <2>1 DEF HasRead
<1>7. CASE decided = None /\ n = Len(row)
  <2>1. HasReadAll(p)
    BY <1>1, <1>6, <1>7 DEF HasReadAll
  <2>2. Sound(p, BaselineProbeSnapshot(p))
    BY <2>1, EndSound
  <2>3. probe' = Ended(p, BaselineProbeSnapshot(p))
    BY <1>4, <1>7
  <2> QED
    BY <1>1, <2>2, <2>3, EndedKeeps
<1>8. CASE decided = None /\ n # Len(row)
  <2> DEFINE q == [p EXCEPT !.at = n + 1]
  <2>1. probe' = q
    BY <1>4, <1>8
  <2>2. /\ IsProbe(q) /\ q.use = p.use /\ q.at = n + 1 /\ q.seen = p.seen /\ q.dim = p.dim
        /\ q.held = p.held /\ q.missed = p.missed /\ q.denied = p.denied /\ q.status = p.status
    BY <1>1 DEF IsProbe
  <2> HIDE DEF q
  <2>3. HasRead(q, n, n)
    <3>1. HasRead(p, n, n)
      BY <1>6, <1>8
    <3>2. \A m : UpTo(q, m) = UpTo(p, m)
      BY <2>2 DEF UpTo
    <3>3. \A read \in UpTo(p, n) : Accounted(q, read)
      BY <2>2, <3>1 DEF HasRead, Accounted, Unmet, Saw
    <3>4. ASSUME NEW read \in UpTo(p, n) PROVE Decided(read.then, read, q) = None
      <4>1. read \in TheReads /\ Decided(read.then, read, p) = None
        BY <1>1, <3>1, ReadsOf DEF HasRead
      <4> QED
        BY <2>2, <4>1, SameDecision
    <3> QED
      BY <2>2, <3>1, <3>2, <3>3, <3>4 DEF HasRead
  <2>4. q.at - 1 = n /\ q.at \in 1..Len(Reads(q.use))
    BY <1>1, <1>2, <1>8, <2>2
  <2>5. facts \subseteq q.held /\ Relevant \ facts \subseteq q.missed /\ q.status = None
    BY <2>2 DEF AfterRead
  <2>6. IsSound(q, facts)
    BY <1>1, <2>2, <2>3, <2>4, <2>5 DEF IsSound, Seeing
  <2>7. ProbeInv'
    BY <2>1, <2>6, BecomesSound DEF machine
  <2> QED
    BY <1>1, <2>1, <2>2, <2>7
<1> QED
  BY <1>5, <1>7, <1>8

LEMMA ReadNextKeeps ==
  ASSUME AskedInv, ProbeInv, ReadNext
  PROVE  ProbeInv' /\ probe'.use = probe.use
<1> DEFINE n == probe.at
           q == IF Saw(probe, Now.unless) THEN probe
                ELSE [probe EXCEPT !.seen = @ \cup (Now.reads \cap facts)]
<1>0. IsSound(probe, facts) /\ Probing
  BY ProbeIsSound DEF ReadNext
<1>1. /\ Seeing(probe, facts) /\ IsProbe(probe) /\ probe.use \in Uses /\ probe.status = None
      /\ UNCHANGED <<asked, machine>> /\ n \in 1..Len(Reads(probe.use)) /\ Now = Reads(probe.use)[n]
  BY <1>0 DEF ReadNext, IsSound, Probing, Seeing, Now
<1>2. Goes(q)
  BY DEF ReadNext
<1>3. /\ IsProbe(q) /\ q.use = probe.use /\ q.at = n /\ q.status = None /\ q.dim = probe.dim
      /\ q.held = probe.held /\ q.missed = probe.missed /\ q.denied = probe.denied
      /\ probe.seen \subseteq q.seen /\ q.seen \subseteq probe.seen \cup (Now.reads \cap facts)
      /\ ~Saw(probe, Now.unless) => Now.reads \cap facts \subseteq q.seen
  BY <1>1 DEF IsProbe
<1> HIDE DEF q
<1>4. Now.reads \subseteq Relevant
  BY <1>1, FitHere DEF Fit
<1>5. Accounted(q, Now)
  <2>1. \A fact \in Now.reads : fact \in facts \/ fact \in probe.missed
    BY <1>1, <1>4 DEF Seeing
  <2> QED
    BY <1>3, <2>1 DEF Accounted, Unmet, Saw
<1>6. q.seen \subseteq q.held
  BY <1>1, <1>3 DEF Seeing, HasRead
<1>7. HasRead(q, n, n - 1)
  BY <1>1, <1>3, <1>5, <1>6, OneMore DEF Seeing, Unmet
<1>8. AfterRead(q)
  BY <1>1, <1>3, <1>7 DEF AfterRead, Seeing
<1> QED
  BY <1>0, <1>1, <1>2, <1>8, GoesKeeps

\* A failure ends the probe, dims its unit, or counts as a no.
LEMMA ReadFailsKeeps ==
  ASSUME AskedInv, ProbeInv, ReadFails
  PROVE  ProbeInv' /\ probe'.use = probe.use
<1> DEFINE n == probe.at
<1>0. IsSound(probe, facts) /\ Probing
  BY ProbeIsSound DEF ReadFails
<1>1. /\ Seeing(probe, facts) /\ IsProbe(probe) /\ probe.use \in Uses /\ probe.status = None
      /\ UNCHANGED <<asked, machine>> /\ n \in 1..Len(Reads(probe.use)) /\ Now = Reads(probe.use)[n]
  BY <1>0 DEF ReadFails, IsSound, Probing, Seeing, Now
<1>2. Now \in TheReads
  BY <1>1, FitHere
<1>3. CASE Now.fails = "stop"
  <2>1. probe' = Ended(probe, Status("unknowable"))
    BY <1>3 DEF ReadFails
  <2> QED
    BY <1>1, <2>1, UnknownSound, EndedKeeps
<1>4. CASE Now.fails = "dim"
  <2> DEFINE q == [probe EXCEPT !.dim = @ \cup Now.reads]
  <2>1. Goes(q)
    BY <1>4 DEF ReadFails
  <2>2. /\ IsProbe(q) /\ q.use = probe.use /\ q.at = n /\ q.status = probe.status
        /\ q.dim = probe.dim \cup Now.reads /\ q.seen = probe.seen
        /\ q.held = probe.held /\ q.missed = probe.missed /\ q.denied = probe.denied
    <3> HIDE DEF ProbeInv
    <3> DEFINE d == probe.dim \cup Now.reads
               r == [probe EXCEPT !.dim = d]
    <3>1. q = r
      OBVIOUS
    <3> HIDE DEF d
    <3>2. /\ IsProbe(r) /\ r.use = probe.use /\ r.at = n /\ r.status = probe.status
          /\ r.dim = d /\ r.seen = probe.seen
          /\ r.held = probe.held /\ r.missed = probe.missed /\ r.denied = probe.denied
      BY <1>1 DEF IsProbe
    <3> QED
      BY <3>1, <3>2 DEF d
  <2> HIDE DEF q
  <2>3. Accounted(q, Now) /\ q.seen \subseteq q.held
    BY <1>1, <1>4, <2>2 DEF Accounted, Unmet, Seeing, HasRead
  <2>4. HasRead(q, n, n - 1)
    BY <1>1, <1>4, <2>2, <2>3, OneMore DEF Seeing, Unmet
  <2>5. AfterRead(q)
    BY <1>1, <2>2, <2>4 DEF AfterRead, Seeing
  <2> QED
    BY <1>0, <1>1, <2>1, <2>5, GoesKeeps
<1>5. CASE Now.fails = "no"
  <2> DEFINE q == [probe EXCEPT !.denied = @ \cup Now.reads]
  <2>1. Goes(q)
    BY <1>5 DEF ReadFails
  <2>2. /\ IsProbe(q) /\ q.use = probe.use /\ q.at = n /\ q.status = probe.status
        /\ q.denied = probe.denied \cup Now.reads /\ q.seen = probe.seen
        /\ q.held = probe.held /\ q.missed = probe.missed /\ q.dim = probe.dim
    <3> DEFINE m == probe.denied \cup Now.reads
               r == [probe EXCEPT !.denied = m]
    <3>1. q = r
      OBVIOUS
    <3> HIDE DEF m
    <3>2. /\ IsProbe(r) /\ r.use = probe.use /\ r.at = n /\ r.status = probe.status
          /\ r.denied = m /\ r.seen = probe.seen
          /\ r.held = probe.held /\ r.missed = probe.missed /\ r.dim = probe.dim
      BY <1>1 DEF IsProbe
    <3> QED
      BY <3>1, <3>2 DEF m
  <2> HIDE DEF q
  <2>3. Accounted(q, Now) /\ q.seen \subseteq q.held
    BY <1>1, <2>2 DEF Accounted, Unmet, Seeing, HasRead
  <2>4. HasRead(q, n, n - 1)
    BY <1>1, <2>2, <2>3, OneMore DEF Seeing, Unmet
  <2>5. AfterRead(q)
    BY <1>1, <2>2, <2>4 DEF AfterRead, Seeing
  <2> QED
    BY <1>0, <1>1, <2>1, <2>5, GoesKeeps
<1> QED
  BY <1>2, <1>3, <1>4, <1>5, ReadFacts

\* What was read stays read, and was so at some moment.
LEMMA WorldChangesKeeps ==
  ASSUME AskedInv, ProbeInv, WorldChanges
  PROVE  ProbeInv' /\ probe'.use = probe.use
<1>1. UNCHANGED asked /\ IsSound(probe, facts)
  BY ProbeIsSound DEF WorldChanges
<1>2. PICK so : so = facts'
  OBVIOUS
<1>3. CASE ~Probing
  <2>1. probe' = probe
    BY <1>3 DEF WorldChanges
  <2>2. IsSound(probe, so)
    BY <1>1, <1>3 DEF IsSound, Probing
  <2>3. ProbeInv'
    BY <1>1, <1>2, <2>1, <2>2, BecomesSound
  <2> QED
    BY <2>1, <2>3
<1>4. CASE Probing
  <2> DEFINE n == probe.at - 1
             q == [probe EXCEPT !.held = probe.held \cup so, !.missed = probe.missed
                     \cup (Relevant \ so)]
  <2>0. q = [probe EXCEPT !.held = probe.held \cup so, !.missed = probe.missed \cup (Relevant \ so)]
    OBVIOUS
  <2>1. /\ probe' = q /\ Seeing(probe, facts) /\ IsProbe(probe) /\ probe.use \in Uses
        /\ probe.status = None
    BY <1>1, <1>2, <1>4 DEF WorldChanges, IsSound, Probing
  <2> HIDE DEF q
  <2>2. /\ IsProbe(q) /\ q.use = probe.use /\ q.at = probe.at /\ q.seen = probe.seen
        /\ q.dim = probe.dim /\ q.denied = probe.denied /\ q.status = probe.status
        /\ q.held = probe.held \cup so /\ q.missed = probe.missed \cup (Relevant \ so)
    <3> DEFINE held == probe.held \cup so
               missed == probe.missed \cup (Relevant \ so)
               r == [probe EXCEPT !.held = held]
               s == [r EXCEPT !.missed = missed]
    <3>1. q = s
      BY <2>0
    <3> HIDE DEF held, missed
    <3>2. /\ IsProbe(r) /\ r.use = probe.use /\ r.at = probe.at /\ r.seen = probe.seen
          /\ r.dim = probe.dim /\ r.held = held /\ r.denied = probe.denied /\ r.status = probe.status
      BY <2>1 DEF IsProbe
    <3> HIDE DEF r
    <3>3. /\ IsProbe(s) /\ s.use = r.use /\ s.at = r.at /\ s.seen = r.seen /\ s.dim = r.dim
          /\ s.held = r.held /\ s.missed = missed /\ s.denied = r.denied /\ s.status = r.status
      BY <3>2 DEF IsProbe
    <3> HIDE DEF s
    <3> QED
      BY <3>1, <3>2, <3>3 DEF held, missed
  <2>3. HasRead(q, n, n)
    <3>1. HasRead(probe, n, n) /\ probe.at \in 1..Len(Reads(probe.use))
      BY <2>1 DEF Seeing
    <3>2. \A m : UpTo(q, m) = UpTo(probe, m)
      BY <2>2 DEF UpTo
    <3>3. \A read \in UpTo(probe, n) : Accounted(q, read)
      BY <2>2, <3>1 DEF HasRead, Accounted, Unmet, Saw
    <3>4. ASSUME NEW read \in UpTo(probe, n) PROVE Decided(read.then, read, q) = None
      <4>1. read \in UpTo(probe, probe.at)
        <5>1. Len(Reads(probe.use)) \in Nat
          BY ReadsOrdered DEF Ordered
        <5>2. \A i \in 1..n : i \in 1..probe.at
          BY <3>1, <5>1
        <5> QED
          BY <5>2 DEF UpTo
      <4>2. read \in TheReads /\ Decided(read.then, read, probe) = None
        BY <3>1, <4>1, ReadsOf DEF HasRead
      <4> QED
        BY <2>2, <4>2, SameDecision
    <3> QED
      BY <2>2, <3>1, <3>2, <3>3, <3>4 DEF HasRead
  <2>4. IsSound(q, so)
    BY <2>1, <2>2, <2>3 DEF IsSound, Seeing
  <2>5. ProbeInv'
    BY <1>1, <1>2, <2>1, <2>4, BecomesSound
  <2> QED
    BY <2>1, <2>2, <2>5
<1> QED
  BY <1>3, <1>4

LEMMA BeginKeeps ==
  ASSUME AskedInv, NEW use \in Uses, Begin(use), UNCHANGED <<asked, machine>>
  PROVE  ProbeInv' /\ probe'.use = use
<1> DEFINE p == [NoProbe EXCEPT !.use = use, !.held = facts, !.missed = Relevant \ facts]
<1>1. /\ IsProbe(p) /\ p.use = use /\ p.at = 1 /\ p.seen = {} /\ p.dim = {} /\ p.held = facts
      /\ p.missed = Relevant \ facts /\ p.status = None
  <2> DEFINE missed == Relevant \ facts
             q == [NoProbe EXCEPT !.use = use]
             r == [q EXCEPT !.held = facts]
             s == [r EXCEPT !.missed = missed]
  <2>1. p = s
    OBVIOUS
  <2> HIDE DEF p, missed
  <2>2. /\ IsProbe(NoProbe) /\ NoProbe.at = 1 /\ NoProbe.seen = {} /\ NoProbe.dim = {}
        /\ NoProbe.status = None
    BY DEF NoProbe, IsProbe
  <2>3. /\ IsProbe(q) /\ q.use = use /\ q.at = NoProbe.at /\ q.seen = NoProbe.seen
        /\ q.dim = NoProbe.dim /\ q.status = NoProbe.status
    BY <2>2 DEF IsProbe
  <2> HIDE DEF q
  <2>4. /\ IsProbe(r) /\ r.use = q.use /\ r.at = q.at /\ r.seen = q.seen /\ r.dim = q.dim
        /\ r.held = facts /\ r.status = q.status
    BY <2>3 DEF IsProbe
  <2> HIDE DEF r
  <2>5. /\ IsProbe(s) /\ s.use = r.use /\ s.at = r.at /\ s.seen = r.seen /\ s.dim = r.dim
        /\ s.held = r.held /\ s.missed = missed /\ s.status = r.status
    BY <2>4 DEF IsProbe
  <2> HIDE DEF s
  <2> QED
    BY <2>1, <2>2, <2>3, <2>4, <2>5 DEF missed
<1>2. probe' = IF Reads(use) = <<>> THEN [p EXCEPT !.status = BaselineProbeSnapshot(p)] ELSE p
  BY DEF Begin
<1> HIDE DEF p
<1>3. CASE Reads(use) = <<>>
  <2> DEFINE status == BaselineProbeSnapshot(p)
             q == [p EXCEPT !.status = status]
  <2>1. Sound(p, status) /\ probe' = q
    BY <1>1, <1>2, <1>3, NothingToRead
  <2> HIDE DEF status
  <2>2. /\ IsProbe(q) /\ q.use = p.use /\ q.held = p.held /\ Unmet(q) = Unmet(p)
        /\ q.status = status
    BY <1>1 DEF IsProbe, Unmet
  <2> HIDE DEF q
  <2>3. status # None
    BY <2>1 DEF Sound
  <2>4. Sound(q, status)
    BY <2>1, <2>2 DEF Sound, ReadyFor, NotReadyFor, NotThereFor
  <2>5. IsSound(q, facts)
    BY <1>1, <2>2, <2>3, <2>4 DEF IsSound, Uses
  <2>6. ProbeInv'
    BY <2>1, <2>5, BecomesSound DEF machine
  <2> QED
    BY <1>1, <2>1, <2>2, <2>6
<1>4. CASE Reads(use) # <<>>
  <2>1. probe' = p
    BY <1>2, <1>4
  <2>2. Len(Reads(use)) \in Nat /\ 1 \in 1..Len(Reads(use))
    <3>1. Reads(use) \in Seq(TheReads)
      BY ReadsOrdered DEF Ordered
    <3>2. Len(Reads(use)) \in Nat /\ Len(Reads(use)) # 0
      BY <1>4, <3>1, EmptySeq
    <3> QED
      BY <3>2
  <2>3. HasRead(p, 0, 0)
    <3>1. UpTo(p, 0) = {}
      BY DEF UpTo
    <3> QED
      BY <1>1, <3>1 DEF HasRead
  <2>4. IsSound(p, facts)
    BY <1>1, <2>2, <2>3 DEF IsSound, Seeing, Uses
  <2>5. ProbeInv'
    BY <2>1, <2>4, BecomesSound DEF machine
  <2> QED
    BY <1>1, <2>1, <2>5
<1> QED
  BY <1>3, <1>4

----------------------------------------------------------------------------
(* What is said. *)

PlanSays(plan, is) ==
  \A i \in DOMAIN plan :
    /\ plan[i] \in {"done", "remove"} => is = "healthy"
    /\ plan[i] \in {"create", "skipped"} => is = "absent"
    /\ plan[i] = "reconfigure" => is \in {"unhealthy", "broken"}

LEMMA OperationSays ==
  ASSUME NEW wish \in {"adopt", "converge", "human", "skip", "remove"},
         NEW status, status.is \in Said, NEW observed, NEW of, observed = [it \in {of} |-> status],
         NEW wanted, NEW i, wanted[i].wish = wish, Problem(observed, wanted, i) = None,
         NEW operation, operation = Operation(wish, observed[wanted[i].subject])
  PROVE  /\ operation \in {"done", "remove"} => status.is = "healthy"
         /\ operation \in {"create", "skipped"} => status.is = "absent"
         /\ operation = "reconfigure" => status.is \in {"unhealthy", "broken"}
<1>1. None \notin {"duplicate", "missing", "unknowable", "mismatch"}
  BY BaselineAssumption
<1>2. wanted[i].subject \in DOMAIN observed
  BY <1>1 DEF Problem
<1>3. observed[wanted[i].subject] = status
  BY <1>2
<1>4. ~(Unknown(status) /\ wish \notin {"human", "adopt"})
  BY <1>1, <1>2, <1>3 DEF Problem
<1>5. ~(wish = "skip" /\ status.is # "absent") /\ ~(wish = "remove" /\ ~Healthy(status))
  BY <1>1, <1>2, <1>3, <1>4 DEF Problem
<1>6. operation = Operation(wish, status)
  BY <1>3
<1> QED
  BY <1>4, <1>5, <1>6 DEF Operation, Healthy, Unknown, Said

\* An operation of the plan is only for the status it fits.
LEMMA ComputeSays ==
  ASSUME NEW status, status.is \in Said, NEW wanted \in Desired
  PROVE  PlanSays(Compute([of \in {subject} |-> status], wanted), status.is)
<1> DEFINE observed == [of \in {subject} |-> status]
           plan == Compute(observed, wanted)
<1>1. \A i \in DOMAIN wanted : wanted[i].wish \in {"adopt", "converge", "human", "skip", "remove"}
  BY DEF Desired, Change
<1>2. CASE {Problem(observed, wanted, i) : i \in DOMAIN wanted} \ {None} # {}
  BY <1>2 DEF Compute, PlanSays
<1>3. CASE {Problem(observed, wanted, i) : i \in DOMAIN wanted} \ {None} = {}
  <2>1. plan = [i \in DOMAIN wanted |-> Operation(wanted[i].wish, observed[wanted[i].subject])]
    BY <1>3 DEF Compute
  <2>2. \A i \in DOMAIN wanted : Problem(observed, wanted, i) = None
    BY <1>3
  <2>3. observed = [it \in {subject} |-> status]
    OBVIOUS
  <2> HIDE DEF observed, plan
  <2>4. DOMAIN plan = DOMAIN wanted
    BY <2>1
  <2>5. ASSUME NEW i \in DOMAIN wanted
        PROVE  /\ plan[i] \in {"done", "remove"} => status.is = "healthy"
               /\ plan[i] \in {"create", "skipped"} => status.is = "absent"
               /\ plan[i] = "reconfigure" => status.is \in {"unhealthy", "broken"}
    <3>1. plan[i] = Operation(wanted[i].wish, observed[wanted[i].subject])
      BY <2>1
    <3> QED
      BY <1>1, <2>2, <2>3, <3>1, OperationSays
  <2>6. PlanSays(plan, status.is)
    BY <2>4, <2>5 DEF PlanSays
  <2> QED
    BY <2>6 DEF plan, observed
<1> QED
  BY <1>2, <1>3

SetupFields == {"at", "plan", "finding", "card", "item", "capability", "installed", "publicKey",
        "posture"}

FirstSays ==
  /\ PlanSays(setup.plan, probe.status.is)
  /\ setup.capability = TRUE => Healthy(probe.status)
  /\ setup.finding = None /\ setup.card = None
DoctorSays == setup.finding = DoctorFinding(probe.status) /\ setup.card = None
LastSays ==
  /\ setup.finding = None
  /\ setup.publicKey = TRUE \/ setup.card # None => Healthy(probe.status)
  /\ setup.installed = FALSE => probe.status.is = "absent"
  /\ setup.publicKey = FALSE => probe.status.is \in {"unhealthy", "absent", "broken"}
  /\ setup.card # None => ShouldEmit /\ recorded \in {None, setup.card}
  /\ setup.item # None => (setup.item = "done" <=> setup.card # None)

\* Where setup is, which probe is the last, and what was said of its status.
SetupInv ==
  /\ DOMAIN setup = SetupFields
  /\ setup.at \in {"start", "setup", "doctor", "planned", "apply", "applied", "card", "end"}
  /\ setup.at \in {"start", "apply", "applied"} => probe.use = "none"
  /\ setup.at \in {"setup", "doctor", "card"} => probe.use = setup.at
  /\ setup.at = "planned" => probe.use = "setup"
  /\ setup.at = "end" => probe.use \in Uses
  /\ setup.at \notin {"planned", "end"} =>
       setup.plan = <<>> /\ setup.finding = None /\ setup.card = None /\ setup.capability = None
  /\ setup.at \in {"planned", "end"} =>
       /\ probe.status # None
       /\ probe.use = "setup" => FirstSays
       /\ probe.use = "doctor" => DoctorSays
       /\ probe.use = "card" => setup.at = "end" /\ LastSays

BaselineInv == AskedInv /\ ProbeInv /\ SetupInv

LEMMA InvSaid ==
  ASSUME BaselineInv
  PROVE  ReadyOnlyIfSo /\ NotReadyOnlyIfSo
<1> DEFINE is == probe.status.is
           notReady == NotReady(probe.denied)
           notThere == NotThere(probe.denied)
<1>1. /\ Ready <=> ReadyFor(probe)
      /\ NotReadyFor(probe) => notReady
      /\ NotThereFor(probe) => notThere
  BY DEF Ready, NotReady, NotThere, ReadyFor, NotReadyFor, NotThereFor, Unmet
<1> HIDE DEF notReady, notThere
<1>said. SUFFICES
        /\ FirstSaid /\ (InPlan("done") \/ InPlan("remove") \/ setup.capability = TRUE) => Ready
        /\ FirstSaid /\ (InPlan("create") \/ InPlan("skipped")) => notThere
        /\ FirstSaid /\ InPlan("reconfigure") => notReady
        /\ setup.finding = "pass" => Ready
        /\ setup.finding = "fail" => notReady \/ notThere
        /\ LastSaid /\ (setup.publicKey = TRUE \/ setup.card # None) => Ready
        /\ LastSaid /\ setup.installed = FALSE => notThere
        /\ LastSaid /\ setup.publicKey = FALSE => notReady \/ notThere
        /\ setup.card # None => ShouldEmit /\ recorded \in {None, setup.card}
        /\ LastSaid /\ setup.item # None => (setup.item = "done" <=> setup.card # None)
  BY DEF ReadyOnlyIfSo, NotReadyOnlyIfSo, Against, notReady, notThere
<1>2. None \notin {TRUE, FALSE, "pass", "fail"}
  BY BaselineAssumption
<1>3. CASE setup.at \notin {"planned", "end"}
  <2>1. /\ setup.plan = <<>> /\ setup.finding = None /\ setup.card = None /\ setup.capability = None
        /\ ~LastSaid
    BY <1>3 DEF BaselineInv, SetupInv, FirstSaid, LastSaid
  <2>2. \A operation : ~InPlan(operation)
    BY <2>1 DEF InPlan
  <2> QED
    BY <1>2, <2>1, <2>2
<1>4. CASE setup.at \in {"planned", "end"}
  <2>1. probe.use \in Uses /\ probe.status # None
    BY <1>4 DEF BaselineInv, SetupInv, Uses
  <2>2. Sound(probe, probe.status)
    BY <2>1, ProbeIsSound DEF BaselineInv, IsSound, Uses
  <2>3. /\ is \in Said
        /\ is = "healthy" => Ready
        /\ is = "absent" => notThere
        /\ is \in {"unhealthy", "broken"} => notReady
    BY <1>1, <2>2 DEF Sound
  <2>4. CASE probe.use = "setup"
    <3>1. FirstSays /\ ~LastSaid
      BY <1>4, <2>4 DEF BaselineInv, SetupInv, FirstSaid, LastSaid
    <3>2. /\ InPlan("done") \/ InPlan("remove") => is = "healthy"
          /\ InPlan("create") \/ InPlan("skipped") => is = "absent"
          /\ InPlan("reconfigure") => is \in {"unhealthy", "broken"}
      BY <3>1 DEF FirstSays, PlanSays, InPlan
    <3>3. /\ setup.capability = TRUE => is = "healthy"
          /\ setup.finding = None /\ setup.card = None
      BY <3>1 DEF FirstSays, Healthy
    <3> QED
      BY <1>2, <2>3, <3>1, <3>2, <3>3
  <2>5. CASE probe.use = "doctor"
    <3>1. DoctorSays /\ ~LastSaid /\ ~FirstSaid
      BY <1>4, <2>5 DEF BaselineInv, SetupInv, FirstSaid, LastSaid
    <3>2. /\ setup.finding = "pass" => is = "healthy"
          /\ setup.finding = "fail" => is \in {"absent", "unhealthy", "broken"}
      BY <2>3, <3>1 DEF DoctorSays, DoctorFinding, Healthy, Unknown, Said
    <3> QED
      BY <2>3, <3>1, <3>2 DEF DoctorSays
  <2>6. CASE probe.use = "card"
    <3>1. LastSays /\ ~FirstSaid
      BY <1>4, <2>6 DEF BaselineInv, SetupInv, FirstSaid, LastSaid
    <3> QED
      BY <1>2, <2>3, <3>1 DEF LastSays, Healthy
  <2> QED
    BY <2>1, <2>4, <2>5, <2>6 DEF Uses
<1> QED
  BY <1>3, <1>4

----------------------------------------------------------------------------
(* Every step of setup and doctor. *)

LEMMA ReadingKeeps ==
  ASSUME SetupInv, Probing, setup' = setup, probe'.use = probe.use
  PROVE  SetupInv'
<1>1. setup.at \notin {"planned", "end"}
  BY DEF SetupInv, Probing
<1> QED
  BY <1>1 DEF SetupInv

LEMMA ChangesKeep ==
  ASSUME SetupInv, WorldChanges, probe'.use = probe.use
  PROVE  SetupInv'
<1>1. setup' = setup /\ UNCHANGED asked
  BY DEF WorldChanges
<1>2. CASE setup.at \in {"planned", "end"}
  <2>1. probe' = probe
    BY <1>2 DEF SetupInv, WorldChanges, Probing
  <2> QED
    BY <1>1, <2>1 DEF SetupInv, FirstSays, DoctorSays, LastSays, PlanSays, ShouldEmit, asked,
                      DoctorFinding, Healthy, Unknown
<1>3. CASE setup.at \notin {"planned", "end"}
  BY <1>1, <1>3 DEF SetupInv
<1> QED
  BY <1>2, <1>3

LEMMA ObserveKeeps ==
  ASSUME AskedInv, SetupInv, NEW use \in {"setup", "doctor"}, Observe(use)
  PROVE  ProbeInv' /\ SetupInv'
<1>1. setup.at = "start" /\ setup' = [setup EXCEPT !.at = use] /\ Begin(use)
  BY DEF Observe
<1>2. ProbeInv' /\ probe'.use = use
  BY <1>1, BeginKeeps DEF Observe, Uses
<1>3. /\ DOMAIN setup' = SetupFields /\ setup'.at = use /\ setup'.plan = <<>> /\ setup'.finding = None
      /\ setup'.card = None /\ setup'.capability = None
  BY <1>1 DEF SetupInv, SetupFields
<1>4. SetupInv'
  BY <1>2, <1>3 DEF SetupInv
<1> QED
  BY <1>2, <1>4

LEMMA DoctorKeeps ==
  ASSUME SetupInv, WorkerDoctorFindings
  PROVE  SetupInv'
<1>1. /\ setup.at = "doctor" /\ probe.use = "doctor" /\ probe.status # None /\ probe' = probe
      /\ DOMAIN setup = SetupFields /\ setup.card = None
  BY DEF SetupInv, WorkerDoctorFindings
<1>2. /\ DOMAIN setup' = SetupFields /\ setup'.at = "end" /\ setup'.card = None
      /\ setup'.finding = DoctorFinding(probe.status)
  BY <1>1 DEF WorkerDoctorFindings, SetupFields
<1>3. DoctorSays'
  BY <1>1, <1>2 DEF DoctorSays, DoctorFinding, Healthy, Unknown
<1> QED
  BY <1>1, <1>2, <1>3 DEF SetupInv, Uses

LEMMA PlanKeeps ==
  ASSUME ProbeInv, SetupInv, ComputePlan
  PROVE  SetupInv'
<1>1. /\ setup.at = "setup" /\ probe.use = "setup" /\ probe.status # None /\ probe' = probe
      /\ DOMAIN setup = SetupFields /\ setup.card = None /\ setup.finding = None
  BY DEF SetupInv, ComputePlan
<1>2. probe.status.is \in Said
  BY <1>1, ProbeIsSound DEF IsSound, Sound
<1>3. PICK wanted \in Desired :
        setup' = [setup EXCEPT
          !.at = IF wanted = <<Change(subject, "adopt")>> /\ subject = "ssh-server"
                 THEN "planned" ELSE "end",
          !.plan = Compute([of \in {subject} |-> probe.status], wanted),
          !.capability = Healthy(probe.status), !.installed = Present(probe.status),
          !.publicKey = Healthy(probe.status), !.posture = probe.status.posture]
  BY DEF ComputePlan
<1> DEFINE plan == Compute([of \in {subject} |-> probe.status], wanted)
           capable == Healthy(probe.status)
<1>4. PlanSays(plan, probe.status.is)
  BY <1>2, ComputeSays
<1> HIDE DEF plan
<1>5. /\ DOMAIN setup' = SetupFields /\ setup'.at \in {"planned", "end"} /\ setup'.plan = plan
      /\ setup'.finding = None /\ setup'.card = None
  BY <1>1, <1>3 DEF SetupFields, plan
<1>6. setup'.capability = capable
  <2> HIDE DEF capable
  <2> QED
    BY <1>1, <1>3 DEF SetupFields, capable
<1>7. FirstSays'
  BY <1>1, <1>4, <1>5, <1>6 DEF FirstSays, PlanSays, Healthy
<1> QED
  BY <1>1, <1>5, <1>7 DEF SetupInv, Uses

LEMMA NoProbeIsSound ==
  ASSUME UNCHANGED asked, probe' = NoProbe
  PROVE  ProbeInv' /\ probe'.use = "none"
<1>1. PICK so : so = facts'
  OBVIOUS
<1>2. IsProbe(NoProbe) /\ NoProbe.use = "none"
  BY DEF IsProbe, NoProbe
<1>3. IsSound(NoProbe, so)
  BY <1>2 DEF IsSound
<1> QED
  BY <1>1, <1>2, <1>3, BecomesSound

LEMMA PrepareKeeps ==
  ASSUME SetupInv, PrepareCard
  PROVE  ProbeInv' /\ SetupInv'
<1>1. ProbeInv' /\ probe'.use = "none"
  BY NoProbeIsSound DEF PrepareCard
<1>2. PICK item : setup' = [Nothing EXCEPT !.at = "apply", !.item = item]
  BY DEF PrepareCard
<1>3. /\ DOMAIN setup' = SetupFields /\ setup'.at = "apply" /\ setup'.plan = <<>>
        /\ setup'.finding = None
      /\ setup'.card = None /\ setup'.capability = None
  BY <1>2 DEF Nothing, SetupFields
<1> QED
  BY <1>1, <1>3 DEF SetupInv

LEMMA AppliedKeeps ==
  ASSUME ProbeInv, SetupInv, Applied
  PROVE  ProbeInv' /\ SetupInv'
<1>1. /\ setup.at = "apply" /\ probe.use = "none" /\ probe' = probe /\ UNCHANGED asked
      /\ setup' = [setup EXCEPT !.at = "applied"]
  BY DEF SetupInv, Applied
<1>2. PICK so : so = facts'
  OBVIOUS
<1>3. IsSound(probe, so)
  BY <1>1, ProbeIsSound DEF IsSound
<1>4. ProbeInv'
  BY <1>1, <1>2, <1>3, BecomesSound
<1>5. /\ DOMAIN setup' = SetupFields /\ setup'.at = "applied" /\ setup'.plan = <<>>
      /\ setup'.finding = None /\ setup'.card = None /\ setup'.capability = None
  BY <1>1 DEF SetupInv, SetupFields
<1> QED
  BY <1>1, <1>4, <1>5 DEF SetupInv

LEMMA ReadinessKeeps ==
  ASSUME AskedInv, SetupInv, SshReadiness
  PROVE  ProbeInv' /\ SetupInv'
<1>1. setup.at = "applied" /\ setup' = [setup EXCEPT !.at = "card"] /\ Begin("card")
  BY DEF SshReadiness
<1>2. ProbeInv' /\ probe'.use = "card"
  BY <1>1, BeginKeeps DEF SshReadiness, Uses
<1>3. /\ DOMAIN setup' = SetupFields /\ setup'.at = "card" /\ setup'.plan = <<>>
        /\ setup'.finding = None
      /\ setup'.card = None /\ setup'.capability = None
  BY <1>1 DEF SetupInv, SetupFields
<1> QED
  BY <1>2, <1>3 DEF SetupInv

LEMMA CardKeeps ==
  ASSUME ProbeInv, SetupInv, EnrollmentCardAfterApply
  PROVE  SetupInv'
<1> DEFINE status == probe.status
<1>1. /\ setup.at = "card" /\ probe.use = "card" /\ status # None /\ probe' = probe
      /\ UNCHANGED asked /\ DOMAIN setup = SetupFields /\ setup.finding = None
  BY DEF SetupInv, EnrollmentCardAfterApply
<1>2. status.is \in Said
  BY <1>1, ProbeIsSound DEF IsSound, Sound
<1>3. PICK key \in Discovered :
        LET card == IF Healthy(status) /\ ShouldEmit THEN key ELSE None IN
        setup' = [Reconcile(RefreshSshManifest(setup, status), card) EXCEPT !.at = "end", !.card = card]
  BY DEF EnrollmentCardAfterApply
<1> DEFINE card == IF Healthy(status) /\ ShouldEmit THEN key ELSE None
           installed == IF Unknown(status) THEN None ELSE status.is # "absent"
           publicKey == IF Unknown(status) THEN None ELSE Healthy(status)
           said == [setup EXCEPT !.installed = installed, !.publicKey = publicKey]
           item == IF setup.item = None THEN None ELSE EnrollmentCardAction(card = None)
<1>4. /\ None \notin {TRUE, FALSE, "done", "needs_human"}
      /\ key # None => recorded \in {None, key}
  BY BaselineAssumption DEF Discovered
<1>5. /\ card # None => Healthy(status) /\ ShouldEmit /\ recorded \in {None, card}
      /\ item # None => (item = "done" <=> card # None)
      /\ publicKey = TRUE => Healthy(status)
      /\ publicKey = FALSE => status.is \in {"unhealthy", "absent", "broken"}
      /\ installed = FALSE => status.is = "absent"
  <2>1. card # None => Healthy(status) /\ ShouldEmit /\ recorded \in {None, card}
    <3>1. ASSUME card # None PROVE Healthy(status) /\ ShouldEmit /\ card = key
      BY <3>1
    <3> QED
      BY <1>4, <3>1
  <2>2. item # None => (item = "done" <=> card # None)
    <3> HIDE DEF card
    <3> QED
      BY <1>4 DEF EnrollmentCardAction
  <2>3. publicKey = TRUE => Healthy(status)
    BY <1>4
  <2>4. publicKey = FALSE => ~Healthy(status) /\ ~Unknown(status)
    BY <1>4
  <2>5. installed = FALSE => status.is = "absent"
    BY <1>4
  <2>6. ~Healthy(status) /\ ~Unknown(status) => status.is \in {"unhealthy", "absent", "broken"}
    BY <1>2 DEF Healthy, Unknown, Said
  <2> QED
    BY <2>1, <2>2, <2>3, <2>4, <2>5, <2>6
<1>6. /\ DOMAIN said = SetupFields /\ said.item = setup.item /\ said.finding = None
      /\ said.installed = installed /\ said.publicKey = publicKey
  <2> HIDE DEF installed, publicKey
  <2> QED
    BY <1>1 DEF SetupFields
<1>7. setup' = [said EXCEPT !.item = item, !.at = "end", !.card = card]
  <2>1. RefreshSshManifest(setup, status) = said
    BY DEF RefreshSshManifest
  <2>2. Reconcile(said, card) = [said EXCEPT !.item = item]
    <3>1. said.item = setup.item
      BY <1>6
    <3> HIDE DEF said
    <3> QED
      BY <3>1 DEF Reconcile
  <2>3. setup' = [Reconcile(said, card) EXCEPT !.at = "end", !.card = card]
    BY <1>3, <2>1
  <2> HIDE DEF said, item, card
  <2> QED
    BY <2>2, <2>3
<1> HIDE DEF said, item, card, installed, publicKey
<1>8. /\ DOMAIN setup' = SetupFields /\ setup'.at = "end" /\ setup'.finding = None
      /\ setup'.card = card /\ setup'.item = item
      /\ setup'.installed = installed /\ setup'.publicKey = publicKey
  BY <1>6, <1>7 DEF SetupFields
<1>9. LastSays'
  <2>1. recorded' = recorded /\ ShouldEmit' = ShouldEmit
    BY <1>1 DEF asked, ShouldEmit
  <2> QED
    BY <1>1, <1>5, <1>8, <2>1 DEF LastSays, Healthy
<1> QED
  BY <1>1, <1>8, <1>9 DEF SetupInv, Uses

LEMMA BaselineStep ==
  ASSUME BaselineInv, [BaselineNext]_baselineVars
  PROVE  BaselineInv'
<1>1. AskedInv'
  <2>1. UNCHANGED asked
    BY DEF BaselineNext, baselineVars, ReadNext, ReadFails, WorldChanges, Observe,
           WorkerDoctorFindings, ComputePlan, PrepareCard, Applied, SshReadiness,
           EnrollmentCardAfterApply
  <2> QED
    BY <2>1 DEF BaselineInv, AskedInv, asked
<1>2. ASSUME UNCHANGED probe, UNCHANGED <<asked, facts>> PROVE ProbeInv'
  BY <1>2, ProbeIsSound, BecomesSound DEF BaselineInv
<1>3. CASE ReadNext
  BY <1>1, <1>3, ReadNextKeeps, ReadingKeeps DEF BaselineInv, ReadNext
<1>4. CASE ReadFails
  BY <1>1, <1>4, ReadFailsKeeps, ReadingKeeps DEF BaselineInv, ReadFails
<1>5. CASE WorldChanges
  BY <1>1, <1>5, WorldChangesKeeps, ChangesKeep DEF BaselineInv
<1>6. CASE Observe("setup") \/ Observe("doctor")
  BY <1>1, <1>6, ObserveKeeps DEF BaselineInv
<1>7. CASE WorkerDoctorFindings
  BY <1>1, <1>2, <1>7, DoctorKeeps DEF BaselineInv, WorkerDoctorFindings, machine
<1>8. CASE ComputePlan
  BY <1>1, <1>2, <1>8, PlanKeeps DEF BaselineInv, ComputePlan, machine
<1>9. CASE PrepareCard
  BY <1>1, <1>9, PrepareKeeps DEF BaselineInv
<1>10. CASE Applied
  BY <1>1, <1>10, AppliedKeeps DEF BaselineInv
<1>11. CASE SshReadiness
  BY <1>1, <1>11, ReadinessKeeps DEF BaselineInv
<1>12. CASE EnrollmentCardAfterApply
  BY <1>1, <1>2, <1>12, CardKeeps DEF BaselineInv, EnrollmentCardAfterApply, machine
<1>13. CASE UNCHANGED baselineVars
  <2>1. UNCHANGED <<probe, setup, asked, facts, recorded, keys>>
    BY <1>13 DEF baselineVars, machine, asked
  <2>2. SetupInv'
    BY <2>1 DEF BaselineInv, SetupInv, FirstSays, DoctorSays, LastSays, PlanSays, ShouldEmit,
                DoctorFinding, Healthy, Unknown
  <2> QED
    BY <1>1, <1>2, <2>1, <2>2 DEF BaselineInv
<1> QED
  BY <1>3, <1>4, <1>5, <1>6, <1>7, <1>8, <1>9, <1>10, <1>11, <1>12, <1>13 DEF BaselineNext

\* What a probe under way has read, what the status of one that ended rests on, and
\* what setup and doctor have made of it.
LEMMA BaselineInductive == BaselineSpec => []BaselineInv
<1>1. BaselineInit => BaselineInv
  <2> SUFFICES ASSUME BaselineInit PROVE BaselineInv
    OBVIOUS
  <2>1. AskedInv
    BY DEF BaselineInit, AskedInv
  <2>2. IsProbe(NoProbe) /\ NoProbe.use = "none"
    BY DEF IsProbe, NoProbe
  <2>3. ProbeInv
    BY <2>2 DEF BaselineInit, ProbeInv, IsSound
  <2>4. SetupInv
    BY <2>2 DEF BaselineInit, SetupInv, Nothing, SetupFields
  <2> QED
    BY <2>1, <2>3, <2>4 DEF BaselineInv
<1>2. BaselineInv /\ [BaselineNext]_baselineVars => BaselineInv'
  BY BaselineStep
<1> QED
  BY <1>1, <1>2, PTL DEF BaselineSpec

\* The plan, the manifest, the enrollment card and the findings call a capability ready
\* only if all it needs was so on the machine since the probe began, whatever changes
\* between two reads and whichever reads fail.
THEOREM ReadyIsSo == BaselineSpec => []ReadyOnlyIfSo
<1>1. BaselineInv => ReadyOnlyIfSo
  BY InvSaid
<1> QED
  BY <1>1, BaselineInductive, PTL

\* And they call it missing or not ready only if it was, apart from the facts whose own
\* read failed and was taken for a no: whatever else fails or changes, nothing else is
\* held against it. That those reads are taken for a no is what UnreadIsUnknown objects to.
THEOREM SaidIsSo == BaselineSpec => []SaidIsSoUnlessUnread
<1>1. BaselineInv => SaidIsSoUnlessUnread
  BY InvSaid DEF SaidIsSoUnlessUnread
<1> QED
  BY <1>1, BaselineInductive, PTL

=============================================================================
