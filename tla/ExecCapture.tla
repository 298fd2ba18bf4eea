------------------------------ MODULE ExecCapture ------------------------------
(***************************************************************************)
(* run_exec of an RPC server (src/src/rpc/server.rs): a command, whatever  *)
(* it leaves behind, the two threads that read its pipes, and the handler  *)
(* that polls for either to be over.  Output is counted in chunks.         *)
(***************************************************************************)
EXTENDS NoValue, Naturals, Sequences

CONSTANTS CaptureLimit, \* MAX_EXEC_CAPTURE_BYTES
          PipeSize,     \* what a pipe holds before its writer blocks
          MaxOutput     \* bound on what is written to a stream

ASSUME CaptureAssumption ==
  CaptureLimit \in Nat /\ PipeSize \in Nat \ {0} /\ MaxOutput \in Nat

VARIABLES child,   \* the command: its state and, when it has ended, how
          writers, \* who can still write to each stream
          pipe, written, \* chunks in each pipe, and ever written to it
          capture, \* the capture threads
          signal,  \* a message waits in the overflow channel
          handler  \* where run_exec is, and what it answers

execVars == <<child, writers, pipe, written, capture, signal, handler>>

Streams == {"stdout", "stderr"}
Unspawned == [state |-> "none", ended |-> None]
Reading == [state |-> "reading", bytes |-> 0, overflow |-> FALSE]

ExecIdle ==
  /\ child = Unspawned /\ signal = FALSE
  /\ writers = [s \in Streams |-> {}]
  /\ pipe = [s \in Streams |-> 0] /\ written = [s \in Streams |-> 0]
  /\ capture = [s \in Streams |-> Reading]
  /\ handler = [pc |-> "idle", answer |-> None]

(***************************************************************************)
(* The command and an heir, a process it leaves behind with its streams.   *)
(***************************************************************************)
Alive == child.state = "running"

Output(s) ==
  /\ writers[s] # {} /\ pipe[s] < PipeSize /\ written[s] < MaxOutput
  /\ pipe' = [pipe EXCEPT ![s] = @ + 1] /\ written' = [written EXCEPT ![s] = @ + 1]
  /\ UNCHANGED <<child, writers, capture, signal, handler>>

CloseStream(s) ==
  /\ Alive /\ "child" \in writers[s]
  /\ writers' = [writers EXCEPT ![s] = @ \ {"child"}]
  /\ UNCHANGED <<child, pipe, written, capture, signal, handler>>

LeaveHeir ==
  /\ Alive
  /\ \E held \in SUBSET {s \in Streams : "child" \in writers[s]} :
       writers' = [s \in Streams |-> IF s \in held THEN writers[s] \cup {"heir"} ELSE writers[s]]
  /\ UNCHANGED <<child, pipe, written, capture, signal, handler>>

HeirEnds ==
  /\ \E s \in Streams : "heir" \in writers[s]
  /\ writers' = [s \in Streams |-> writers[s] \ {"heir"}]
  /\ UNCHANGED <<child, pipe, written, capture, signal, handler>>

\* The end of the command, by itself or by a signal: a zombie without streams.
WithoutChild == [s \in Streams |-> writers[s] \ {"child"}]

CommandEnds ==
  /\ Alive
  /\ \E how \in {"code", "signal"} : child' = [state |-> "zombie", ended |-> how]
  /\ writers' = WithoutChild
  /\ UNCHANGED <<pipe, written, capture, signal, handler>>

Command == LeaveHeir \/ HeirEnds \/ CommandEnds \/ \E s \in Streams : Output(s) \/ CloseStream(s)

(***************************************************************************)
(* capture_thread.  It reads to the end of the stream even when it keeps   *)
(* no more of it, and tells the handler of the first chunk it dropped.     *)
(***************************************************************************)
Tell(thread) == signal \/ thread.overflow

\* Of n chunks it keeps what still fits; `!overflow` in the code only keeps the
\* channel from filling.
Captured(thread, n) ==
  [thread EXCEPT !.bytes = IF @ + n <= CaptureLimit THEN @ + n ELSE CaptureLimit,
                 !.overflow = @ \/ thread.bytes + n > CaptureLimit]

ReadChunks(s) ==
  /\ capture[s].state = "reading" /\ child.state # "none"
  /\ \E n \in 1..pipe[s] :
       /\ capture' = [capture EXCEPT ![s] = Captured(@, n)]
       /\ pipe' = [pipe EXCEPT ![s] = @ - n]
       /\ signal' = Tell(capture'[s])
  /\ UNCHANGED <<child, writers, written, handler>>

ReadEnd(s) ==
  /\ capture[s].state = "reading" /\ child.state # "none"
  /\ \/ /\ pipe[s] = 0 /\ writers[s] = {}
        /\ capture' = [capture EXCEPT ![s].state = "end"] /\ UNCHANGED signal
     \/ capture' = [capture EXCEPT ![s].state = "error"] /\ signal' = TRUE
  /\ UNCHANGED <<child, writers, pipe, written, handler>>

CaptureThread(s) == ReadChunks(s) \/ ReadEnd(s)

(***************************************************************************)
(* run_exec.                                                               *)
(***************************************************************************)
Answer(answer) == handler' = [pc |-> "answered", answer |-> answer]

Spawn ==
  /\ handler.pc = "idle"
  /\ \/ /\ child' = [state |-> "running", ended |-> None]
        /\ writers' = [s \in Streams |-> {"child"}]
        /\ handler' = [handler EXCEPT !.pc = "recv"]
     \/ Answer("remote") /\ UNCHANGED <<child, writers>>
  /\ UNCHANGED <<pipe, written, capture, signal>>

\* kill and wait: the command is gone and reaped.
KillAndWait ==
  /\ child' = [state |-> "reaped", ended |-> IF Alive THEN "signal" ELSE child.ended]
  /\ writers' = WithoutChild

GiveUpCapture == KillAndWait /\ handler' = [handler EXCEPT !.pc = "drain"]

TryRecv ==
  /\ handler.pc = "recv"
  /\ IF signal THEN GiveUpCapture
     ELSE handler' = [handler EXCEPT !.pc = "wait"] /\ UNCHANGED <<child, writers>>
  /\ UNCHANGED <<pipe, written, capture, signal>>

TryWait ==
  /\ handler.pc = "wait"
  /\ \/ /\ child.state = "zombie"
        /\ child' = [child EXCEPT !.state = "reaped"]
        /\ handler' = [handler EXCEPT !.pc = "join"] /\ UNCHANGED writers
     \/ Alive /\ handler' = [handler EXCEPT !.pc = "recv"] /\ UNCHANGED <<child, writers>>
     \/ GiveUpCapture
  /\ UNCHANGED <<pipe, written, capture, signal>>

Over(s) == capture[s].state # "reading"

Drain ==
  /\ handler.pc = "drain" /\ \A s \in Streams : Over(s)
  /\ Answer("remote")
  /\ UNCHANGED <<child, writers, pipe, written, capture, signal>>

\* Seeded fault: an overflow after the last look at the channel goes unnoticed.
EndedWell == child.ended = "code" /\ \A s \in Streams : capture[s].state = "end"
Complete ==
  /\ child.ended = "code"
  /\ \A s \in Streams : capture[s].state = "end" /\ ~capture[s].overflow

\* stdout is joined first, and an error of it answers at once.
Join ==
  /\ handler.pc = "join"
  /\ Over("stdout") /\ (capture["stdout"].state = "error" \/ Over("stderr"))
  /\ Answer(IF Complete THEN "data" ELSE "remote")
  /\ UNCHANGED <<child, writers, pipe, written, capture, signal>>

RunExec == TryRecv \/ TryWait \/ Drain \/ Join
=============================================================================
