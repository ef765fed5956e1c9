---------------------------- MODULE NativeWorker ----------------------------
(***************************************************************************)
(* One launch of the native worker: the parent, its three threads (one     *)
(* writes the request, two read the worker's output and errors), the       *)
(* worker process and the pipes between them.                              *)
(*                                                                         *)
(* Text is counted in chunks; a pipe holds PipeChunks of them and a frame  *)
(* at most FrameChunks.  An executable is a record: "serves" if it is the  *)
(* worker, which reads the whole request before it answers; "spins" if it  *)
(* never ends; the chunks it writes to each stream; how it ends; whether   *)
(* what it writes is one response; and the runtime it was built with.      *)
(***************************************************************************)
EXTENDS Integers

CONSTANTS RequestChunks, PipeChunks, FrameChunks

ASSUME ChunksAssumption ==
    /\ RequestChunks \in Nat \ {0} /\ PipeChunks \in Nat \ {0} /\ FrameChunks \in Nat \ {0}

VARIABLES
    phase,      \* where the parent is
    result,     \* what the call returns
    executable, \* what was launched
    worker,     \* "none", "running", "exited" or "reaped"
    status,     \* how the worker ended
    late,       \* the deadline has passed
    stdin,      \* chunks in the worker's input
    sent,       \* chunks of the request written
    taken,      \* chunks of the request the worker has read
    writer,     \* the thread that writes the request
    pipe,       \* chunks in each output stream
    written,    \* chunks the worker has written to each
    got,        \* chunks read from each
    reader      \* the thread that reads each

parentVars == <<phase, result, late>>
processVars == <<executable, worker, status>>
inputVars == <<stdin, sent, taken, writer>>
outputVars == <<pipe, written, got, reader>>

Streams == {"stdout", "stderr"}

Ended(thread) == thread \in {"done", "failed"}

NotYet == [code |-> "none"]
Failed(code) == [code |-> code]

WorkerInit ==
    /\ phase = "ready" /\ result = NotYet /\ late = FALSE
    /\ executable = NotYet /\ worker = "none" /\ status = "none"
    /\ stdin = 0 /\ sent = 0 /\ taken = 0 /\ writer = "none"
    /\ pipe = [s \in Streams |-> 0] /\ written = [s \in Streams |-> 0]
    /\ got = [s \in Streams |-> 0] /\ reader = [s \in Streams |-> "none"]

-----------------------------------------------------------------------------
(* The parent.                                                             *)

Return(r) == phase' = "returned" /\ result' = r

\* A process and its three threads are started, or the process cannot be.
Spawn(e) ==
    /\ phase = "ready"
    /\ phase' = "polling" /\ executable' = e /\ worker' = "running"
    /\ writer' = "writing" /\ reader' = [s \in Streams |-> "reading"]
    /\ UNCHANGED <<result, late, status, stdin, sent, taken, pipe, written, got>>

SpawnFails ==
    /\ phase = "ready"
    /\ Return(Failed("Unavailable"))
    /\ UNCHANGED <<late, processVars, inputVars, outputVars>>

\* An exit is noticed only by looking, and looking reaps the process.
PollExited ==
    /\ phase = "polling" /\ worker = "exited"
    /\ worker' = "reaped" /\ phase' = "joining"
    /\ UNCHANGED <<result, late, executable, status, inputVars, outputVars>>

PollRunning ==
    /\ phase = "polling" /\ worker = "running"
    /\ phase' = "looked"
    /\ UNCHANGED <<result, late, processVars, inputVars, outputVars>>

PollFails ==
    /\ phase = "polling"
    /\ phase' = "killing" /\ result' = Failed("Crashed")
    /\ UNCHANGED <<late, processVars, inputVars, outputVars>>

\* The clock is read after the look: the worker may have exited in between.
SleepOn ==
    /\ phase = "looked" /\ ~late
    /\ phase' = "polling"
    /\ UNCHANGED <<result, late, processVars, inputVars, outputVars>>

X_Expire_NoKill ==
    /\ phase = "looked" /\ late
    /\ phase' = "draining" /\ result' = Failed("Timeout")
    /\ UNCHANGED <<late, processVars, inputVars, outputVars>>

Expire ==
    /\ phase = "looked" /\ late
    /\ phase' = "killing" /\ result' = Failed("Timeout")
    /\ UNCHANGED <<late, processVars, inputVars, outputVars>>

TerminateAndReap ==
    /\ phase = "killing"
    /\ phase' = "draining" /\ worker' = "reaped"
    /\ status' = IF worker = "running" THEN "killed" ELSE status
    /\ UNCHANGED <<result, late, executable, inputVars, outputVars>>

\* The threads of a failed launch are joined, whatever they return.
Drain ==
    /\ phase = "draining"
    /\ Ended(writer) /\ \A s \in Streams : Ended(reader[s])
    /\ Return(result)
    /\ UNCHANGED <<late, processVars, inputVars, outputVars>>

JoinWriter ==
    /\ phase = "joining" /\ Ended(writer)
    /\ IF writer = "done" THEN phase' = "collecting" /\ UNCHANGED result
                          ELSE phase' = "draining" /\ result' = Failed("Crashed")
    /\ UNCHANGED <<late, processVars, inputVars, outputVars>>

\* A reader of the output that failed is reported without a look at the other one.
CollectOutput ==
    /\ phase = "collecting" /\ Ended(reader["stdout"])
    /\ IF reader["stdout"] = "done" THEN phase' = "collected" /\ UNCHANGED result
                                    ELSE Return(Failed("Malformed"))
    /\ UNCHANGED <<late, processVars, inputVars, outputVars>>

X_CheckedOutput_NoExit(answer) ==
    CASE reader["stderr"] = "failed" -> Failed("Malformed")
      [] got["stderr"] > 0 \/ got["stdout"] > FrameChunks -> Failed("Malformed")
      [] ~executable.response -> Failed("Malformed")
      [] OTHER -> answer

\* What the launch makes of a worker that ended by itself: an answer stands for its response.
CheckedOutput(answer) ==
    CASE reader["stderr"] = "failed" -> Failed("Malformed")
      [] status # "success" -> Failed("Crashed")
      [] got["stderr"] > 0 \/ got["stdout"] > FrameChunks -> Failed("Malformed")
      [] ~executable.response -> Failed("Malformed")
      [] OTHER -> answer

Collect(answer) ==
    /\ phase = "collected" /\ Ended(reader["stderr"])
    /\ Return(CheckedOutput(answer))
    /\ UNCHANGED <<late, processVars, inputVars, outputVars>>

Tick ==
    /\ phase \in {"polling", "looked"} /\ ~late
    /\ late' = TRUE
    /\ UNCHANGED <<phase, result, processVars, inputVars, outputVars>>

-----------------------------------------------------------------------------
(* The threads.                                                            *)

\* A write waits for room and fails once nobody can read it.
WriterWrites ==
    /\ writer = "writing" /\ worker = "running"
    /\ sent < RequestChunks /\ stdin < PipeChunks
    /\ sent' = sent + 1 /\ stdin' = stdin + 1
    /\ UNCHANGED <<parentVars, processVars, taken, writer, outputVars>>

WriterEnds ==
    /\ writer = "writing"
    /\ \/ sent = RequestChunks /\ writer' = "done"
       \/ sent < RequestChunks /\ worker # "running" /\ writer' = "failed"
    /\ UNCHANGED <<parentVars, processVars, stdin, sent, taken, outputVars>>

\* A read waits for text or for the end; it takes one chunk more than a frame at most.
ReaderReads(s) ==
    /\ reader[s] = "reading" /\ pipe[s] > 0 /\ got[s] <= FrameChunks
    /\ pipe' = [pipe EXCEPT ![s] = @ - 1] /\ got' = [got EXCEPT ![s] = @ + 1]
    /\ UNCHANGED <<parentVars, processVars, inputVars, written, reader>>

ReaderEnds(s) ==
    /\ reader[s] = "reading"
    /\ got[s] > FrameChunks \/ (pipe[s] = 0 /\ worker # "running")
    /\ reader' = [reader EXCEPT ![s] = "done"]
    /\ UNCHANGED <<parentVars, processVars, inputVars, pipe, written, got>>

ReaderFails(s) ==
    /\ reader[s] = "reading"
    /\ reader' = [reader EXCEPT ![s] = "failed"]
    /\ UNCHANGED <<parentVars, processVars, inputVars, pipe, written, got>>

-----------------------------------------------------------------------------
(* The worker.                                                             *)

WorkerReads ==
    /\ worker = "running" /\ executable.serves /\ stdin > 0
    /\ stdin' = stdin - 1 /\ taken' = taken + 1
    /\ UNCHANGED <<parentVars, processVars, sent, writer, outputVars>>

\* The worker answers when its input has ended.
Informed == executable.serves => writer = "done" /\ stdin = 0

\* A write waits for room; once nobody reads the stream, the rest of it is given up.
WorkerWrites(s) ==
    /\ worker = "running" /\ Informed /\ written[s] < executable.writes[s]
    /\ \/ /\ reader[s] = "reading" /\ pipe[s] < PipeChunks
          /\ pipe' = [pipe EXCEPT ![s] = @ + 1]
          /\ written' = [written EXCEPT ![s] = @ + 1]
       \/ /\ reader[s] # "reading"
          /\ written' = [written EXCEPT ![s] = executable.writes[s]]
          /\ UNCHANGED pipe
    /\ UNCHANGED <<parentVars, processVars, inputVars, got, reader>>

WorkerExits ==
    /\ worker = "running" /\ Informed /\ ~executable.spins
    /\ written = executable.writes
    /\ worker' = "exited" /\ status' = executable.status
    /\ UNCHANGED <<parentVars, executable, inputVars, outputVars>>

WorkerDies ==
    /\ worker = "running"
    /\ worker' = "exited" /\ status' = "killed"
    /\ UNCHANGED <<parentVars, executable, inputVars, outputVars>>

-----------------------------------------------------------------------------

Polls == PollExited \/ PollRunning \/ PollFails \/ SleepOn \/ Expire
Ends(answer) == TerminateAndReap \/ Drain \/ JoinWriter \/ CollectOutput \/ Collect(answer)
Writes == WriterWrites \/ WriterEnds
Gathers(s) == ReaderReads(s) \/ ReaderEnds(s) \/ ReaderFails(s)
Works == WorkerReads \/ WorkerExits \/ WorkerDies \/ \E s \in Streams : WorkerWrites(s)

\* An answer is only ever that of a worker that read the whole request, ended by itself and without a
\* complaint, and whose whole output was read: a deadline, a kill, a broken pipe or an error of a
\* thread at any point leaves none (launch_process_once).
AnswerIsWhole ==
    result.code \in {"Answered", "Rejected", "Mismatch"} =>
        /\ executable.serves /\ status = "success" /\ worker = "reaped"
        /\ taken = RequestChunks
        /\ got = executable.writes

\* The process is gone and the threads have ended.
CleanedUp == /\ phase = "returned" /\ worker \in {"none", "reaped"}
             /\ writer # "writing" /\ \A s \in Streams : reader[s] # "reading"
=============================================================================
