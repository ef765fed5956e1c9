--------------------------- MODULE NativeExecution ---------------------------
(***************************************************************************)
(* A call of the native engine: an emitted artifact is prepared by the     *)
(* parent, executed by one worker and its answer trusted only if all of    *)
(* its identities are what the parent derives itself.  The parent may be   *)
(* configured with other limits; the worker always has the default ones,   *)
(* and caps of its own on its buffer and on its steps, far below them.     *)
(***************************************************************************)
EXTENDS NativeWorker, CpuPrograms

CONSTANTS
    Programs,
    Inputs,         \* values for the parameters
    Limits,         \* the limits a parent may be configured with
    Executables,
    DefaultLimits,
    WorkerCaps,     \* the values and steps a worker takes, and the values a frame carries
    Runtime         \* the runtime identity the parent was built with

\* Only the worker, which reads the request, writes a response to it.
ASSUME ExecutablesAssumption ==
    \A e \in Executables : e.writes \in [Streams -> Nat] /\ (e.response => e.serves)

VARIABLE call

vars == <<call, parentVars, processVars, inputVars, outputVars>>

\* The packages a workspace retains, each with its program; and inputs with every value of its kind.
Packages == {[program |-> p, package |-> Emitted(Implementation(p))] : p \in Programs}

InputsOf(p) == {i \in [DOMAIN p.params -> Inputs] :
                   \A n \in DOMAIN i : OfKind(TypeOf(p, p.params[n]), i[n])}

Calls == UNION {{[program |-> r.program, package |-> r.package, inputs |-> i, limits |-> l] :
                    i \in InputsOf(r.program), l \in Limits} :
                r \in {r \in Packages : r.package # NoArtifact}}

\* What the worker makes of a request: outputs with their identities, or a rejection, also when
\* the outputs are more than a frame carries.
Executed(c, runtime) ==
    LET a == c.package
        outputs == NativeOutputs(a, c.inputs)
    IN IF /\ PrepareNative(a, c.inputs, DefaultLimits) /\ WorkerPrepares(a, c.inputs, WorkerCaps)
          /\ outputs # NoOutputs /\ Carried(outputs) <= WorkerCaps.frame
       THEN [code |-> "Ok", artifact |-> a, runtime |-> runtime, outputs |-> outputs,
             identity |-> ExecutionIdentity(a, runtime, c.inputs, outputs)]
       ELSE Failed("Rejected")

ValidRuntime(runtime) == runtime = Runtime

\* What the parent makes of the worker's response.
Trusted(c, response) ==
    LET a == c.package
    IN IF response.code # "Ok" THEN response
       ELSE IF /\ response.artifact = a /\ ValidRuntime(response.runtime)
               /\ CanonicalOutputs(response.outputs, OutputShapes(a, c.inputs))
               /\ response.identity = ExecutionIdentity(a, Runtime, c.inputs, response.outputs)
            THEN [code |-> "Answered", outputs |-> response.outputs]
            ELSE Failed("Mismatch")

\* The answer of a call is a function of the request and of the worker's build.
Answers == {<<c, r, Trusted(c, Executed(c, r))>> : c \in Calls, r \in {e.runtime : e \in Executables}}

Answer == (CHOOSE a \in Answers : a[1] = call /\ a[2] = executable.runtime)[3]

-----------------------------------------------------------------------------

Init == call \in Calls /\ WorkerInit

\* A call is launched once the parent has prepared it and its request is within a frame.
Prepared ==
    PrepareNative(call.package, call.inputs, call.limits) /\ Carried(call.inputs) <= WorkerCaps.frame

Refuse ==
    /\ phase = "ready" /\ ~Prepared
    /\ Return(Failed("Invalid"))
    /\ UNCHANGED <<call, late, processVars, inputVars, outputVars>>

Launch ==
    /\ phase = "ready" /\ Prepared
    /\ SpawnFails \/ \E e \in Executables : Spawn(e)
    /\ UNCHANGED call

Execute == Refuse \/ Launch

Parent == (Polls \/ Ends(Answer)) /\ UNCHANGED call
Clock == Tick /\ UNCHANGED call
Writer == Writes /\ UNCHANGED call
Reader(s) == Gathers(s) /\ UNCHANGED call
Worker == Works /\ UNCHANGED call

Next == Execute \/ Parent \/ Clock \/ Writer \/ Worker \/ \E s \in Streams : Reader(s)

\* The parent and its threads run and time passes; nothing is assumed of the worker.
Fairness ==
    /\ WF_vars(Parent) /\ WF_vars(Clock) /\ WF_vars(Writer)
    /\ \A s \in Streams : WF_vars(Reader(s))

Spec == Init /\ [][Next]_vars /\ Fairness

-----------------------------------------------------------------------------

\* What a worker has no room for, as the interpreter counts it.
Oversized(work, outputs) ==
    \/ work.elements > WorkerCaps.values \/ work.instructions > WorkerCaps.steps
    \/ Carried(outputs) > WorkerCaps.frame

\* The three engines agree.  An answer of the worker, which runs everything in one packed buffer,
\* has the outputs of the interpreter, which in turn has those of the reference evaluator wherever
\* that one does not refuse; the work a call is admitted on is the work it does, and no more than
\* the worker takes.  A call the worker rejects is one that the interpreter, under the limits of the
\* worker, refuses too, or one with more values or steps than a worker has room for: there the
\* native engine refuses what the interpreter computes.
EnginesAgree ==
    phase = "returned" /\ result.code \in {"Answered", "Rejected"} =>
        LET a == call.package
            work == Projected(a, call.inputs)
            run == Interpret(a, call.inputs, call.limits)
            default == Interpret(a, call.inputs, DefaultLimits)
            reference == Evaluate(call.program, call.inputs)
        IN IF result.code = "Rejected"
           THEN default = NotExecuted \/ Oversized(work, default.outputs)
           ELSE /\ result.outputs = run.outputs
                /\ reference \in {NoOutputs, run.outputs}
                /\ run.instructions = work.instructions
                /\ work.elements = Slots(a, call.inputs).total
                /\ work.elements <= WorkerCaps.values /\ Carried(run.outputs) <= WorkerCaps.frame

\* Every call returns, and leaves no process and, in the end, no thread behind, whatever the worker
\* does: also when it never reads, never ends or fills a pipe nobody empties (launch_process_once).
EveryCallCleansUp == (phase # "ready") ~> CleanedUp
=============================================================================
