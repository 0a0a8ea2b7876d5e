-------------------------------- MODULE WasmRuns --------------------------------
(***************************************************************************)
(* Tools compiled to WebAssembly: their files and compiled modules         *)
(* (wasm/mod.rs: ToolRegistry, WasmExecutor; executor/mod.rs:              *)
(* execute_wasm_local) and one execution with its fuel, its memory and the *)
(* functions of the host (wasm/sandbox.rs, wasm/host.rs).  wasmtime is     *)
(* outside the repository: a module takes whatever steps its fuel allows.  *)
(***************************************************************************)
EXTENDS Integers, Sequences, FiniteSets

CONSTANTS Tools, Callers, Fuel, MemorySize, InputLength, Word, Arguments, None

\* Word: 2^64, the size of usize.  Arguments: the 32-bit pointers and lengths a
\* module may pass; converted to usize, they keep their sign.
WasmAssumption ==
    /\ Fuel \in Nat \ {0} /\ MemorySize \in Nat \ {0} /\ InputLength \in Nat
    /\ None \notin Tools /\ None \notin {"none", "part", "whole"}
    /\ Word \in Nat /\ MemorySize < Word /\ Arguments \subseteq Int
    /\ \A n \in Arguments : 2 * n < Word - MemorySize /\ 2 * n > MemorySize - Word

VARIABLES
    file,       \* tools/<prefix>.wasm: what it holds, whether it is being written,
                \* whether a write of it was left off since the node started, or before
    tools,      \* the tools with metadata
    compiled,   \* compiled: hash -> the module kept for it
    loader,     \* what a caller has read
    run         \* the execution, or None

vars == <<file, tools, compiled, loader, run>>

Init ==
    /\ file = [t \in Tools |-> [holds |-> "none", writing |-> FALSE, torn |-> FALSE]]
    /\ tools = {} /\ compiled = [t \in Tools |-> None]
    /\ loader = [c \in Callers |-> [step |-> "idle", tool |-> None, bytes |-> None]]
    /\ run = None

-------------------------------------------------------------------------------
(* Tools                                                                   *)

\* &mut self keeps register and get_compiled apart, but not the executor, which
\* reads the file itself.
Registering == \E t \in Tools : file[t].writing

\* register begins to write the file, over what was there.
Write(t) ==
    /\ ~Registering /\ \A c \in Callers : loader[c].step # "read"
    /\ file' = [file EXCEPT ![t].holds = "part", ![t].writing = TRUE]
    /\ UNCHANGED <<tools, compiled, loader, run>>

Register(t) ==
    /\ file[t].writing
    /\ file' = [file EXCEPT ![t].holds = "whole", ![t].writing = FALSE]
    /\ tools' = tools \cup {t}
    /\ UNCHANGED <<compiled, loader, run>>

\* The write fails, and leaves what it wrote.
WriteFails(t) ==
    /\ file[t].writing
    /\ file' = [file EXCEPT ![t].writing = FALSE, ![t].torn = TRUE]
    /\ UNCHANGED <<tools, compiled, loader, run>>

Loading(c, step, t, bytes) ==
    loader' = [loader EXCEPT ![c] = [step |-> step, tool |-> t, bytes |-> bytes]]

\* get_compiled: the cache, or else the file, whatever was left there.
GetCompiled(c, t) ==
    /\ loader[c].step = "idle" /\ ~Registering
    /\ \/ compiled[t] # None /\ Loading(c, "ready", t, compiled[t])
       \/ compiled[t] = None /\ file[t].holds # "none" /\ Loading(c, "read", t, file[t].holds)
    /\ UNCHANGED <<file, tools, compiled, run>>

\* execute_wasm_local: always the file.
ReadFile(c, t) ==
    /\ loader[c].step = "idle" /\ file[t].holds # "none"
    /\ Loading(c, "own", t, file[t].holds)
    /\ UNCHANGED <<file, tools, compiled, run>>

\* What was read is not compared with the hash: a part compiles where it ends
\* with a section, and get_compiled keeps what compiles.
Compile(c) ==
    LET l == loader[c]
    IN  /\ l.step \in {"read", "own"}
        /\ \/ /\ l.bytes = "part"
              /\ Loading(c, "idle", None, None) /\ UNCHANGED compiled
           \/ /\ l.step = "read" /\ Loading(c, "ready", l.tool, l.bytes)
              /\ compiled' = [compiled EXCEPT ![l.tool] = l.bytes]
           \/ l.step = "own" /\ Loading(c, "apart", l.tool, l.bytes) /\ UNCHANGED compiled
        /\ UNCHANGED <<file, tools, run>>

\* The node stops, maybe while it writes: files stay as they are.
Restart ==
    /\ file' = [t \in Tools |-> [holds |-> file[t].holds, writing |-> FALSE,
                                 torn |-> file[t].holds = "part"]]
    /\ tools' = {} /\ compiled' = [t \in Tools |-> None] /\ run' = None
    /\ loader' = [c \in Callers |-> [step |-> "idle", tool |-> None, bytes |-> None]]

-------------------------------------------------------------------------------
(* The functions of the host                                               *)

AsUsize(n) == n % Word

\* start..end of the module's memory: taken, refused, or a panic of the host
\* (the sum wraps, so that the slice ends before it starts; a build that
\* checks for overflow panics as well where a sum that wraps is refused).
Slice(start, count) ==
    LET end == (start + count) % Word
    IN  IF end > MemorySize THEN "refused" ELSE IF start > end THEN "panic" ELSE "taken"

Min2(m, n) == IF m < n THEN m ELSE n

\* The cells that a call with this range reads or writes.
Cells(ptr, count) == {AsUsize(ptr) + i : i \in 0 .. count - 1}

\* Every step of the module costs fuel, those into the host as well; the timeout
\* and the limit of memory that the configuration names are not used.
Running == run # None /\ run.outcome = "running"
Step(next) ==
    /\ Running /\ run.fuel > 0
    /\ run' = [next EXCEPT !.fuel = @ - 1]
    /\ UNCHANGED <<file, tools, compiled, loader>>

\* The length of the input is asked for in some of these.
Compute == \E i \in 0 .. MemorySize - 1 : Step([run EXCEPT !.memory[i] = "own"])

HostCall(ptr, count, taken) ==
    CASE Slice(AsUsize(ptr), count) = "taken" -> Step(taken)
      [] Slice(AsUsize(ptr), count) = "refused" -> Step(run)
      [] OTHER -> Step([run EXCEPT !.outcome = "panic"])

\* host_get_input: never more than the input.
GetInput(ptr, len) ==
    LET count == Min2(AsUsize(len), InputLength)
    IN  HostCall(ptr, count,
                 [run EXCEPT !.memory = [i \in DOMAIN @ |-> IF i \in Cells(ptr, count)
                                                            THEN "input" ELSE @[i]]])

\* host_random, which the tool's capabilities may deny.
Random(ptr, len) ==
    IF ~run.random THEN Step(run)
    ELSE HostCall(ptr, AsUsize(len),
                  [run EXCEPT !.memory = [i \in DOMAIN @ |-> IF i \in Cells(ptr, AsUsize(len))
                                                             THEN "random" ELSE @[i]]])

\* host_set_output: what is no text is ignored; input is text.
SetOutput(ptr, len) ==
    LET said == {run.memory[i] : i \in Cells(ptr, AsUsize(len))}
    IN  \/ HostCall(ptr, AsUsize(len), [run EXCEPT !.output = [from |-> said, length |-> AsUsize(len)]])
        \/ /\ Slice(AsUsize(ptr), AsUsize(len)) = "taken"
           /\ ~(said \subseteq {"input"}) /\ Step(run)

\* host_log, whose messages nobody reads.
Log(ptr, len) == HostCall(ptr, AsUsize(len), run)

-------------------------------------------------------------------------------
(* An execution                                                            *)

\* The store of an execution, with its fuel.
NewRun(c, random, outcome) ==
    [tool |-> loader[c].tool, bytes |-> loader[c].bytes, own |-> loader[c].step = "apart",
     outcome |-> outcome,
     fuel |-> Fuel, random |-> random, output |-> None,
     memory |-> [i \in 0 .. MemorySize - 1 |-> "own"]]

\* sandbox.execute: the function may be missing or take parameters.
Execute(c) ==
    /\ loader[c].step \in {"ready", "apart"} /\ (run = None \/ ~Running)
    /\ \E random \in BOOLEAN, first \in {"running", "error"} : run' = NewRun(c, random, first)
    /\ Loading(c, "idle", None, None)
    /\ UNCHANGED <<file, tools, compiled>>

\* The function returns, or traps: for want of fuel, which is told from other
\* traps by the words of the error.
Return ==
    /\ Running
    /\ \E outcome \in IF run.fuel = 0 THEN {"ok", "exhausted", "error"} ELSE {"ok", "error"} :
         run' = [run EXCEPT !.outcome = outcome]
    /\ UNCHANGED <<file, tools, compiled, loader>>

Next ==
    \/ Restart \/ Return \/ Compute
    \/ \E t \in Tools : Write(t) \/ Register(t) \/ WriteFails(t)
    \/ \E c \in Callers :
         Compile(c) \/ Execute(c) \/ \E t \in Tools : GetCompiled(c, t) \/ ReadFile(c, t)
    \/ Running /\ \E ptr, len \in Arguments : GetInput(ptr, len) \/ Random(ptr, len)
                                            \/ SetOutput(ptr, len) \/ Log(ptr, len)

Spec == Init /\ [][Next]_vars

-------------------------------------------------------------------------------
(* Properties                                                              *)

\* The registry keeps for a hash, and executes, a part of its module only if a
\* failed write or a crash left that part in the file, and never one that is
\* being written (register, get_compiled).  Once kept, such a part stays, also
\* when the file is whole again; only a restart ends that.
PartsOnlyTorn ==
    /\ \A t \in Tools : compiled[t] = "part" => file[t].torn
    /\ run # None => (~run.own /\ run.bytes = "part" => file[run.tool].torn)

\* Whatever a module passes, the host touches the cells from ptr on and none
\* outside the memory, and refuses no range that lies within it (host_log,
\* host_random, host_set_output).
HostKeepsRange ==
    \A ptr, len \in Arguments :
      Slice(AsUsize(ptr), AsUsize(len)) = "taken" <=>
        /\ ptr >= 0 /\ len >= 0 /\ ptr + len <= MemorySize

===============================================================================
