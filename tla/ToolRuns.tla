-------------------------------- MODULE ToolRuns --------------------------------
(***************************************************************************)
(* Calls of the builtin tools that change something or run a program       *)
(* (src/src/tools): execute_local of the registry with its statistics, the *)
(* tools that write and patch a file, and the two that start a child,      *)
(* shell and code_exec, with the pipes between a tool and its child.       *)
(*                                                                         *)
(* Calls run side by side: each agent and each request of the dashboard    *)
(* makes its own.  A file is a sequence of pieces of text, a stream of a   *)
(* child a number of pieces, and a pipe holds Pipe of them.  A child may   *)
(* start programs of its own, which stay when it is killed: one of each.   *)
(***************************************************************************)
EXTENDS Naturals, Sequences, FiniteSets

CONSTANTS
    Calls,
    Pieces,                     \* what the text of a file is made of
    Pipe, MaxInput, MaxOutput,  \* a pipe's room; bounds on a child's streams
    Kept,                       \* what is returned of a stream (MAX_OUTPUT_SIZE)
    MaxLength,                  \* bound on the file
    MaxChildren,                \* bound on the calls of a tool that starts a child
    None

\* Where a call may be, and what a child may do next.
Places == {"error", "read", "stdin", "stdout", "stderr", "ok", "failed", "panic", "timeout"}
Wishes == {"in", "out", "err", "exit"}

ToolsAssumption ==
    /\ {Pipe, MaxInput, MaxOutput, Kept, MaxLength, MaxChildren} \subseteq Nat \ {0}
    /\ IsFiniteSet(Calls) /\ None \notin Places \cup Wishes

VARIABLES
    direct,         \* calls that are made without the registry
    file,           \* the text of the one file calls work on, None if missing
    call,
    child,          \* of each call: its streams, what it wants to do next, and
                    \* the program it started, with its output or without
    stats

vars == <<direct, file, call, child, stats>>

Tools == {"write", "append", "patch", "shell", "code"}
Free == [tool |-> None, step |-> None]
Streams == {"out", "err"}
Nothing == [s \in Streams |-> 0]
NoChild == [alive |-> FALSE, rest |-> "none", wants |-> None, in |-> 0, open |-> FALSE,
            out |-> 0, err |-> 0, wrote |-> Nothing, got |-> Nothing]

\* /tool exec of a chat looks the tool up and calls it itself: nothing is
\* checked before and nothing counted.  A chat runs one command at a time.
Direct(c) == c \in direct

Init ==
    /\ direct \in {S \in SUBSET Calls : Cardinality(S) <= 1}
    /\ file = None
    /\ call = [c \in Calls |-> Free]
    /\ child = [c \in Calls |-> NoChild]
    /\ stats = [total |-> 0, ok |-> 0, failed |-> 0]

\* The statistics count calls whose tool returned an output; a call that ended
\* in an error, before it began or after, is not counted.
Counted(success) ==
    stats' = [total |-> stats.total + 1,
              ok |-> stats.ok + IF success THEN 1 ELSE 0,
              failed |-> stats.failed + IF success THEN 0 ELSE 1]

Ends(c, how) ==
    /\ call' = [call EXCEPT ![c].step = how]
    /\ IF how \in {"ok", "failed"} /\ ~Direct(c) THEN Counted(how = "ok") ELSE UNCHANGED stats

\* precheck_local_params, the egress policy and the lookup refuse a call, and
\* tools refuse protected paths, blocked commands and unknown languages.
Refuse(c, t) ==
    /\ call[c].step = None
    /\ call' = [call EXCEPT ![c] = [tool |-> t, step |-> "error"]]
    /\ UNCHANGED <<direct, file, child, stats>>

-------------------------------------------------------------------------------
(* Files                                                                   *)

Done(c, t) ==
    /\ call' = [call EXCEPT ![c] = [tool |-> t, step |-> "ok"]]
    /\ IF Direct(c) THEN UNCHANGED stats ELSE Counted(TRUE)
    /\ UNCHANGED <<direct, child>>

Write(c, text) ==
    /\ call[c].step = None
    /\ file' = text
    /\ Done(c, "write")

AppendTo(c, p) ==
    /\ call[c].step = None
    /\ IF file = None THEN file' = <<p>> ELSE Len(file) < MaxLength /\ file' = Append(file, p)
    /\ Done(c, "append")

\* apply_patch reads the file and writes it later: another call may write it in
\* between, and what that call wrote is lost.
ReadFile(c, old, new, create) ==
    /\ call[c].step = None
    /\ IF file = None /\ ~create THEN call' = [call EXCEPT ![c] = [tool |-> "patch", step |-> "error"]]
       ELSE call' = [call EXCEPT ![c] = [tool |-> "patch", step |-> "read", old |-> old,
                                         new |-> new, seen |-> file]]
    /\ UNCHANGED <<direct, file, child, stats>>

\* The first place where old stands; no place is an error.
Patched(text, old, new) ==
    LET at == {i \in DOMAIN text : text[i] = old}
    IN  [text EXCEPT ![CHOOSE i \in at : \A j \in at : i <= j] = new]

Found(c) == \E i \in DOMAIN call[c].seen : call[c].seen[i] = call[c].old

WriteFile(c) ==
    /\ call[c].step = "read"
    /\ IF call[c].seen = None THEN file' = <<call[c].new>> /\ Ends(c, "ok")
       ELSE IF Found(c)
       THEN file' = Patched(call[c].seen, call[c].old, call[c].new) /\ Ends(c, "ok")
       ELSE file' = file /\ Ends(c, "error")
    /\ UNCHANGED <<direct, child>>

-------------------------------------------------------------------------------
(* Children                                                                *)

\* The shell gets its standard input as a pipe, which stays open when there is
\* nothing to write; code_exec leaves it alone.
Spawn(c, t, input) ==
    /\ call[c].step = None /\ t \in {"shell", "code"} /\ (t = "code" => input = 0)
    /\ Cardinality({d \in Calls : call[d].tool \in {"shell", "code"}}) < MaxChildren
    /\ call' = [call EXCEPT ![c] = [tool |-> t, input |-> input, given |-> Nothing,
                                    step |-> IF input > 0 THEN "stdin" ELSE "stdout"]]
    /\ child' = [child EXCEPT ![c] = [NoChild EXCEPT !.alive = TRUE, !.open = (t = "shell")]]
    /\ UNCHANGED <<direct, file, stats>>

\* What a child does next is its own affair; a child that reads until the end
\* of its input stays with that until the pipe is closed.  What it started may
\* write to its streams, also when the child is gone.
Wants(c, w) ==
    /\ child[c].wants = None
    /\ child[c].alive \/ (child[c].rest = "holding" /\ w \in Streams)
    /\ w \in Streams => child[c].wrote["out"] + child[c].wrote["err"] < MaxOutput
    /\ child' = [child EXCEPT ![c].wants = w]
    /\ UNCHANGED <<direct, file, call, stats>>

\* A pipeline, or a command in the background: with the child's output as its
\* own, or apart from it.
Starts(c, how) ==
    /\ child[c].alive /\ child[c].rest = "none" /\ how \in {"holding", "apart"}
    /\ child' = [child EXCEPT ![c].rest = how]
    /\ UNCHANGED <<direct, file, call, stats>>

RestEnds(c) ==
    /\ child[c].rest # "none" /\ (child[c].alive \/ child[c].wants = None)
    /\ child' = [child EXCEPT ![c].rest = "none"]
    /\ UNCHANGED <<direct, file, call, stats>>

ChildReads(c) ==
    /\ child[c].wants = "in" /\ child[c].in > 0
    /\ child' = [child EXCEPT ![c].in = @ - 1]
    /\ UNCHANGED <<direct, file, call, stats>>

ChildSeesEnd(c) ==
    /\ child[c].wants = "in" /\ child[c].in = 0 /\ ~child[c].open
    /\ child' = [child EXCEPT ![c].wants = None]
    /\ UNCHANGED <<direct, file, call, stats>>

\* A full pipe blocks who writes.
ChildWrites(c) ==
    /\ call[c].step # "timeout"
    /\ child[c].wants \in Streams /\ child[c][child[c].wants] < Pipe
    /\ child' = [child EXCEPT ![c][child[c].wants] = @ + 1, ![c].wants = None,
                              ![c].wrote[child[c].wants] = @ + 1]
    /\ UNCHANGED <<direct, file, call, stats>>

\* A write into a pipe whose tool is gone fails, which may end the child.
WriteFails(c, survives) ==
    /\ call[c].step = "timeout" /\ child[c].wants \in Streams
    /\ child' = [child EXCEPT ![c].alive = @ /\ survives, ![c].wants = None]
    /\ UNCHANGED <<direct, file, call, stats>>

ChildExits(c) ==
    /\ child[c].wants = "exit"
    /\ child' = [child EXCEPT ![c].alive = FALSE, ![c].wants = None]
    /\ UNCHANGED <<direct, file, call, stats>>

\* The input is written before the timeout begins to count; the write fails
\* when the child is gone, and that is ignored.
Feed(c) ==
    /\ call[c].step = "stdin"
    /\ IF call[c].input = 0 \/ ~child[c].alive
       THEN call' = [call EXCEPT ![c].step = "stdout"] /\ child' = [child EXCEPT ![c].open = FALSE]
       ELSE /\ child[c].in < Pipe
            /\ call' = [call EXCEPT ![c].input = @ - 1]
            /\ child' = [child EXCEPT ![c].in = @ + 1]
    /\ UNCHANGED <<direct, file, stats>>

\* The shell reads one stream to its end and then the other; code_exec reads
\* both at once (wait_with_output).
Reads(c) ==
    IF call[c].tool = "code" THEN IF call[c].step = "stdout" THEN {"out", "err"} ELSE {}
    ELSE IF call[c].step = "stdout" THEN {"out"}
    ELSE IF call[c].step = "stderr" THEN {"err"} ELSE {}

Read(c, s) ==
    /\ call[c].step \in {"stdout", "stderr"} /\ s \in Reads(c) /\ child[c][s] > 0
    /\ child' = [child EXCEPT ![c][s] = @ - 1, ![c].got[s] = @ + 1]
    /\ UNCHANGED <<direct, file, call, stats>>

\* Of each stream its beginning is returned.  The shell cuts the text at a
\* number of bytes, which panics when that is inside a character; and the output
\* of a command that failed is left out of what it returns.
Cut(n) == IF n > Kept THEN Kept ELSE n
Beginnings(c) == [s \in Streams |-> Cut(child[c].got[s])]
TooLong(c) == \E s \in Streams : child[c].got[s] > Kept

Returns(c, how) ==
    /\ how = "panic" => call[c].tool = "shell" /\ TooLong(c)
    /\ call' = [call EXCEPT ![c].step = how,
                            ![c].given = IF how = "ok" \/ (how = "failed" /\ call[c].tool = "code")
                                         THEN Beginnings(c) ELSE Nothing]
    /\ IF how # "panic" /\ ~Direct(c) THEN Counted(how = "ok") ELSE UNCHANGED stats

\* A stream ends when all who hold its pipe are gone; then the end of the child
\* is waited for.
StreamEnds(c) ==
    /\ call[c].step \in {"stdout", "stderr"} /\ ~child[c].alive /\ child[c].rest # "holding"
    /\ \A s \in Reads(c) : child[c][s] = 0
    /\ IF call[c].tool = "shell" /\ call[c].step = "stdout"
       THEN call' = [call EXCEPT ![c].step = "stderr"] /\ UNCHANGED stats
       ELSE \E how \in {"ok", "failed", "panic"} : Returns(c, how)
    /\ UNCHANGED <<direct, file, child>>

\* The shell kills its child, and that alone; code_exec leaves it running and
\* removes the directory it runs in.
Timeout(c) ==
    /\ call[c].step \in {"stdout", "stderr"}
    /\ Ends(c, "timeout")
    /\ child' = IF call[c].tool = "shell" /\ child[c].alive
                THEN [child EXCEPT ![c].alive = FALSE, ![c].wants = None] ELSE child
    /\ UNCHANGED <<direct, file>>

Next == \E c \in Calls :
    \/ \E t \in Tools : Refuse(c, t)
    \/ \E p \in Pieces : Write(c, <<p>>) \/ AppendTo(c, p)
    \/ \E old, new \in Pieces, create \in BOOLEAN : ReadFile(c, old, new, create)
    \/ WriteFile(c)
    \/ \E t \in Tools, n \in 0..MaxInput : Spawn(c, t, n)
    \/ \E w \in Wishes : Wants(c, w)
    \/ \E how \in {"holding", "apart"} : Starts(c, how)
    \/ RestEnds(c)
    \/ \E survives \in BOOLEAN : WriteFails(c, survives)
    \/ ChildReads(c) \/ ChildSeesEnd(c) \/ ChildWrites(c) \/ ChildExits(c)
    \/ Feed(c) \/ StreamEnds(c) \/ Timeout(c)
    \/ \E s \in Streams : Read(c, s)

Spec == Init /\ [][Next]_vars

-------------------------------------------------------------------------------
(* Properties                                                              *)

TypeOK ==
    /\ direct \subseteq Calls
    /\ file = None \/ file \in Seq(Pieces)
    /\ \A c \in Calls : call[c].tool \in Tools \cup {None} /\ call[c].step \in Places \cup {None}
    /\ \A c \in Calls : /\ child[c].in \in 0..Pipe /\ child[c].out \in 0..Pipe
                        /\ child[c].err \in 0..Pipe
                        /\ \A s \in Streams : child[c].got[s] <= child[c].wrote[s]
    /\ stats.total \in Nat

\* The statistics say how many calls of the registry returned an output and how
\* many of them had failed, with calls that end in an error, time out or pass
\* it by in between (tools/registry.rs).
CallsCounted ==
    LET With(step) == {c \in Calls \ direct : call[c].step = step}
    IN  /\ stats.ok = Cardinality(With("ok"))
        /\ stats.failed = Cardinality(With("failed"))
        /\ stats.total = stats.ok + stats.failed

\* A command whose output is returned has ended, and the beginning of each of
\* its streams is there up to the size at which it is cut, however full the pipes
\* were and whatever else held them.  Of a shell command that fails nothing is
\* returned, and one whose text is cut inside a character does not return
\* (shell.rs, code_exec.rs).
OutputWhole ==
    \A c \in Calls : call[c].tool \in {"shell", "code"} /\ call[c].step \in {"ok", "failed"} =>
        /\ ~child[c].alive
        /\ call[c].step = "ok" \/ call[c].tool = "code" =>
             \A s \in Streams : call[c].given[s] = Cut(child[c].wrote[s])

\* No shell outlives its call, whichever way that ends.  What the shell started
\* may: a call that times out kills the shell alone, and one that returns waits
\* only for who holds its pipes (a call that its caller abandons is left out).
NoShellLeft ==
    \A c \in Calls : call[c].tool = "shell" =>
        /\ child[c].alive => call[c].step \in {"stdin", "stdout", "stderr"}
        /\ child[c].rest = "holding" => call[c].step \in {"stdin", "stdout", "stderr", "timeout"}

===============================================================================
