------------------------------ MODULE McpSessions ------------------------------
(***************************************************************************)
(* The sessions with MCP servers (src/src/mcp) and their manager in the    *)
(* dashboard (reload_mcp_manager, src/src/web/mod.rs).  A reload, when the *)
(* node starts or a configuration is put, closes the live manager,         *)
(* connects another and makes it the live one; calls of tools hold on to   *)
(* the manager they found.  A session is a process with two pipes; answers *)
(* are matched to calls by number.                                         *)
(*                                                                         *)
(* A manager has one server here, and a session bears the name of the      *)
(* reload that opened it.  A connect is one step, with its three requests: *)
(* initialize, the tools, the resources.                                   *)
(***************************************************************************)
EXTENDS Naturals

CONSTANTS Reloads, Calls, None

McpAssumption == None \notin Reloads \cup Calls

VARIABLES
    config,             \* mcp_config: by whom it was put, None if there is nothing to connect
    live,               \* mcp_manager: the session of the live manager, or None
    tools,              \* sessions whose tools are listed
    reload,             \* where each reload is, and the configuration it read
    overlapped,         \* history: a configuration was put during a reload
    up,                 \* of each session: running, the flag of the client
    reading, writing,   \* sessions whose reader or writer goes on
    ids,                \* of each session: numbers given out
    pending,            \* of each session: numbers that wait for an answer
    call                \* what each call is doing

vars == <<config, live, tools, reload, overlapped, up, reading, writing, ids, pending, call>>

Steps == {"new", "put", "read", "taken", "connected", "done"}
New == [step |-> "new", at |-> None, id |-> 0, got |-> 0]

\* The node starts with the configuration of its file, and reloads.
Init ==
    /\ config \in {"file", None} /\ live = None /\ tools = {} /\ overlapped = FALSE
    /\ \E first \in Reloads : reload =
          [r \in Reloads |-> [step |-> IF r = first THEN "put" ELSE "new", of |-> None]]
    /\ up = {} /\ reading = {} /\ writing = {}
    /\ ids = [r \in Reloads |-> 0] /\ pending = [r \in Reloads |-> {}]
    /\ call = [c \in Calls |-> New]

Step(r, from, to) == reload[r].step = from /\ reload' = [reload EXCEPT ![r].step = to]

\* A configuration with a server that has no name or no url, or with more than
\* 24 servers, is refused; any other is replaced before the reload.
PutConfig(r, enabled) ==
    /\ Step(r, "new", "put")
    /\ config' = IF enabled THEN r ELSE None
    /\ overlapped' = (overlapped \/ \E s \in Reloads : reload[s].step \notin {"new", "done"})
    /\ UNCHANGED <<live, tools, up, reading, writing, ids, pending, call>>

ReadConfig(r) ==
    /\ reload[r].step = "put"
    /\ reload' = [reload EXCEPT ![r] = [step |-> "read", of |-> config]]
    /\ UNCHANGED <<config, live, tools, overlapped, up, reading, writing, ids, pending, call>>

\* disconnect clears the flag and forgets the tools; pipes are left alone.
\* Nothing is connected when MCP is disabled or without servers.
TakeOld(r) ==
    /\ Step(r, "read", IF reload[r].of = None THEN "done" ELSE "taken")
    /\ live' = None
    /\ up' = up \ {live} /\ tools' = tools \ {live}
    /\ UNCHANGED <<config, overlapped, reading, writing, ids, pending, call>>

\* A connect that fails on the way leaves the tools it listed before, and a
\* manager without a session.
Connect(r) ==
    /\ Step(r, "taken", "connected")
    /\ \E ok, listed \in BOOLEAN :
          /\ ok => listed
          /\ tools' = IF listed THEN tools \cup {r} ELSE tools
          /\ up' = IF ok THEN up \cup {r} ELSE up
          /\ reading' = IF ok THEN reading \cup {r} ELSE reading
          /\ writing' = IF ok THEN writing \cup {r} ELSE writing
          /\ ids' = IF ok THEN [ids EXCEPT ![r] = 3] ELSE ids
    /\ UNCHANGED <<config, overlapped, live, pending, call>>

\* Whatever another reload has put there is replaced.
MakeLive(r) ==
    /\ Step(r, "connected", "done")
    /\ live' = r
    /\ UNCHANGED <<config, overlapped, tools, up, reading, writing, ids, pending, call>>

\* Mutant: the number is read and not counted on.
CallAgain(c) ==
    LET s == live
    IN  /\ call[c].step = "new" /\ s # None /\ ids[s] > 0
        /\ pending' = [pending EXCEPT ![s] = @ \cup {ids[s] + 1}]
        /\ call' = [call EXCEPT ![c] = [step |-> "send", at |-> s, id |-> ids[s] + 1, got |-> 0]]
        /\ UNCHANGED <<config, overlapped, live, tools, reload, up, reading, writing, ids>>

\* call_tool, of a server that connected, and may have exited since; the number
\* is entered before the message is sent.
Call(c) ==
    LET s == live
    IN  /\ call[c].step = "new" /\ s # None /\ ids[s] > 0
        /\ ids' = [ids EXCEPT ![s] = @ + 1]
        /\ pending' = [pending EXCEPT ![s] = @ \cup {ids[s] + 1}]
        /\ call' = [call EXCEPT ![c] = [step |-> "send", at |-> s, id |-> ids[s] + 1, got |-> 0]]
        /\ UNCHANGED <<config, overlapped, live, tools, reload, up, reading, writing>>

Ends(c, how) == call' = [call EXCEPT ![c].step = how]

\* The writer keeps the queue; without it a call fails and its entry stays.
Send(c) ==
    /\ call[c].step = "send"
    /\ Ends(c, IF call[c].at \in writing THEN "waiting" ELSE "failed")
    /\ UNCHANGED <<config, overlapped, live, tools, reload, up, reading, writing, ids, pending>>

\* The reader looks at the flag before each line, and not while it waits for
\* one; it gives a line to the call with its number.  A request of the server
\* reads as an answer, too.
Line(s, n) ==
    /\ s \in reading
    /\ pending' = [pending EXCEPT ![s] = @ \ {n}]
    /\ call' = [c \in Calls |->
          IF n \in pending[s] /\ call[c].at = s /\ call[c].id = n /\ call[c].step \in {"send", "waiting"}
          THEN [call[c] EXCEPT !.got = n, !.step = "answered"] ELSE call[c]]
    /\ reading' = IF s \in up THEN reading ELSE reading \ {s}
    /\ UNCHANGED <<config, overlapped, live, tools, reload, up, writing, ids>>

Timeout(c) ==
    /\ call[c].step = "waiting"
    /\ Ends(c, "failed")
    /\ UNCHANGED <<config, overlapped, live, tools, reload, up, reading, writing, ids, pending>>

\* The server exits: the reader sees the end, the writer its next error.
ServerExits(s) ==
    /\ s \in reading
    /\ reading' = reading \ {s} /\ up' = up \ {s}
    /\ UNCHANGED <<config, overlapped, live, tools, reload, writing, ids, pending, call>>

WriterStops(s) ==
    /\ s \in writing /\ s \notin reading
    /\ writing' = writing \ {s} /\ up' = up \ {s}
    /\ UNCHANGED <<config, overlapped, live, tools, reload, reading, ids, pending, call>>

Next ==
    \/ \E r \in Reloads :
          \/ (\E enabled \in BOOLEAN : PutConfig(r, enabled)) \/ ReadConfig(r)
          \/ TakeOld(r) \/ Connect(r) \/ MakeLive(r)
          \/ ServerExits(r) \/ WriterStops(r)
          \/ \E n \in 1..ids[r] : Line(r, n)
    \/ \E c \in Calls : Call(c) \/ Send(c) \/ Timeout(c)

Spec == Init /\ [][Next]_vars

-------------------------------------------------------------------------------
(* Properties                                                              *)

\* A call that waits can be answered: its number is entered, whatever came of
\* other calls and reloads; and no two calls of a session share a number.
WaitingIsPending ==
    /\ \A c \in Calls : call[c].step \in {"send", "waiting"} => call[c].id \in pending[call[c].at]
    /\ \A c, d \in Calls :
          c # d /\ call[c].at # None /\ call[c].at = call[d].at => call[c].id # call[d].id

\* The live manager is of the configuration that the dashboard shows as soon as
\* no reload is under way, if none was put during a reload ("reconnect from the
\* current WebState::mcp_config", web/mod.rs).
LiveAsConfigured ==
    ~overlapped /\ (\A r \in Reloads : reload[r].step \in {"new", "done"}) =>
        IF live = None THEN config = None ELSE config = reload[live].of

===============================================================================
