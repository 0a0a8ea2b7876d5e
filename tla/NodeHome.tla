-------------------------------- MODULE NodeHome --------------------------------
(***************************************************************************)
(* The home directory (src/src/bootstrap.rs) and the programs that start   *)
(* in it: `peerclaw serve`, the menu of `peerclaw`, `peerclaw chat` and    *)
(* `run`, and the commands job, test and peers (src/src/cli).  They share  *)
(* the file of the identity and config.toml, each opens a database that    *)
(* one process may hold, and the settings page of a node writes            *)
(* config.toml (src/src/web/mod.rs).                                       *)
(*                                                                         *)
(* Writing a file truncates it first; a process may be killed and a disk   *)
(* may be full in between.  A key is known by the number of its start.  Of *)
(* the configuration two sections are told apart: the web server, which    *)
(* the environment and a flag may set, and inference, which a flag and the *)
(* settings page may set.                                                  *)
(***************************************************************************)
EXTENDS Naturals

CONSTANTS
    Programs,       \* processes, one after the other of any kind
    Saves,          \* requests to the settings page
    Settings,       \* what a request may ask for: <<use_ollama, key or None>>
    FlagSets,       \* the flags of serve
    MaxStarts,      \* bound on starts
    None

\* Of the settings a request has all but the key, which it may leave out.
Requests == BOOLEAN \X (BOOLEAN \cup {None})

HomeAssumption ==
    /\ MaxStarts \in Nat \ {0}
    /\ FlagSets \subseteq SUBSET {"web", "ollama"}
    /\ Settings \subseteq Requests

VARIABLES
    environment,    \* whether PEERCLAWD_WEB_ADDR and _ENABLED are set, which .env may do
    identity,       \* identity.key
    config,         \* config.toml
    program,        \* what each process does
    live,           \* InferenceLiveSettings of the node
    save,           \* what each request to the settings page does
    starts,         \* starts so far
    acked,          \* history: inference settings of the last save that succeeded
    overlapped,     \* history: two processes found no identity
    apart           \* history: why the node and config.toml may differ

vars == <<environment, identity, config, program, live, save, starts, acked, overlapped, apart>>

\* command: peerclaw job and test.
Kinds == {"serve", "menu", "chat", "run", "command", "peers"}

\* chat and run have a database of their own, not to wait for a node's; the
\* others cannot run beside one.
Database(kind) == IF kind \in {"chat", "run"} THEN kind ELSE "peerclaw"

Inference == [ollama : BOOLEAN, key : BOOLEAN]
DefaultInference == [ollama |-> FALSE, key |-> FALSE]

\* Config: whether and where the web server listens, and inference.
Configs == [web : {"off", "environment", "flag"}, inference : Inference]
Default == [web |-> "off", inference |-> DefaultInference]

\* A file that is missing, truncated or whole.
Missing == [is |-> "missing"]
Truncated == [is |-> "truncated"]
Whole(content) == [is |-> "whole", content |-> content]

Keys == 1 .. MaxStarts

Files(contents) == {Missing, Truncated} \cup {Whole(c) : c \in contents}

Off == [at |-> "off"]
Up(p) == program[p].at = "up"
Node(p) == Up(p) /\ program[p].kind = "serve"
Idle == [at |-> "idle"]

TypeOK ==
    /\ environment \in BOOLEAN
    /\ identity \in Files(Keys) /\ config \in Files(Configs)
    /\ live \in Inference /\ acked \in Inference \cup {None}
    /\ starts \in 0 .. MaxStarts
    /\ \A p \in Programs :
          program[p] # Off => /\ program[p].kind \in Kinds /\ program[p].key \in Keys
                              /\ program[p].config \in Configs
    /\ \A s \in Saves : save[s].at \in {"loaded", "writing"} => save[s].config \in Configs
    /\ overlapped \in BOOLEAN /\ apart \in BOOLEAN

Init ==
    /\ environment \in BOOLEAN
    /\ identity = Missing /\ config = Missing
    /\ program = [p \in Programs |-> Off]
    /\ live = DefaultInference
    /\ save = [s \in Saves |-> Idle]
    /\ starts = 0
    /\ acked = None /\ overlapped = FALSE /\ apart = FALSE

-------------------------------------------------------------------------------
(* Files.                                                                  *)

\* The environment overrides what the file says of the web server.
WithEnvironment(c) == IF environment THEN [c EXCEPT !.web = "environment"] ELSE c

CanLoad == config.is # "truncated"

Load == WithEnvironment(IF config.is = "missing" THEN Default ELSE config.content)

Goes(p, at) == program' = [program EXCEPT ![p].at = at]

Fails(p) == program' = [program EXCEPT ![p] = Off]

-------------------------------------------------------------------------------
(* Starts.                                                                 *)

homeLeft == <<environment, live, save, acked, apart>>

\* peerclaw serve with its flags, or another program: the directories are made.
Start(p, kind, flags) ==
    /\ program[p] = Off /\ starts < MaxStarts
    /\ kind # "serve" => flags = {}
    /\ starts' = starts + 1
    /\ program' = [program EXCEPT ![p] =
                      [at |-> IF kind = "chat" THEN "detect" ELSE "look", kind |-> kind,
                       flags |-> flags, key |-> starts + 1, config |-> Default]]
    /\ UNCHANGED <<identity, config, overlapped, homeLeft>>

\* peerclaw test cluster gives each of its nodes a directory by a variable that
\* base_dir does not read: they start in this one.
ClusterNode(p) == Start(p, "serve", {"web"})

\* A chat uses the node whose web server answers where config.toml says.
Detect(p) ==
    LET found == /\ CanLoad /\ Load.web # "off"
                 /\ \E n \in Programs :
                       Node(n) /\ program[n].config.web = Load.web
    IN  /\ program[p].at = "detect"
        /\ Goes(p, IF found THEN "api" ELSE "look")
        /\ UNCHANGED <<identity, config, overlapped, starts, homeLeft>>

\* The identity is loaded, or a new one generated; what is there but no key ends
\* the program.  peerclaw peers makes none.
Look(p) ==
    /\ program[p].at = "look"
    /\ \/ /\ identity.is = "missing" /\ program[p].kind = "peers"
          /\ Fails(p) /\ UNCHANGED overlapped
       \/ /\ identity.is = "missing" /\ program[p].kind # "peers"
          /\ Goes(p, "generated")
          /\ overlapped' = (overlapped \/ \E q \in Programs \ {p} :
                               program[q].at \in {"generated", "naming"})
       \/ /\ identity.is = "truncated" /\ Fails(p) /\ UNCHANGED overlapped
       \/ /\ identity.is = "whole"
          /\ program' = [program EXCEPT ![p].at = "load", ![p].key = identity.content]
          /\ UNCHANGED overlapped
    /\ UNCHANGED <<identity, config, starts, homeLeft>>

\* Mutant: every start generates an identity.
LookNowhere(p) ==
    /\ program[p].at = "look"
    /\ Goes(p, "generated")
    /\ overlapped' = (overlapped \/ \E q \in Programs \ {p} :
                         program[q].at \in {"generated", "naming"})
    /\ UNCHANGED <<identity, config, starts, homeLeft>>

\* NodeIdentity::save; without the file the program ends.
Name(p) ==
    /\ program[p].at = "generated"
    /\ \/ identity' = Truncated /\ Goes(p, "naming")
       \/ Fails(p) /\ UNCHANGED identity
    /\ UNCHANGED <<config, overlapped, starts, homeLeft>>

Named(p) ==
    /\ program[p].at = "naming"
    /\ \/ /\ identity' = Whole(program[p].key)
          /\ Goes(p, IF program[p].kind = "menu" THEN "setup" ELSE "load")
       \/ Fails(p) /\ UNCHANGED identity
    /\ UNCHANGED <<config, overlapped, starts, homeLeft>>

\* The first time the menu saves the defaults, whatever config.toml has...
Setup(p) ==
    /\ program[p].at = "setup"
    /\ \/ /\ config' = Truncated /\ acked' = None /\ apart' = TRUE
          /\ Goes(p, "writing")
       \/ Fails(p) /\ UNCHANGED <<config, acked, apart>>
    /\ UNCHANGED <<environment, identity, live, save, overlapped, starts>>

\* ...and then loads the identity from its file.
SetUp(p) ==
    /\ program[p].at = "writing"
    /\ \/ config' = Whole(Default) /\ acked' = None /\ apart' = TRUE /\ Goes(p, "look")
       \/ Fails(p) /\ UNCHANGED <<config, acked, apart>>
    /\ UNCHANGED <<environment, identity, live, save, overlapped, starts>>

\* Flags of serve are above the environment, which is above the file.
WithFlags(c, flags) ==
    [c EXCEPT !.web = IF "web" \in flags THEN "flag" ELSE @,
              !.inference.ollama = @ \/ "ollama" \in flags]

LoadConfig(p) ==
    /\ program[p].at = "load"
    /\ IF CanLoad
       THEN program' = [program EXCEPT ![p].at = "open", ![p].flags = {},
                           ![p].config = IF program[p].kind = "serve"
                                         THEN WithFlags(Load, program[p].flags) ELSE @]
       ELSE Fails(p)
    /\ UNCHANGED <<identity, config, overlapped, starts, homeLeft>>

\* Another process has the database open.
Held(p) ==
    \E q \in Programs : Up(q) /\ Database(program[q].kind) = Database(program[p].kind)

\* The runtime is made of the configuration.
Open(p) ==
    /\ program[p].at = "open"
    /\ IF Held(p) THEN Fails(p) ELSE Goes(p, "up")
    /\ IF ~Held(p) /\ program[p].kind = "serve"
       THEN /\ live' = program[p].config.inference
            /\ apart' = ~(config.is = "whole" /\ config.content.inference = live')
       ELSE UNCHANGED <<live, apart>>
    /\ UNCHANGED <<environment, identity, config, save, overlapped, starts, acked>>

\* A program ends or is killed, with the requests it serves; what it was writing
\* stays as it is.
End(p) ==
    /\ program[p] # Off
    /\ Fails(p)
    /\ save' = IF Node(p) THEN [s \in Saves |-> Idle] ELSE save
    /\ live' = IF Node(p) THEN DefaultInference ELSE live
    /\ UNCHANGED <<environment, identity, config, overlapped, starts, acked, apart>>

-------------------------------------------------------------------------------
(* PUT /api/inference/settings, which holds the lock of the live settings  *)
(* until config.toml is written.                                           *)

saveLeft == <<environment, identity, program, overlapped, starts>>

Free == \A s \in Saves : save[s].at = "idle"

\* The node changes first; a key that is left out stays.
Change(s, asked) ==
    /\ \E p \in Programs : Node(p) /\ program[p].config.web # "off"
    /\ save[s].at = "idle" /\ Free
    /\ live' = [ollama |-> asked[1],
                key |-> IF asked[2] = None THEN live.key ELSE asked[2]]
    /\ save' = [save EXCEPT ![s] = [at |-> "changed"]]
    /\ UNCHANGED <<config, acked, apart, saveLeft>>

\* Mutant: the lock is given back before config.toml is loaded and saved.
ChangeUnlocked(s, asked) ==
    /\ \E p \in Programs : Node(p) /\ program[p].config.web # "off"
    /\ save[s].at = "idle"
    /\ live' = [ollama |-> asked[1],
                key |-> IF asked[2] = None THEN live.key ELSE asked[2]]
    /\ save' = [save EXCEPT ![s] = [at |-> "changed"]]
    /\ UNCHANGED <<config, acked, apart, saveLeft>>

Applied(c) == [c EXCEPT !.inference = live]

\* The file is loaded anew, with the environment, and gets the live settings.
Reload(s) ==
    /\ save[s].at = "changed"
    /\ IF CanLoad
       THEN /\ save' = [save EXCEPT ![s] = [at |-> "loaded",
                                             config |-> Applied(Load)]]
            /\ UNCHANGED apart
       ELSE save' = [save EXCEPT ![s] = Idle] /\ apart' = TRUE
    /\ UNCHANGED <<config, live, acked, saveLeft>>

\* Mutant: the configuration the node runs with is saved.
ReloadRunning(s) ==
    /\ save[s].at = "changed"
    /\ \E p \in Programs :
          /\ Node(p)
          /\ save' = [save EXCEPT ![s] =
                        [at |-> "loaded",
                         config |-> Applied(program[p].config)]]
    /\ UNCHANGED <<config, live, apart, acked, saveLeft>>

Write(s) ==
    /\ save[s].at = "loaded"
    /\ \/ config' = Truncated /\ acked' = None
          /\ save' = [save EXCEPT ![s].at = "writing"]
          /\ UNCHANGED apart
       \/ save' = [save EXCEPT ![s] = Idle] /\ apart' = TRUE
          /\ UNCHANGED <<config, acked>>
    /\ UNCHANGED <<live, saveLeft>>

\* The answer has the settings that were saved.
Saved(s) ==
    /\ save[s].at = "writing"
    /\ \/ /\ config' = Whole(save[s].config)
          /\ acked' = live /\ apart' = FALSE
       \/ apart' = TRUE /\ UNCHANGED <<config, acked>>
    /\ save' = [save EXCEPT ![s] = Idle]
    /\ UNCHANGED <<live, saveLeft>>

\* The user may mend what was left truncated.
Mend ==
    /\ \A p \in Programs : program[p] = Off
    /\ identity.is = "truncated" \/ config.is = "truncated"
    /\ identity' = IF identity.is = "truncated" THEN Missing ELSE identity
    /\ config' = IF config.is = "truncated" THEN Missing ELSE config
    /\ UNCHANGED <<environment, program, live, save, overlapped, starts, acked, apart>>

Next ==
    \/ Mend
    \/ \E p \in Programs :
          \/ \E kind \in Kinds, flags \in FlagSets \cup {{}} :
                Start(p, kind, flags)
          \/ ClusterNode(p) \/ Detect(p) \/ Look(p) \/ Name(p) \/ Named(p) \/ Setup(p) \/ SetUp(p)
          \/ LoadConfig(p) \/ Open(p) \/ End(p)
    \/ \E s \in Saves :
          \/ \E asked \in Settings : Change(s, asked)
          \/ Reload(s) \/ Write(s) \/ Saved(s)

Spec == Init /\ [][Next]_vars

-------------------------------------------------------------------------------
(* Properties                                                              *)

\* A program runs under the identity in the file, and so does every later one,
\* unless two of them started for the first time at once ("Load or create
\* identity", serve.rs, start.rs, chat.rs, run.rs).
OneIdentity ==
    \A p \in Programs :
        Up(p) /\ identity.is = "whole" /\ ~overlapped => program[p].key = identity.content

\* Settings whose save succeeded are those in config.toml, until another save or
\* the first-time setup of the menu truncates it ("Saving updates
\* ~/.peerclaw/config.toml", web/mod.rs).
SavesKept == acked # None => config.is = "whole" /\ config.content.inference = acked

\* With no request at work the node and config.toml have the same settings, but
\* for a flag, the first-time setup and a save that failed since the last one
\* that succeeded.
NodeAndFileAgree ==
    \A p \in Programs :
        Node(p) /\ Free /\ ~apart => config.is = "whole" /\ config.content.inference = live

\* A flag of serve is for one start: config.toml never has its web server
\* ("Priority: defaults -> config file -> env vars -> CLI flags", config/mod.rs).
FlagsNotSaved == config.is = "whole" => config.content.web # "flag"

===============================================================================
