-------------------------------- MODULE ChatCli --------------------------------
(***************************************************************************)
(* The chats of the command line (src/src/cli/chat.rs): each loads the     *)
(* saved settings, asks a running node or a runtime of its own, and keeps  *)
(* the exchanges of its conversation.  Several may run on one machine and  *)
(* share the file of settings and the database of local chats.             *)
(*                                                                         *)
(* A question is known by its number.  Of the settings only the switches   *)
(* are told apart.  Commands that only show something and those of tools   *)
(* and skills are left out; a command that is not known does nothing.      *)
(***************************************************************************)
EXTENDS Naturals, Sequences

CONSTANTS
    Chats,
    MaxQuestions        \* bound on the questions of one chat

ChatAssumption == MaxQuestions \in Nat

VARIABLES
    node,               \* a node answers on this machine
    saved,              \* chat_settings.json
    mode,               \* of each chat: off, local or api
    settings,           \* of each chat
    joined,             \* chats whose runtime joined the network
    talk,               \* history of each chat
    asked,              \* of each chat: questions that were answered
    refused             \* chats whose node refused a question

vars == <<node, saved, mode, settings, joined, talk, asked, refused>>

Settings == [distributed : BOOLEAN, stream : BOOLEAN]
Defaults == [distributed |-> FALSE, stream |-> TRUE]

\* A turn of the history tells of one question, whole.  A summary has the first
\* words of the turns it replaces, and nothing of what they summarised.
Turn(q) == [whole |-> TRUE, of |-> {q}]
Summary(turns) ==
    [whole |-> FALSE,
     of |-> UNION {turns[i].of : i \in {j \in DOMAIN turns : turns[j].whole}}]

Init ==
    /\ node \in BOOLEAN
    /\ saved = Defaults
    /\ mode = [c \in Chats |-> "off"] /\ settings = [c \in Chats |-> Defaults]
    /\ joined = {} /\ refused = {}
    /\ talk = [c \in Chats |-> <<>>] /\ asked = [c \in Chats |-> 0]

\* An argument counts only when it differs from the default.
Merged(args) ==
    [distributed |-> args.distributed \/ saved.distributed,
     stream |-> saved.stream /\ args.stream]

\* Local chats share a database file that one process may open.
Start(c, args, standalone) ==
    LET m == IF ~standalone /\ node THEN "api" ELSE "local"
    IN  /\ mode[c] = "off"
        /\ m = "local" => \A d \in Chats : mode[d] # "local"
        /\ mode' = [mode EXCEPT ![c] = m]
        /\ settings' = [settings EXCEPT ![c] = Merged(args)]
        /\ joined' = IF m = "local" /\ Merged(args).distributed THEN joined \cup {c} ELSE joined
        /\ UNCHANGED <<node, saved, talk, asked, refused>>

\* All settings are saved; an error of the file is ignored.
Change(c, s) ==
    /\ mode[c] # "off"
    /\ settings' = [settings EXCEPT ![c] = s]
    /\ saved' \in {saved, s}
    /\ UNCHANGED <<node, mode, joined, talk, asked, refused>>

\* What follows /stream and /distributed: nothing means on, and any word but
\* on, true, 1 and yes means off.
Words == {"", "on", "another"}
Switched(s, f, word) == [s EXCEPT ![f] = word # "another"]

\* /stream and /distributed; /model, /temperature, /max-tokens and /system
\* change a setting that is not told apart.
Command(c) ==
    \/ \E f \in DOMAIN settings[c], word \in Words : Change(c, Switched(settings[c], f, word))
    \/ Change(c, settings[c])

\* The menu turns a switch over, or changes another setting.
Menu(c) ==
    \/ Change(c, [settings[c] EXCEPT !.distributed = ~@])
    \/ Change(c, settings[c])

Clear(c) ==
    /\ mode[c] # "off"
    /\ talk' = [talk EXCEPT ![c] = <<>>]
    /\ refused' = refused \ {c}
    /\ UNCHANGED <<node, saved, mode, settings, joined, asked>>

\* /compact: one summary before the last two turns.
Compacted(turns) ==
    LET k == Len(turns) - 2
    IN  <<Summary(SubSeq(turns, 1, k))>> \o SubSeq(turns, k + 1, k + 2)

Compact(c) ==
    /\ mode[c] # "off" /\ Len(talk[c]) > 2
    /\ talk' = [talk EXCEPT ![c] = Compacted(talk[c])]
    /\ UNCHANGED <<node, saved, mode, settings, joined, asked, refused>>

\* An answer is kept with its question; a question that fails is forgotten.
Ask(c) ==
    LET q == asked[c] + 1
    IN  /\ mode[c] = "local" /\ q <= MaxQuestions
        /\ asked' = [asked EXCEPT ![c] = q]
        /\ talk' = [talk EXCEPT ![c] = Append(@, Turn(q))]
        /\ UNCHANGED <<node, saved, mode, settings, joined, refused>>

\* The prompt is posted under a name that the node's chat does not know, without
\* the message that it requires: the question fails.
AskNode(c) ==
    /\ mode[c] = "api" /\ node
    /\ refused' = refused \cup {c}
    /\ UNCHANGED <<node, saved, mode, settings, joined, talk, asked>>

Quit(c) ==
    /\ mode[c] # "off"
    /\ mode' = [mode EXCEPT ![c] = "off"]
    /\ saved' \in {saved, settings[c]}
    /\ talk' = [talk EXCEPT ![c] = <<>>]
    /\ asked' = [asked EXCEPT ![c] = 0]
    /\ refused' = refused \ {c}
    /\ settings' = [settings EXCEPT ![c] = Defaults]
    /\ joined' = joined \ {c}
    /\ UNCHANGED node

\* The node is started and stopped by others.
NodeChanges ==
    /\ node' = ~node
    /\ UNCHANGED <<saved, mode, settings, joined, talk, asked, refused>>

Next ==
    \/ NodeChanges
    \/ \E c \in Chats :
          \/ \E args \in Settings, standalone \in BOOLEAN : Start(c, args, standalone)
          \/ Command(c) \/ Menu(c) \/ Clear(c) \/ Compact(c)
          \/ Ask(c) \/ AskNode(c) \/ Quit(c)

Spec == Init /\ [][Next]_vars

-------------------------------------------------------------------------------
(* Properties                                                              *)

\* Whatever was cleared and compacted, the history tells of questions in the
\* order they were asked in, and its last two turns are the last two answers,
\* whole ("Keep only last 2 exchanges but summarize earlier ones", chat.rs).
TalkKept ==
    \A c \in Chats :
        LET t == talk[c]
        IN  /\ \A i, j \in DOMAIN t : i < j => \A p \in t[i].of, q \in t[j].of : p < q
            /\ \A i \in DOMAIN t : i > Len(t) - 2 => t[i] = Turn(asked[c] - Len(t) + i)

\* Only a local chat is in the network, whatever was toggled since it started.
JoinedAreLocal == \A c \in joined : mode[c] = "local"

\* A chat with a running node is answered ("Execute inference via the running
\* node's API", chat.rs): no question is refused.
NodeAnswers == refused = {}

===============================================================================
