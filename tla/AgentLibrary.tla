------------------------------ MODULE AgentLibrary ------------------------------
(***************************************************************************)
(* The library of saved workflows (src/src/agent_library.rs): the list of  *)
(* the node, its file agent_library.json, the requests of web/mod.rs that  *)
(* change both, and the chat pages that show it.  A page loads the list    *)
(* when it opens and again at each notice on its web socket; the channel   *)
(* of notices (ws_control_tx) is shared with everything else the node      *)
(* tells its pages, and a page that lags behind loses the oldest.          *)
(*                                                                         *)
(* The list is changed under its lock; a copy is written after the lock is *)
(* dropped, by a blocking call that goes on when the client has left.      *)
(***************************************************************************)
EXTENDS Naturals, Sequences

CONSTANTS
    Ids, Specs,     \* entries and the valid specifications they may have
    Requests,       \* requests that change the library
    Pages,
    Capacity,       \* notices a page may lag behind: 256
    MaxChanges, MaxOther, MaxLoads, MaxStarts,  \* bounds
    None

LibraryAssumption ==
    /\ Capacity \in Nat \ {0} /\ MaxLoads \in Nat \ {0} /\ MaxStarts \in Nat
    /\ None \notin Specs

VARIABLES
    list,           \* agent_library_user
    file,           \* agent_library.json
    request,        \* what each request does
    page,           \* what each page has heard, asked for and shows
    changes, others, starts,    \* counted for the bounds
    apart           \* history: why the list and the file may differ

vars == <<list, file, request, page, changes, others, starts, apart>>

Lists == [Ids -> Specs \cup {None}]
Empty == [i \in Ids |-> None]

\* A file that a process died over, or two wrote at once, may be no JSON.
Torn == None

Idle == [at |-> "idle"]
Closed == [socket |-> "closed"]
Working(r) == request[r].at # "idle"
Quiet == \A r \in Requests : ~Working(r)
IsOpen(p) == page[p] # Closed

TypeOK ==
    /\ list \in Lists /\ file \in Lists \cup {Torn} /\ apart \in BOOLEAN
    /\ \A r \in Requests : Working(r) => /\ request[r].at \in {"save", "write"}
                                         /\ request[r].copy \in Lists
    /\ \A p \in Pages : IsOpen(p) => /\ page[p].socket \in {"opening", "open"}
                                     /\ page[p].shown \in Lists /\ page[p].asked \in 0 .. MaxLoads
                                     /\ Len(page[p].unread) <= Capacity

Init ==
    /\ list = Empty /\ file = Empty
    /\ request = [r \in Requests |-> Idle] /\ page = [p \in Pages |-> Closed]
    /\ changes = 0 /\ others = 0 /\ starts = 0 /\ apart = FALSE

-------------------------------------------------------------------------------
(* Notices                                                                 *)

\* A channel keeps the newest notices for those that have subscribed.
Appended(unread, notice) ==
    LET all == Append(unread, notice)
    IN  IF Len(all) > Capacity THEN Tail(all) ELSE all

Lagging(p) == Len(page[p].unread) = Capacity

\* ws_control_tx.send: a page without a socket, or that lags, may miss a change.
Told(notice) ==
    [p \in Pages |->
       IF ~IsOpen(p) THEN page[p]
       ELSE IF page[p].socket = "opening" THEN [page[p] EXCEPT !.missed = (@ \/ notice = "library")]
       ELSE [page[p] EXCEPT !.unread = Appended(@, notice),
                            !.missed = (@ \/ (Lagging(p) /\ Head(page[p].unread) = "library"))]]

\* A change that nobody is told of.
Untold == [p \in Pages |-> IF IsOpen(p) THEN [page[p] EXCEPT !.missed = TRUE] ELSE page[p]]

\* Tasks, flows, downloads, and the answer to any page's ping, which all get.
Other ==
    /\ others < MaxOther /\ others' = others + 1
    /\ page' = Told("other")
    /\ UNCHANGED <<list, file, request, changes, starts, apart>>

-------------------------------------------------------------------------------
(* Requests                                                                *)

\* The list is changed and copied; a save that others overlap may come late.
Changed(r, new) ==
    /\ request[r] = Idle /\ changes < MaxChanges /\ changes' = changes + 1
    /\ list' = new
    /\ request' = [request EXCEPT ![r] = [at |-> "save", copy |-> new, client |-> TRUE]]
    /\ apart' = (~Quiet)
    /\ UNCHANGED <<file, page, others, starts>>

\* An entry of that id is replaced, or a new one appended.
Post(r, i, spec) == Changed(r, [list EXCEPT ![i] = spec])

Delete(r, i) == list[i] # None /\ Changed(r, [list EXCEPT ![i] = None])

\* save_user_entries: the file is truncated...
Truncate(r) ==
    /\ request[r].at = "save"
    /\ request' = [request EXCEPT ![r].at = "write"]
    /\ file' = Torn
    /\ UNCHANGED <<list, page, changes, others, starts, apart>>

\* ...and written; of two that write at once the shorter may end inside the other.
Write(r) ==
    /\ request[r].at = "write"
    /\ file' \in {request[r].copy}
                 \cup (IF \E q \in Requests \ {r} : request[q].at = "write" THEN {Torn} ELSE {})
    /\ request' = [request EXCEPT ![r] = Idle]
    /\ page' = IF request[r].client THEN Told("library") ELSE Untold
    /\ UNCHANGED <<list, changes, others, starts, apart>>

\* The directory or the disk refuses, before or after the file was truncated:
\* an error is answered, the list stays as it was changed.
SaveFails(r) ==
    /\ Working(r)
    /\ request' = [request EXCEPT ![r] = Idle]
    /\ page' = Untold /\ apart' = TRUE
    /\ UNCHANGED <<list, file, changes, others, starts>>

\* The client leaves: what was begun in the file goes on, the rest does not.
ClientLeaves(r) ==
    /\ Working(r) /\ request[r].client
    /\ IF request[r].at = "write"
       THEN request' = [request EXCEPT ![r].client = FALSE] /\ UNCHANGED <<page, apart>>
       ELSE request' = [request EXCEPT ![r] = Idle] /\ page' = Untold /\ apart' = TRUE
    /\ UNCHANGED <<list, file, changes, others, starts>>

\* The node is killed and starts again: no JSON is an empty library.
Restart ==
    /\ starts < MaxStarts /\ starts' = starts + 1
    /\ list' = IF file = Torn THEN Empty ELSE file
    /\ request' = [r \in Requests |-> Idle] /\ page' = [p \in Pages |-> Closed]
    /\ apart' = (file = Torn)
    /\ UNCHANGED <<file, changes, others>>

-------------------------------------------------------------------------------
(* Pages                                                                   *)

\* The chat page opens: it asks for the list and opens its socket.
Open(p) ==
    /\ ~IsOpen(p)
    /\ page' = [page EXCEPT ![p] = [socket |-> "opening", unread |-> <<>>, asked |-> 1,
                                    answers |-> <<>>, shown |-> Empty, missed |-> FALSE,
                                    late |-> FALSE]]
    /\ UNCHANGED <<list, file, request, changes, others, starts, apart>>

Close(p) ==
    /\ IsOpen(p) /\ page' = [page EXCEPT ![p] = Closed]
    /\ UNCHANGED <<list, file, request, changes, others, starts, apart>>

\* One step of an open page.
Step(p, new) ==
    /\ page' = [page EXCEPT ![p] = new]
    /\ UNCHANGED <<list, file, request, changes, others, starts, apart>>

\* handle_socket subscribes.
Subscribe(p) == page[p].socket = "opening" /\ Step(p, [page[p] EXCEPT !.socket = "open"])

\* The next notice: at one of the library the page asks for the list.
Hear(p) ==
    LET library == Head(page[p].unread) = "library"
    IN  /\ page[p].unread # <<>>
        /\ library => page[p].asked < MaxLoads
        /\ Step(p, [page[p] EXCEPT !.unread = Tail(@), !.asked = IF library THEN @ + 1 ELSE @])

\* api_agent_library_list reads the list, as it is now.
List(p) ==
    /\ page[p].asked > 0
    /\ Step(p, [page[p] EXCEPT !.asked = @ - 1, !.missed = FALSE,
                               !.answers = Append(@, [list |-> list, late |-> FALSE])])

\* An answer arrives, maybe after one to a later question.
Show(p, n) ==
    LET answer == page[p].answers[n]
        before == [m \in 1 .. n - 1 |-> [page[p].answers[m] EXCEPT !.late = TRUE]]
    IN  Step(p, [page[p] EXCEPT !.shown = answer.list, !.late = answer.late,
                                !.answers = before \o SubSeq(@, n + 1, Len(@))])

\* A request that fails leaves the page without a library.
LoadFails(p) ==
    /\ page[p].asked > 0
    /\ Step(p, [page[p] EXCEPT !.asked = @ - 1, !.shown = Empty, !.missed = TRUE])

Next ==
    \/ Other \/ Restart
    \/ \E r \in Requests :
         \/ \E i \in Ids : Delete(r, i) \/ \E spec \in Specs : Post(r, i, spec)
         \/ Truncate(r) \/ Write(r) \/ SaveFails(r) \/ ClientLeaves(r)
    \/ \E p \in Pages :
         \/ Open(p) \/ Close(p)
         \/ IsOpen(p) /\ (Subscribe(p) \/ Hear(p) \/ List(p) \/ LoadFails(p)
                          \/ \E n \in DOMAIN page[p].answers : Show(p, n))

Spec == Init /\ [][Next]_vars

-------------------------------------------------------------------------------
(* Properties                                                              *)

\* With no request under way, the file has the list of the node: whatever went
\* wrong before, one save that no other overlapped brings them together again
\* (api_agent_library_post, api_agent_library_delete, load_user_entries).
FileHasList == Quiet /\ ~apart => file = list

\* A page that has heard and loaded everything shows the library of the node,
\* unless it missed a notice after its last load, or an answer came late: to
\* have subscribed after the first load is such a miss (handle_socket).
PageIsCurrent ==
    \A p \in Pages :
      /\ Quiet /\ IsOpen(p)
      /\ page[p].socket = "open" /\ page[p].asked = 0 /\ page[p].answers = <<>>
      /\ "library" \notin {page[p].unread[n] : n \in DOMAIN page[p].unread}
      /\ ~page[p].missed /\ ~page[p].late
      => page[p].shown = list

===============================================================================
