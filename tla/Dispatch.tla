------------------------------ MODULE Dispatch ------------------------------
(***************************************************************************)
(* Server::dispatch() and the handlers of dispatch.cpp, for several        *)
(* clients that share sessions, transport values and the pool of ports:    *)
(* from the moment a request is whole until its response has been sent or  *)
(* an exception has stranded the client.  SETUP's way to a Track is that   *)
(* of module Setup; what PLAY and PAUSE do to the tracks is in Playback.   *)
(*                                                                         *)
(* Session::get(id), which throws for unknown and torn-down sessions, is a *)
(* step of its own, so that another client's TEARDOWN may come between it  *)
(* and what the handler does with the session.                             *)
(***************************************************************************)
EXTENDS Setup

CONSTANTS
    Urls,       \* parts of request URLs behind the host
    Transports  \* Transport headers: sequences of transport values

ASSUME UrlsAssumption == Urls \subseteq Seq(STRING)

ASSUME TransportsAssumption == Transports \subseteq Seq(TransportValues)

VARIABLES
    method,     \* of each client's request
    registered, \* Session::is_active: "none" before the session exists, "active", "torn"
    late,       \* the request came after the answer to its session's TEARDOWN (history)
    told,       \* sessions whose TEARDOWN was answered (history)
    named       \* sessions a SETUP was answered with (history)

requests == <<method, late>>
ends == <<told, named>>

vars == <<setup, requests, registered, ends>>

-----------------------------------------------------------------------------
(***************************************************************************)
(* A request comes in.                                                     *)
(***************************************************************************)

\* The client has sent a request of this method; s is its Session header.
Request(c, m, s) ==
    /\ pc[c] = "idle"
    /\ s \in named \cup {NoSession}
    /\ method' = [method EXCEPT ![c] = m]
    /\ session' = [session EXCEPT ![c] = s]
    /\ late' = [late EXCEPT ![c] = s \in told]
    /\ UNCHANGED <<even_ports, tracks, port, rtcp, leftover, history, registered, ends>>

\* The handler returns a response with this status.
Respond(c, status) ==
    /\ answer' = [answer EXCEPT ![c] = [status |-> status, transport |-> <<>>]]
    /\ pc' = [pc EXCEPT ![c] = "answer"]

\* An exception leaves dispatch().
Throw(c) ==
    /\ pc' = [pc EXCEPT ![c] = "stranded"]
    /\ UNCHANGED answer

\* The statuses that get_status_string() knows.
KnownStatuses == {200, 404, 406}

SetStatus(c, status) ==
    \/ status \in KnownStatuses /\ Respond(c, status)
    \/ status \notin KnownStatuses /\ Throw(c)

\* DESCRIBE: the whole rest of the URL must name a presentation.  A missing
\* Accept header sets the status 406, which is set to 200 at the end.
HandleDescribe(c, u) ==
    /\ Request(c, "DESCRIBE", NoSession)
    /\ SetStatus(c, IF Len(u) = 1 /\ u[1] \in DOMAIN Sdp THEN 200 ELSE 404)
    /\ UNCHANGED <<url, values>>

HandleOptions(c) ==
    /\ Request(c, "OPTIONS", NoSession)
    /\ SetStatus(c, 200)
    /\ UNCHANGED <<url, values>>

\* The method is not in the table.
InvalidMethod(c) ==
    /\ Request(c, "other", NoSession)
    /\ Throw(c)
    /\ UNCHANGED <<url, values>>

\* SETUP wants a presentation and a control id.  Without the latter it sets
\* the status 459, which is not a known one.
HandleSetup(c, u, s, header) ==
    /\ Request(c, "SETUP", s)
    /\ \/ /\ Len(u) = 2
          /\ url' = [url EXCEPT ![c] = u]
          /\ values' = [values EXCEPT ![c] = header]
          /\ pc' = [pc EXCEPT ![c] = "lookup"]
          /\ UNCHANGED answer
       \/ Len(u) = 1 /\ SetStatus(c, 459) /\ UNCHANGED <<url, values>>
       \/ Len(u) \notin {1, 2} /\ SetStatus(c, 404) /\ UNCHANGED <<url, values>>

\* PLAY, PAUSE and TEARDOWN do not look at the URL.
HandleSession(c, m, s) ==
    /\ Request(c, m, s)
    /\ pc' = [pc EXCEPT ![c] = "lookup"]
    /\ UNCHANGED <<url, values, answer>>

(***************************************************************************)
(* The session of the request.                                             *)
(***************************************************************************)

AfterLookup(c) == IF method[c] = "SETUP" THEN "try" ELSE "operate"

\* The bound on tracks, those under construction included.
Room ==
    MapThenSumSet(LAMBDA s : Len(tracks[s]), Sessions)
        + Cardinality({c \in Clients : SettingUp(c)}) < MaxTracks

\* Session::get(): SETUP without a Session header.
CreateSession(c, s) ==
    /\ pc[c] = "lookup"
    /\ method[c] = "SETUP" /\ session[c] = NoSession
    /\ Room
    /\ registered[s] = "none"
    /\ registered' = [registered EXCEPT ![s] = "active"]
    /\ session' = [session EXCEPT ![c] = s]
    /\ pc' = [pc EXCEPT ![c] = "try"]
    /\ UNCHANGED <<even_ports, tracks, url, values, port, rtcp, leftover, answer, history,
                   requests, ends>>

\* Mutant of FindSession: the map is asked, but not is_active.
FindAnySession(c) ==
    /\ pc[c] = "lookup"
    /\ session[c] # NoSession
    /\ pc' = [pc EXCEPT ![c] = AfterLookup(c)]
    /\ UNCHANGED <<even_ports, tracks, session, url, values, port, rtcp, leftover, answer,
                   history, requests, registered, ends>>

\* Session::get(id).  (The second line is the restriction to one SETUP of a
\* session at a time and the bound on tracks.)
FindSession(c) ==
    /\ pc[c] = "lookup"
    /\ session[c] # NoSession
    /\ method[c] = "SETUP" =>
          /\ Room
          /\ \A d \in Clients : SettingUp(d) => session[d] # session[c]
    /\ registered[session[c]] = "active"
    /\ pc' = [pc EXCEPT ![c] = AfterLookup(c)]
    /\ UNCHANGED <<even_ports, tracks, session, url, values, port, rtcp, leftover, answer,
                   history, requests, registered, ends>>

\* ... which throws.
InvalidSession(c) ==
    /\ pc[c] = "lookup"
    /\ \/ session[c] = NoSession /\ method[c] # "SETUP"
       \/ session[c] # NoSession /\ registered[session[c]] # "active"
    /\ Throw(c)
    /\ UNCHANGED <<even_ports, tracks, session, url, values, port, rtcp, leftover, history,
                   requests, registered, ends>>

\* play() and pause(); the Range header of a PLAY may be one that
\* parse_range_header() throws at.
PlayOrPause(c) ==
    /\ pc[c] = "operate"
    /\ \/ method[c] \in {"PLAY", "PAUSE"} /\ SetStatus(c, 200)
       \/ method[c] = "PLAY" /\ Throw(c)
    /\ UNCHANGED <<even_ports, tracks, session, url, values, port, rtcp, leftover, history,
                   requests, registered, ends>>

\* teardown(): the response has no status and no headers.
Teardown(c) ==
    /\ pc[c] = "operate"
    /\ method[c] = "TEARDOWN"
    /\ registered' = [registered EXCEPT ![session[c]] = "torn"]
    /\ Respond(c, 0)
    /\ UNCHANGED <<even_ports, tracks, session, url, values, port, rtcp, leftover, history,
                   requests, ends>>

\* Session's tracks, ports and sockets, and its place in the registry, stay
\* as they are when serve() has sent the response and waits for the next.
Send(c) ==
    /\ pc[c] = "answer"
    /\ pc' = [pc EXCEPT ![c] = "idle"]
    /\ session' = [session EXCEPT ![c] = NoSession]
    /\ url' = [url EXCEPT ![c] = <<>>]
    /\ answer' = [answer EXCEPT ![c] = [status |-> 0, transport |-> <<>>]]
    /\ method' = [method EXCEPT ![c] = "none"]
    /\ late' = [late EXCEPT ![c] = FALSE]
    /\ told' = told \cup (IF method[c] = "TEARDOWN" THEN {session[c]} ELSE {})
    /\ named' = named \cup (IF answer[c].transport # <<>> THEN {session[c]} ELSE {})
    /\ dry' = dry \ {c}
    /\ UNCHANGED <<even_ports, tracks, values, port, rtcp, leftover, lost, doubled, registered>>

\* A client that gets no answer gives up and opens another connection.
Reconnect(c) ==
    /\ pc[c] = "stranded"
    /\ pc' = [pc EXCEPT ![c] = "idle"]
    /\ session' = [session EXCEPT ![c] = NoSession]
    /\ url' = [url EXCEPT ![c] = <<>>]
    /\ values' = [values EXCEPT ![c] = <<>>]
    /\ method' = [method EXCEPT ![c] = "none"]
    /\ late' = [late EXCEPT ![c] = FALSE]
    /\ dry' = dry \ {c}
    /\ UNCHANGED <<even_ports, tracks, port, rtcp, leftover, answer, lost, doubled,
                   registered, ends>>
-----------------------------------------------------------------------------
Init ==
    /\ SetupInit
    /\ method = [c \in Clients |-> "none"]
    /\ registered = [s \in Sessions |-> "none"]
    /\ late = [c \in Clients |-> FALSE]
    /\ told = {}
    /\ named = {}

Handle(c) ==
    \/ HandleOptions(c)
    \/ InvalidMethod(c)
    \/ \E u \in Urls : HandleDescribe(c, u)
    \/ \E u \in Urls, s \in Sessions \cup {NoSession}, header \in Transports :
           HandleSetup(c, u, s, header)
    \/ \E m \in {"PLAY", "PAUSE", "TEARDOWN"}, s \in Sessions \cup {NoSession} :
           HandleSession(c, m, s)

Continue(c) ==
    \/ \E s \in Sessions : CreateSession(c, s)
    \/ FindSession(c)
    \/ InvalidSession(c)
    \/ PlayOrPause(c)
    \/ Teardown(c)
    \/ SetUp(c) /\ UNCHANGED <<requests, registered, ends>>
    \/ Send(c)

Next == \E c \in Clients : Handle(c) \/ Continue(c) \/ Reconnect(c)

Spec == Init /\ [][Next]_vars
-----------------------------------------------------------------------------
TypeOK ==
    /\ SetupTypeOK
    /\ method \in [Clients -> {"DESCRIBE", "OPTIONS", "SETUP", "PLAY", "PAUSE",
                               "TEARDOWN", "other", "none"}]
    /\ registered \in [Sessions -> {"none", "active", "torn"}]
    /\ late \in [Clients -> BOOLEAN]
    /\ told \subseteq Sessions
    /\ named \subseteq Sessions

\* Once a TEARDOWN is answered nothing is done for its session any more: a
\* request that is sent afterwards, by whichever client, is not answered (save
\* a SETUP whose URL is refused before its session is looked up).  A handler
\* that has looked the session up before does go on, and answers.
NoServiceAfterTeardown ==
    \A c \in Clients : late[c] =>
        /\ pc[c] # "operate" /\ ~SettingUp(c)
        /\ pc[c] = "answer" => answer[c].status = 404

\* A session no client was told of owns no port and no file: a SETUP that
\* fails leaves its new session behind, which nobody can tear down, but never
\* one with a track.
NoTrackUnnamed ==
    \A s \in Sessions \ named :
        tracks[s] # <<>> => \E c \in Clients : pc[c] = "answer" /\ session[c] = s
=============================================================================
