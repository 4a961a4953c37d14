--------------------------- MODULE ControlEndpoint ---------------------------
(***************************************************************************)
(* The Unix endpoint of the voice controls: start and close of             *)
(* LocalControlServer, runtime/voice/control.py, for servers (of several   *)
(* processes) that are given one directory.  A start that fails anywhere   *)
(* closes itself.  A process that dies loses its directory lock and its    *)
(* listening socket; the socket's file stays until a person removes it.    *)
(***************************************************************************)
CONSTANTS Servers, NoServer
ASSUME ServerAssumption == NoServer \notin Servers /\ Servers # {}

VARIABLES
    srv,       \* progress of each server's start or close
    dirLock,   \* holder of the flock on the directory, or NoServer
    endpoint,  \* who created the control.sock that is there, or NoServer
    identity   \* servers that know the inode they created

endpointVars == <<srv, dirLock, endpoint, identity>>

Down == [s \in Servers |-> "closed"]
ListeningAlone(s) == /\ srv = [Down EXCEPT ![s] = "listening"]
                     /\ dirLock = s /\ endpoint = s /\ identity = {s}
AllDown == srv = Down /\ dirLock = NoServer /\ endpoint = NoServer /\ identity = {}

Moves(s, from, to) == srv[s] = from /\ srv' = [srv EXCEPT ![s] = to]

\* start: the directory is opened, and its lock does not block.
TakeDirectory(s) ==
    /\ Moves(s, "closed", IF dirLock = NoServer THEN "locked" ELSE "closing")
    /\ dirLock' = IF dirLock = NoServer THEN s ELSE dirLock
    /\ UNCHANGED <<endpoint, identity>>

\* An endpoint that is there is never replaced.
Probe(s) ==
    /\ Moves(s, "locked", IF endpoint = NoServer THEN "absent" ELSE "closing")
    /\ UNCHANGED <<dirLock, endpoint, identity>>

Bind(s, ok) ==
    /\ Moves(s, "absent", IF ok /\ endpoint = NoServer THEN "bound" ELSE "closing")
    /\ endpoint' = IF ok /\ endpoint = NoServer THEN s ELSE endpoint
    /\ UNCHANGED <<dirLock, identity>>

\* Only from here on is the endpoint known to be its own.
Identify(s, ok) ==
    /\ Moves(s, "bound", IF ok THEN "identified" ELSE "closing")
    /\ identity' = IF ok THEN identity \cup {s} ELSE identity
    /\ UNCHANGED <<dirLock, endpoint>>

Listen(s, ok) ==
    /\ Moves(s, "identified", IF ok THEN "listening" ELSE "closing")
    /\ UNCHANGED <<dirLock, endpoint, identity>>

Close(s) == Moves(s, "listening", "closing") /\ UNCHANGED <<dirLock, endpoint, identity>>

\* Mutant: close removes whatever is at the path.
RemovesAny(s) == TRUE
\* close: the endpoint that is there has the inode this server created.
Removes(s) == s \in identity /\ endpoint = s

CloseUnlinks(s) ==
    /\ Moves(s, "closing", "unlinked")
    /\ endpoint' = IF Removes(s) THEN NoServer ELSE endpoint
    /\ UNCHANGED <<dirLock, identity>>

Forget(s) == /\ dirLock' = IF dirLock = s THEN NoServer ELSE dirLock
             /\ identity' = identity \ {s} /\ UNCHANGED endpoint

CloseReleases(s) == Moves(s, "unlinked", "closed") /\ Forget(s)

ServerDies(s) == srv[s] # "closed" /\ Moves(s, srv[s], "closed") /\ Forget(s)

\* A person removes an endpoint left behind, once no server runs.
EndpointCleared ==
    /\ srv = Down /\ endpoint # NoServer /\ endpoint' = NoServer
    /\ UNCHANGED <<srv, dirLock, identity>>

EndpointStep ==
    \/ \E s \in Servers :
          \/ TakeDirectory(s) \/ Probe(s) \/ Close(s) \/ CloseUnlinks(s) \/ CloseReleases(s)
          \/ ServerDies(s)
          \/ \E ok \in BOOLEAN : Bind(s, ok) \/ Identify(s, ok) \/ Listen(s, ok)
    \/ EndpointCleared

\* One server listens at a time, and the endpoint a client finds is its own,
\* whatever other servers start, fail to start, close or die over the same
\* directory ("never unlinks a stale endpoint; close only removes its own
\* inode", control.py:149); a server that knows its endpoint keeps it until it
\* closes.
EndpointOwned ==
    \A s \in Servers :
        /\ srv[s] = "listening" => dirLock = s
        /\ s \in identity /\ srv[s] # "unlinked" => endpoint = s
=============================================================================
