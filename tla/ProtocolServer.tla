--------------------------- MODULE ProtocolServer ---------------------------
(***************************************************************************)
(* The connection layer of the backend: the accept thread and the worker   *)
(* threads of network/tcp_server.c, the device registry and the connection *)
(* handler of network/protocol_server.c, the Go hub (app/socket/hub.go)    *)
(* and the login and disconnect parts of the ProtocolController.           *)
(*                                                                         *)
(* Every accepted connection gets one detached worker thread, so a worker  *)
(* is named by its connection.  Workers share the file descriptor table,   *)
(* the registry, the hub and the token cache; each of these is protected   *)
(* by its own mutex, so one action is one critical section (or one system  *)
(* call) and everything else interleaves.  Threads are the callers of      *)
(* Hub.Send: retry goroutines and handlers of admin_send_command.          *)
(***************************************************************************)
EXTENDS Naturals, FiniteSets

CONSTANTS
    Conns,      \* connections (each is made at most once; a worker per connection)
    Fds,        \* file descriptor numbers the kernel can hand out
    Devices,    \* device identifiers
    Threads,    \* callers of Hub.Send
    Msgs,       \* command frames pushed to devices
    DevOf,      \* DevOf[c]: the device id that connection c logs in with
    To,         \* To[m]: the device that frame m is meant for
    AuthConns,  \* connections whose client sends the "login" sub-command
    TokenResults, \* possible outcomes of checking the token of a login frame
    MaxLogins,  \* MaxLogins[c]: bound on the MSG_LOGIN frames sent on connection c
    NoConn, NoFd, NoDevice, NoMsg

ASSUME ConstantsAssumption ==
    /\ DevOf \in [Conns -> Devices]
    /\ To \in [Msgs -> Devices]
    /\ AuthConns \subseteq Conns
    /\ TokenResults \subseteq BOOLEAN
    /\ MaxLogins \in [Conns -> Nat]
    /\ NoConn \notin Conns /\ NoFd \notin Fds
    /\ NoDevice \notin Devices /\ NoMsg \notin Msgs

VARIABLES
    peer,       \* client end of a connection: not made, open, closed
    logins,     \* number of the connection's MSG_LOGIN frames that were read
    authed,     \* the connection's "login" sub-command has been handled
    fdTable,    \* kernel: fd -> connection
    crossed,    \* history: descriptors that accept() took between the two closes
                \* of their previous worker
    pc,         \* worker: where the connection worker is
    fd,         \* worker: client_fd, captured when the worker was created
    src,        \* worker: the connection its blocked recv() reads from
    last,       \* worker: last_device
    accepted,   \* worker: its login frame carried a token that was accepted
    registry,   \* g_devices: device -> fd
    hub,        \* Hub.byID: device -> fd
    tokens,     \* keys of deviceTokens
    latest,     \* history: the worker that last called registry_set for a device
    tx,         \* thread: where its Hub.Send call is
    txMsg,      \* thread: the frame it sends
    txFd,       \* thread: the fd it looked up
    pushed      \* history: <<m, c>>, send() took frame m for connection c

netVars   == <<peer, logins, authed, fdTable, crossed>>
workVars  == <<pc, fd, src, last, accepted>>
tableVars == <<registry, hub, tokens, latest>>
sendVars  == <<tx, txMsg, txFd, pushed>>
vars == <<netVars, workVars, tableVars, sendVars>>

-----------------------------------------------------------------------------
(* A worker that may still read frames, and one that has not yet reached   *)
(* registry_remove_fd, Hub.Unregister, or the first tcp_close.             *)
Reading == {"loop", "recv", "token", "register"}
Serving == Reading \union {"remove"}
InHub   == Serving \union {"unregister"}
HasFd   == InHub \union {"untoken", "close1"}
Pcs     == HasFd \union {"none", "close2", "done"}

TypeOK ==
    /\ peer \in [Conns -> {"none", "open", "closed"}]
    /\ logins \in [Conns -> Nat]
    /\ \A c \in Conns : logins[c] <= MaxLogins[c]
    /\ authed \in [Conns -> BOOLEAN]
    /\ fdTable \in [Fds -> Conns \union {NoConn}]
    /\ crossed \in SUBSET Fds
    /\ pc \in [Conns -> Pcs]
    /\ fd \in [Conns -> Fds \union {NoFd}]
    /\ src \in [Conns -> Conns \union {NoConn}]
    /\ last \in [Conns -> Devices \union {NoDevice}]
    /\ accepted \in [Conns -> BOOLEAN]
    /\ registry \in [Devices -> Fds \union {NoFd}]
    /\ hub \in [Devices -> Fds \union {NoFd}]
    /\ tokens \in SUBSET Devices
    /\ latest \in [Devices -> Conns \union {NoConn}]
    /\ tx \in [Threads -> {"idle", "write", "fallback", "rewrite", "ok", "err"}]
    /\ txMsg \in [Threads -> Msgs \union {NoMsg}]
    /\ txFd \in [Threads -> Fds \union {NoFd}]
    /\ pushed \in SUBSET (Msgs \X Conns)

Init ==
    /\ peer = [c \in Conns |-> "none"]
    /\ logins = [c \in Conns |-> 0]
    /\ authed = [c \in Conns |-> FALSE]
    /\ fdTable = [f \in Fds |-> NoConn]
    /\ crossed = {}
    /\ pc = [c \in Conns |-> "none"]
    /\ fd = [c \in Conns |-> NoFd]
    /\ src = [c \in Conns |-> NoConn]
    /\ last = [c \in Conns |-> NoDevice]
    /\ accepted = [c \in Conns |-> FALSE]
    /\ registry = [d \in Devices |-> NoFd]
    /\ hub = [d \in Devices |-> NoFd]
    /\ tokens = {}
    /\ latest = [d \in Devices |-> NoConn]
    /\ tx = [t \in Threads |-> "idle"]
    /\ txMsg = [t \in Threads |-> NoMsg]
    /\ txFd = [t \in Threads |-> NoFd]
    /\ pushed = {}

-----------------------------------------------------------------------------
(* Clients.  An agent sends one MSG_LOGIN per connection, the console two  *)
(* (before and after it has its token); a client may close at any time.    *)
Dial(c) ==
    /\ peer[c] = "none"
    /\ peer' = [peer EXCEPT ![c] = "open"]
    /\ UNCHANGED <<logins, authed, fdTable, crossed, workVars, tableVars, sendVars>>

Hangup(c) ==
    /\ peer[c] = "open"
    /\ peer' = [peer EXCEPT ![c] = "closed"]
    /\ UNCHANGED <<logins, authed, fdTable, crossed, workVars, tableVars, sendVars>>

-----------------------------------------------------------------------------
(* The accept thread.                                                      *)

\* Descriptors that accept() can return: POSIX reuses any closed number at
\* once, also one that a worker has closed once and will close again.
FreeFds == {f \in Fds : fdTable[f] = NoConn}

\* The second tcp_close of a worker on this number is still to come.
ClosedOnce(f) == \E w \in Conns : pc[w] = "close2" /\ fd[w] = f

\* Mutant: every worker reads one shared client_fd, the last one accepted.
accept_loop_shared_fd(c) ==
    /\ peer[c] # "none"
    /\ pc[c] = "none"
    /\ \E f \in FreeFds :
          /\ fdTable' = [fdTable EXCEPT ![f] = c]
          /\ fd' = [v \in Conns |-> IF v = c \/ pc[v] # "none" THEN f ELSE fd[v]]
          /\ crossed' = IF ClosedOnce(f) THEN crossed \union {f} ELSE crossed
    /\ pc' = [pc EXCEPT ![c] = "loop"]
    /\ UNCHANGED <<peer, logins, authed, src, last, accepted, tableVars, sendVars>>

accept_loop(c) ==
    /\ peer[c] # "none"
    /\ pc[c] = "none"
    /\ \E f \in FreeFds :
          /\ fdTable' = [fdTable EXCEPT ![f] = c]
          /\ fd' = [fd EXCEPT ![c] = f]
          /\ crossed' = IF ClosedOnce(f) THEN crossed \union {f} ELSE crossed
    /\ pc' = [pc EXCEPT ![c] = "loop"]
    /\ UNCHANGED <<peer, logins, authed, src, last, accepted, tableVars, sendVars>>

\* malloc or pthread_create fails: the accepted socket is closed again.
accept_failed(c) ==
    /\ peer[c] # "none"
    /\ pc[c] = "none"
    /\ FreeFds # {}
    /\ pc' = [pc EXCEPT ![c] = "done"]
    /\ UNCHANGED <<netVars, fd, src, last, accepted, tableVars, sendVars>>

-----------------------------------------------------------------------------
(* The worker: the receive loop of protocol_connection_handler.            *)

\* Enters recv(): the kernel resolves client_fd now; EBADF ends the loop.
recv_enter(w) ==
    /\ pc[w] = "loop"
    /\ src' = [src EXCEPT ![w] = fdTable[fd[w]]]
    /\ pc' = [pc EXCEPT ![w] = IF fdTable[fd[w]] = NoConn THEN "remove" ELSE "recv"]
    /\ UNCHANGED <<netVars, fd, last, accepted, tableVars, sendVars>>

\* Mutant: a recv() that returns 0, the peer's orderly end, is not an error.
recv_fails_not_on_eof(w) ==
    /\ pc[w] = "recv"
    /\ \E v \in Conns \ {w} : pc[v] = "recv" /\ src[v] = src[w]
    /\ src' = [src EXCEPT ![w] = NoConn]
    /\ pc' = [pc EXCEPT ![w] = "remove"]
    /\ UNCHANGED <<netVars, fd, last, accepted, tableVars, sendVars>>

\* recv() fails: the peer is gone, or two workers share one socket and each
\* takes part of the other's frame.
recv_fails(w) ==
    /\ pc[w] = "recv"
    /\ \/ peer[src[w]] = "closed"
       \/ \E v \in Conns \ {w} : pc[v] = "recv" /\ src[v] = src[w]
    /\ src' = [src EXCEPT ![w] = NoConn]
    /\ pc' = [pc EXCEPT ![w] = "remove"]
    /\ UNCHANGED <<netVars, fd, last, accepted, tableVars, sendVars>>

\* A MSG_LOGIN frame: last_device is set and registry_set runs before the
\* frame is handed to Go.
registry_set(w, d) ==
    /\ registry' = [registry EXCEPT ![d] = fd[w]]
    /\ latest' = [latest EXCEPT ![d] = w]

recv_login(w) ==
    /\ pc[w] = "recv"
    /\ logins[src[w]] < MaxLogins[src[w]]
    /\ logins' = [logins EXCEPT ![src[w]] = @ + 1]
    /\ last' = [last EXCEPT ![w] = DevOf[src[w]]]
    /\ registry_set(w, DevOf[src[w]])
    /\ src' = [src EXCEPT ![w] = NoConn]
    /\ pc' = [pc EXCEPT ![w] = "token"]
    /\ UNCHANGED <<peer, authed, fdTable, crossed, fd, accepted, hub, tokens, sendVars>>

\* HandleMessage, case MsgLogin: the token is a JWT that parses for this
\* device or an opaque one (ok), or is missing or rejected (not ok).
login_token(w, ok) ==
    /\ pc[w] = "token"
    /\ tokens' = IF ok THEN tokens \union {last[w]} ELSE tokens
    /\ accepted' = [accepted EXCEPT ![w] = ok]
    /\ pc' = [pc EXCEPT ![w] = "register"]
    /\ UNCHANGED <<netVars, fd, src, last, registry, hub, latest, sendVars>>

\* Hub.Register, whatever the token was.
Register(w) ==
    /\ pc[w] = "register"
    /\ hub' = [hub EXCEPT ![last[w]] = fd[w]]
    /\ pc' = [pc EXCEPT ![w] = "loop"]
    /\ UNCHANGED <<netVars, fd, src, last, accepted, registry, tokens, latest, sendVars>>

\* Mutant: the frame's device id is cached without the test for an empty one.
handleLogin_unchecked(w) ==
    /\ pc[w] = "recv"
    /\ src[w] \in AuthConns /\ ~authed[src[w]]
    /\ authed' = [authed EXCEPT ![src[w]] = TRUE]
    /\ tokens' = tokens \union {DevOf[src[w]], last[w]}
    /\ src' = [src EXCEPT ![w] = NoConn]
    /\ pc' = [pc EXCEPT ![w] = "loop"]
    /\ UNCHANGED <<peer, logins, fdTable, crossed, fd, last, accepted, registry, hub, latest, sendVars>>

\* The sub-command "login" (handleLogin) with valid credentials: caches a
\* token for the device named in its payload, with or without MSG_LOGIN, and
\* for the device of the frame when that is another one.
handleLogin(w) ==
    /\ pc[w] = "recv"
    /\ src[w] \in AuthConns /\ ~authed[src[w]]
    /\ authed' = [authed EXCEPT ![src[w]] = TRUE]
    /\ tokens' = tokens \union ({DevOf[src[w]], last[w]} \ {NoDevice})
    /\ src' = [src EXCEPT ![w] = NoConn]
    /\ pc' = [pc EXCEPT ![w] = "loop"]
    /\ UNCHANGED <<peer, logins, fdTable, crossed, fd, last, accepted, registry, hub, latest, sendVars>>

-----------------------------------------------------------------------------
(* The worker: clean-up after the loop.                                    *)

\* Mutant: the entry of last_device goes, whatever descriptor it holds.
registry_remove_device(w) ==
    /\ pc[w] = "remove"
    /\ registry' = [d \in Devices |-> IF d = last[w] THEN NoFd ELSE registry[d]]
    /\ pc' = [pc EXCEPT ![w] = IF last[w] = NoDevice THEN "close1" ELSE "unregister"]
    /\ UNCHANGED <<netVars, fd, src, last, accepted, hub, tokens, latest, sendVars>>

\* registry_remove_fd drops the first list entry with this fd, only that one.
\* Without a device there is no disconnect callback.
registry_remove_fd(w) ==
    /\ pc[w] = "remove"
    /\ LET hits == {d \in Devices : registry[d] = fd[w]}
       IN  \/ hits = {} /\ UNCHANGED registry
           \/ \E d \in hits : registry' = [registry EXCEPT ![d] = NoFd]
    /\ pc' = [pc EXCEPT ![w] = IF last[w] = NoDevice THEN "close1" ELSE "unregister"]
    /\ UNCHANGED <<netVars, fd, src, last, accepted, hub, tokens, latest, sendVars>>

\* Mutant: an entry is only deleted once the registry no longer has the device.
Unregister_offline_only(w) ==
    /\ pc[w] = "unregister"
    /\ hub' = IF hub[last[w]] = fd[w] /\ registry[last[w]] = NoFd
              THEN [hub EXCEPT ![last[w]] = NoFd] ELSE hub
    /\ pc' = [pc EXCEPT ![w] = "untoken"]
    /\ UNCHANGED <<netVars, fd, src, last, accepted, registry, tokens, latest, sendVars>>

\* HandleDisconnect, first part: Hub.Unregister compares descriptors.
Unregister(w) ==
    /\ pc[w] = "unregister"
    /\ hub' = IF hub[last[w]] = fd[w] THEN [hub EXCEPT ![last[w]] = NoFd] ELSE hub
    /\ pc' = [pc EXCEPT ![w] = "untoken"]
    /\ UNCHANGED <<netVars, fd, src, last, accepted, registry, tokens, latest, sendVars>>

\* HandleDisconnect, second part: the device's token goes, whoever cached it.
delete_token(w) ==
    /\ pc[w] = "untoken"
    /\ tokens' = tokens \ {last[w]}
    /\ pc' = [pc EXCEPT ![w] = "close1"]
    /\ UNCHANGED <<netVars, fd, src, last, accepted, registry, hub, latest, sendVars>>

\* tcp_close at the end of the handler, and again in connection_worker.
tcp_close(w, from, to) ==
    /\ pc[w] = from
    /\ fdTable' = [fdTable EXCEPT ![fd[w]] = NoConn]
    /\ pc' = [pc EXCEPT ![w] = to]
    /\ UNCHANGED <<peer, logins, authed, crossed, fd, src, last, accepted, tableVars, sendVars>>

handler_close(w) == tcp_close(w, "close1", "close2")
worker_close(w)  == tcp_close(w, "close2", "done")

-----------------------------------------------------------------------------
(* Hub.Send: SendToDevice through the registry, then once more through the *)
(* client that the hub cached.  The lookup and the write are two steps.    *)
send_lookup(t, m) ==
    /\ tx[t] = "idle"
    /\ txMsg' = [txMsg EXCEPT ![t] = m]
    /\ txFd' = [txFd EXCEPT ![t] = registry[To[m]]]
    /\ tx' = [tx EXCEPT ![t] = IF registry[To[m]] = NoFd THEN "fallback" ELSE "write"]
    /\ UNCHANGED <<netVars, workVars, tableVars, pushed>>

hub_lookup(t) ==
    /\ tx[t] = "fallback"
    /\ txFd' = [txFd EXCEPT ![t] = hub[To[txMsg[t]]]]
    /\ tx' = [tx EXCEPT ![t] = IF hub[To[txMsg[t]]] = NoFd THEN "err" ELSE "rewrite"]
    /\ UNCHANGED <<netVars, workVars, tableVars, txMsg, pushed>>

\* send() on a descriptor reaches whatever connection it names now.  Towards
\* a closed peer it may succeed (buffered, then lost) or fail (EPIPE).
write_ok(t, from) ==
    LET c == fdTable[txFd[t]]
    IN  /\ tx[t] = from
        /\ c # NoConn
        /\ tx' = [tx EXCEPT ![t] = "ok"]
        /\ pushed' = pushed \union {<<txMsg[t], c>>}
        /\ UNCHANGED <<netVars, workVars, tableVars, txMsg, txFd>>

write_fails(t, from, to) ==
    LET c == fdTable[txFd[t]]
    IN  /\ tx[t] = from
        /\ c # NoConn => peer[c] = "closed"
        /\ tx' = [tx EXCEPT ![t] = to]
        /\ UNCHANGED <<netVars, workVars, tableVars, txMsg, txFd, pushed>>

send_write(t)    == write_ok(t, "write") \/ write_fails(t, "write", "fallback")
fallback_write(t) == write_ok(t, "rewrite") \/ write_fails(t, "rewrite", "err")

\* Hub.Send returns; the caller forgets the call.
send_return(t) ==
    /\ tx[t] \in {"ok", "err"}
    /\ tx' = [tx EXCEPT ![t] = "idle"]
    /\ txMsg' = [txMsg EXCEPT ![t] = NoMsg]
    /\ txFd' = [txFd EXCEPT ![t] = NoFd]
    /\ UNCHANGED <<netVars, workVars, tableVars, pushed>>

-----------------------------------------------------------------------------
Client == \E c \in Conns : Dial(c) \/ Hangup(c)

Acceptor == \E c \in Conns : accept_loop(c) \/ accept_failed(c)

ReceiveStep(w) ==
    \/ recv_enter(w) \/ recv_fails(w) \/ recv_login(w) \/ handleLogin(w)
    \/ \E ok \in TokenResults : login_token(w, ok)

Receive(w) == ReceiveStep(w) \/ Register(w)

Cleanup(w) ==
    \/ registry_remove_fd(w) \/ Unregister(w) \/ delete_token(w)
    \/ handler_close(w) \/ worker_close(w)

Sender(t) == hub_lookup(t) \/ send_write(t) \/ fallback_write(t)

Next ==
    \/ Client
    \/ Acceptor
    \/ \E w \in Conns : Receive(w) \/ Cleanup(w)
    \/ \E t \in Threads : Sender(t) \/ send_return(t) \/ \E m \in Msgs : send_lookup(t, m)

Spec == Init /\ [][Next]_vars

-----------------------------------------------------------------------------
(* What the backend reports.                                               *)
protocol_device_is_online(d) == registry[d] # NoFd
IsOnline(d) == protocol_device_is_online(d) \/ hub[d] # NoFd
isAuthorized(d) == d \in tokens

-----------------------------------------------------------------------------
(* Safety.                                                                 *)

(* A device is in the C registry only while a worker that logged it in on   *)
(* that very descriptor has not begun its clean-up, and in the hub only      *)
(* until that worker's Unregister; unless accept() hit the window between    *)
(* the two closes of that descriptor.  So a lost double-close race damages   *)
(* the entries of the descriptor it hit and of no other.                     *)
ServedBy(d, f, stages) ==
    \E w \in Conns : pc[w] \in stages /\ fd[w] = f /\ last[w] = d

OnlineOnlyIfServed ==
    \A d \in Devices :
        /\ registry[d] \in Fds \ crossed => ServedBy(d, registry[d], Serving)
        /\ hub[d] \in Fds \ crossed => ServedBy(d, hub[d], InHub)

(* The last connection to log a device in stays reachable through the       *)
(* registry until it ends itself, if its own descriptor was not taken        *)
(* between two closes: an older connection of the same device that           *)
(* disconnects later cannot take its entry away (registry_remove_fd goes by  *)
(* descriptor, not by device), and neither can a worker whose descriptor the *)
(* double close has confused.                                                *)
LatestLoginOnline ==
    \A d \in Devices :
        /\ latest[d] # NoConn
        /\ pc[latest[d]] \in Serving
        /\ fd[latest[d]] \notin crossed
        => registry[d] = fd[latest[d]]

(* A worker keeps its socket until its own first tcp_close, and its second   *)
(* one closes nothing, as long as accept() has not taken its descriptor      *)
(* number in between: there is no other way for a worker to lose its socket  *)
(* to a worker that shares the number.                                       *)
OwnSocketUntilClosed ==
    \A w \in Conns :
        fd[w] \notin crossed =>
            /\ pc[w] \in HasFd => fdTable[fd[w]] = w
            /\ pc[w] = "close2" => fdTable[fd[w]] = NoConn

(* The gap between the lookup and the write of Hub.Send.  A frame that        *)
(* send() delivers to a connection of another device was looked up under an   *)
(* entry that is gone by now: as long as the registry or the hub still lists  *)
(* the descriptor for the device, the write goes to the device.  (Again       *)
(* unless the descriptor was taken between two closes.)                       *)
StrayWriteIsUnlisted ==
    [][\A t \in Threads :
          /\ tx[t] \in {"write", "rewrite"} /\ tx'[t] = "ok"
          /\ txFd[t] \notin crossed
          /\ DevOf[fdTable[txFd[t]]] # To[txMsg[t]]
          => registry[To[txMsg[t]]] # txFd[t] /\ hub[To[txMsg[t]]] # txFd[t]]_vars

-----------------------------------------------------------------------------
(* Liveness; CommandQueue states the fairness of the backend's threads.    *)
Departed(d) == \A c \in Conns : DevOf[c] = d => peer[c] # "open"

(* Once every client of a device has hung up for good, the backend comes to *)
(* drop the device from the registry and the hub for good, even with logins *)
(* of closed clients still waiting in the listen backlog; only an entry for  *)
(* a descriptor that the double close has hit may stay.                      *)
DepartedGoesOffline ==
    \A d \in Devices :
        <>[]Departed(d) => <>[]({registry[d], hub[d]} \subseteq crossed \union {NoFd})

-----------------------------------------------------------------------------
(* What comments of the code promise and the code does not keep.           *)

(* agent protocolclient.SendAction: the login frame is sent "first on the   *)
(* same connection to authorize the action".  A connection whose login was  *)
(* accepted should therefore be authorized when its next frame is handled.  *)
LoginAuthorizesActions ==
    \A w \in Conns :
        pc[w] \in {"loop", "recv"} /\ accepted[w] => isAuthorized(last[w])

(* network/server.go: DeviceIsOnline checks "if a device has an active       *)
(* protocol connection".  Some worker should then be serving the device.     *)
OnlineHasConnection ==
    \A d \in Devices :
        protocol_device_is_online(d) => \E w \in Conns : pc[w] \in Serving /\ last[w] = d

============================================================================
