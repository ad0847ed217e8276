---------------------------- MODULE CommandQueue ----------------------------
(***************************************************************************)
(* The queue of commands for agents: the agent_commands table, the handler *)
(* of admin_send_command (controllers/protocol_admin.go) and the goroutine *)
(* retryPendingCommands that every login starts                            *)
(* (controllers/protocol_controller.go), composed with the connection      *)
(* layer they send through.                                                *)
(*                                                                         *)
(* A command is named by the frame that carries it.  The admin handler of  *)
(* command m is the thread m; a login takes an idle member of Retriers for *)
(* its retry goroutine, so goroutines of one device, and of one connection *)
(* that logs in twice, run side by side.  The backend process may crash:   *)
(* the table is in the database and survives, everything else is lost.     *)
(***************************************************************************)
EXTENDS ProtocolServer, Sequences, Subsequence

CONSTANTS
    Retriers,   \* retry goroutines: a bound on how many run at once
    Persistent, \* connections of an agent's connection manager, whose receive
                \* loop dispatches commands; the others (SendAction, UploadFile)
                \* skip every frame that is not an ACK
    MaxCrashes  \* bound on backend crashes

ASSUME QueueAssumption ==
    /\ Threads = Msgs \union Retriers
    /\ Msgs \intersect Retriers = {}
    /\ Persistent \subseteq Conns
    /\ MaxCrashes \in Nat

VARIABLES
    rows,       \* the table in id order
    status,     \* the status column
    admin,      \* where the admin handler of a command is
    retry,      \* where a retry goroutine is
    who,        \* the device a retry goroutine was started for
    todo,       \* the rows a retry goroutine has listed and not handled
    crashes     \* number of crashes so far

queueVars == <<rows, status, admin, retry, who, todo, crashes>>
allVars   == <<vars, queueVars>>

Statuses == {"none", "pending", "sent", "failed"}

QueueTypeOK ==
    /\ TypeOK
    /\ rows \in Seq(Msgs)
    /\ status \in [Msgs -> Statuses]
    /\ admin \in [Msgs -> {"idle", "online", "cached", "send", "sending", "done"}]
    /\ retry \in [Retriers -> {"idle", "list", "run", "sending"}]
    /\ who \in [Retriers -> Devices \union {NoDevice}]
    /\ todo \in [Retriers -> Seq(Msgs)]
    /\ crashes \in 0..MaxCrashes

QueueInit ==
    /\ Init
    /\ rows = <<>>
    /\ status = [m \in Msgs |-> "none"]
    /\ admin = [m \in Msgs |-> "idle"]
    /\ retry = [r \in Retriers |-> "idle"]
    /\ who = [r \in Retriers |-> NoDevice]
    /\ todo = [r \in Retriers |-> <<>>]
    /\ crashes = 0

-----------------------------------------------------------------------------
(* The repository.                                                         *)
UpdateStatus(m, s) == status' = [status EXCEPT ![m] = s]
MarkSent(m)        == UpdateStatus(m, "sent")

\* Mutant: a command whose send failed is not retried.
Unsent_pending_only(m) == status[m] = "pending"

Unsent(m) == status[m] \in {"pending", "failed"}

\* SELECT ... WHERE device = d AND status IN (pending, failed), in id order.
ListByDevice(d) == Subsequence(rows, {m \in Msgs : To[m] = d /\ Unsent(m)})

-----------------------------------------------------------------------------
(* handleAdminSendCommand.                                                 *)
admin_create(m) ==
    /\ admin[m] = "idle"
    /\ rows' = Append(rows, m)
    /\ UpdateStatus(m, "pending")
    /\ admin' = [admin EXCEPT ![m] = "online"]
    /\ UNCHANGED <<vars, retry, who, todo, crashes>>

\* Hub.IsOnline asks the C registry, then the hub's own map.
admin_is_online(m) ==
    /\ admin[m] = "online"
    /\ admin' = [admin EXCEPT ![m] =
                    IF protocol_device_is_online(To[m]) THEN "send" ELSE "cached"]
    /\ UNCHANGED <<vars, rows, status, retry, who, todo, crashes>>

admin_is_cached(m) ==
    /\ admin[m] = "cached"
    /\ admin' = [admin EXCEPT ![m] = IF hub[To[m]] # NoFd THEN "send" ELSE "done"]
    /\ UNCHANGED <<vars, rows, status, retry, who, todo, crashes>>

admin_send(m) ==
    /\ admin[m] = "send"
    /\ send_lookup(m, m)
    /\ admin' = [admin EXCEPT ![m] = "sending"]
    /\ UNCHANGED <<rows, status, retry, who, todo, crashes>>

\* Mutant: the result of Hub.Send is ignored.
admin_mark_always(m) ==
    /\ admin[m] = "sending"
    /\ tx[m] \in {"ok", "err"} /\ MarkSent(m)
    /\ send_return(m)
    /\ admin' = [admin EXCEPT ![m] = "done"]
    /\ UNCHANGED <<rows, retry, who, todo, crashes>>

\* Mutant: the error is stored in the status column instead of last_error.
admin_mark_error(m) ==
    /\ admin[m] = "sending"
    /\ \/ tx[m] = "ok"  /\ MarkSent(m)
       \/ tx[m] = "err" /\ UpdateStatus(m, "send to device failed")
    /\ send_return(m)
    /\ admin' = [admin EXCEPT ![m] = "done"]
    /\ UNCHANGED <<rows, retry, who, todo, crashes>>

admin_mark(m) ==
    /\ admin[m] = "sending"
    /\ \/ tx[m] = "ok"  /\ MarkSent(m)
       \/ tx[m] = "err" /\ UpdateStatus(m, "pending")
    /\ send_return(m)
    /\ admin' = [admin EXCEPT ![m] = "done"]
    /\ UNCHANGED <<rows, retry, who, todo, crashes>>

-----------------------------------------------------------------------------
(* retryPendingCommands, started by the login that worker c has read.      *)
\* Mutant: no retry for a device that the hub already knows.
login_registered_once(c) ==
    /\ Register(c)
    /\ \E r \in Retriers :
          /\ retry[r] = "idle"
          /\ \/ hub[last[c]] = NoFd /\ retry' = [retry EXCEPT ![r] = "list"]
                                  /\ who' = [who EXCEPT ![r] = last[c]]
             \/ hub[last[c]] # NoFd /\ UNCHANGED <<retry, who>>
    /\ UNCHANGED <<rows, status, admin, todo, crashes>>

login_registered(c) ==
    /\ Register(c)
    /\ \E r \in Retriers :
          /\ retry[r] = "idle"
          /\ retry' = [retry EXCEPT ![r] = "list"]
          /\ who' = [who EXCEPT ![r] = last[c]]
    /\ UNCHANGED <<rows, status, admin, todo, crashes>>

retry_list(r) ==
    /\ retry[r] = "list"
    /\ todo' = [todo EXCEPT ![r] = ListByDevice(who[r])]
    /\ retry' = [retry EXCEPT ![r] = "run"]
    /\ UNCHANGED <<vars, rows, status, admin, who, crashes>>

retry_send(r) ==
    /\ retry[r] = "run"
    /\ todo[r] # <<>>
    /\ send_lookup(r, Head(todo[r]))
    /\ retry' = [retry EXCEPT ![r] = "sending"]
    /\ UNCHANGED <<rows, status, admin, who, todo, crashes>>

\* A failed send ends the loop; the rest of the list stays as it is.
retry_mark(r) ==
    /\ retry[r] = "sending"
    /\ \/ /\ tx[r] = "ok"
          /\ MarkSent(Head(todo[r]))
          /\ todo' = [todo EXCEPT ![r] = Tail(@)]
          /\ retry' = [retry EXCEPT ![r] = "run"]
          /\ UNCHANGED who
       \/ /\ tx[r] = "err"
          /\ UpdateStatus(Head(todo[r]), "failed")
          /\ todo' = [todo EXCEPT ![r] = <<>>]
          /\ retry' = [retry EXCEPT ![r] = "idle"]
          /\ who' = [who EXCEPT ![r] = NoDevice]
    /\ send_return(r)
    /\ UNCHANGED <<rows, admin, crashes>>

retry_end(r) ==
    /\ retry[r] = "run"
    /\ todo[r] = <<>>
    /\ retry' = [retry EXCEPT ![r] = "idle"]
    /\ who' = [who EXCEPT ![r] = NoDevice]
    /\ UNCHANGED <<vars, rows, status, admin, todo, crashes>>

-----------------------------------------------------------------------------
(* The backend process dies and is started again.                          *)
Crash ==
    /\ crashes < MaxCrashes
    /\ crashes' = crashes + 1
    /\ peer' = [c \in Conns |-> IF peer[c] = "open" THEN "closed" ELSE peer[c]]
    /\ pc' = [c \in Conns |-> IF peer[c] = "none" THEN "none" ELSE "done"]
    /\ fdTable' = [f \in Fds |-> NoConn]
    /\ crossed' = {}
    /\ src' = [c \in Conns |-> NoConn]
    /\ registry' = [d \in Devices |-> NoFd]
    /\ hub' = [d \in Devices |-> NoFd]
    /\ tokens' = {}
    /\ tx' = [t \in Threads |-> "idle"]
    /\ txMsg' = [t \in Threads |-> NoMsg]
    /\ txFd' = [t \in Threads |-> NoFd]
    /\ admin' = [m \in Msgs |-> IF admin[m] = "idle" THEN "idle" ELSE "done"]
    /\ retry' = [r \in Retriers |-> "idle"]
    /\ who' = [r \in Retriers |-> NoDevice]
    /\ todo' = [r \in Retriers |-> <<>>]
    /\ UNCHANGED <<logins, authed, fd, last, accepted, latest, pushed, rows, status>>

-----------------------------------------------------------------------------
Admin(m) ==
    \/ admin_is_online(m) \/ admin_is_cached(m) \/ admin_send(m) \/ admin_mark(m)

Retry(r) == retry_list(r) \/ retry_send(r) \/ retry_mark(r) \/ retry_end(r)

\* The worker steps of ProtocolServer that do not touch the queue.
WorkerOther(c) ==
    /\ ReceiveStep(c) \/ Cleanup(c)
    /\ UNCHANGED queueVars

QueueNext ==
    \/ (Client \/ Acceptor) /\ UNCHANGED queueVars
    \/ \E c \in Conns : WorkerOther(c) \/ login_registered(c)
    \/ \E r \in Retriers : Retry(r)
    \/ \E m \in Msgs : admin_create(m) \/ Admin(m)
    \/ \E t \in Threads : Sender(t) /\ UNCHANGED queueVars
    \/ Crash

QueueSpec == QueueInit /\ [][QueueNext]_allVars

\* Threads and goroutines of the backend are scheduled; clients and admins
\* owe nothing.
QueueFairSpec ==
    /\ QueueSpec
    /\ \A c \in Conns :
          /\ WF_allVars((accept_loop(c) \/ accept_failed(c)) /\ UNCHANGED queueVars)
          /\ WF_allVars(WorkerOther(c) \/ login_registered(c))
    /\ \A r \in Retriers : WF_allVars(Retry(r))
    /\ \A m \in Msgs : WF_allVars(Admin(m))
    /\ \A t \in Threads : WF_allVars(Sender(t) /\ UNCHANGED queueVars)

-----------------------------------------------------------------------------
(* Connection c holds the latest login of its device, is open, has been     *)
(* answered by HandleMessage, and sits on a descriptor that no accept() took *)
(* between two closes.                                                       *)
Established(c) ==
    /\ latest[DevOf[c]] = c
    /\ peer[c] = "open"
    /\ pc[c] \in {"loop", "recv"}
    /\ fd[c] \notin crossed

(* No lost wake-up between the admin handler (insert the row, then look      *)
(* whether the device is online) and the login (enter the registry, then     *)
(* list the rows): once the handler and the device's retry goroutines are    *)
(* done while the device has an established connection, a row that is not    *)
(* marked sent has at least been written once.                               *)
NoStrandedCommand ==
    \A m \in Msgs, c \in Conns :
        /\ DevOf[c] = To[m] /\ Established(c)
        /\ \A r \in Retriers : who[r] # To[m]
        /\ Unsent(m) /\ admin[m] = "done"
        => \E v \in Conns : <<m, v>> \in pushed

(* A row only becomes "sent" in a step whose Hub.Send call for that very     *)
(* command has returned without an error, and no row ever disappears from    *)
(* the queue: not by a failing send, not by a crash.                         *)
QueueIsDurable ==
    [][\A m \in Msgs :
          /\ status[m] # "none" => status'[m] # "none"
          /\ status[m] # "sent" /\ status'[m] = "sent"
             => \E t \in Threads : tx[t] = "ok" /\ txMsg[t] = m /\ tx'[t] = "idle"]_allVars

(* Every command that an admin queues is written to a socket sooner or        *)
(* later, provided its device comes to have an established connection that    *)
(* stays: whatever sends fail, break off a retry loop or race before that.    *)
QueuedIsEventuallyPushed ==
    \A m \in Msgs, c \in Conns :
        DevOf[c] = To[m] =>
            (<>[]Established(c) /\ <>(status[m] # "none")
                => <>(\E v \in Conns : <<m, v>> \in pushed))

(* models/agent_command.go calls the table a "durable queue + retry" and the  *)
(* repository's MarkSent "marks as sent to the agent".  A command marked sent *)
(* should have been written to a connection of its device that handles        *)
(* commands.                                                                  *)
SentReachedAgent ==
    \A m \in Msgs :
        status[m] = "sent" =>
            \E c \in Persistent : DevOf[c] = To[m] /\ <<m, c>> \in pushed

=============================================================================
