------------------------ MODULE CommandQueue_proofs ------------------------
(***************************************************************************)
(* Theorems about CommandQueue: the connection layer with the durable      *)
(* queue, the retry goroutines and crashes of the backend.                 *)
(*                                                                         *)
(* Every step of the queue is a step (or a stutter) of ProtocolServer, or  *)
(* the crash, so the invariants of the connection layer carry over; only   *)
(* the crash has to be looked at again.                                    *)
(*                                                                         *)
(* The argument that no command is stranded: while a connection c is the   *)
(* latest login of its device and reads, on a descriptor of its own        *)
(* (Live), the registry leads to it and its socket takes what is written,  *)
(* so no send that starts now can fail.  A retry goroutine of the device   *)
(* that is not in a send begun earlier is Fresh: it will write its whole   *)
(* list.  A command that was never written is therefore in someone's hands *)
(* (InHand): the login of c has not started its goroutine, a fresh         *)
(* goroutine has not listed the rows yet or has the command on its list,   *)
(* or the admin handler has not looked up the device yet or holds the      *)
(* descriptor of c.                                                        *)
(***************************************************************************)
EXTENDS CommandQueue, ProtocolServer_proofs, Subsequence_proofs

Pushed(m) == \E v \in Conns : <<m, v>> \in pushed

Live(c) ==
    /\ latest[DevOf[c]] = c /\ peer[c] = "open"
    /\ pc[c] \in Reading /\ fd[c] \notin crossed

(* A caller of Hub.Send waits for the very command it is going to mark, and  *)
(* a running retry goroutine has a device.                                   *)
Calls ==
    /\ \A m \in Msgs : admin[m] = "sending" => txMsg[m] = m
    /\ \A r \in Retriers : retry[r] = "sending" => todo[r] # <<>> /\ txMsg[r] = Head(todo[r])
    /\ \A r \in Retriers : retry[r] # "idle" => who[r] \in Devices

QueueTypeInv == QueueTypeOK /\ Pointers /\ Calls

Dialed == \A c \in Conns : pc[c] # "none" => peer[c] # "none"

SentIsPushed ==
    /\ \A t \in Threads : tx[t] = "ok" => Pushed(txMsg[t])
    /\ \A m \in Msgs : status[m] = "sent" => Pushed(m)

Queued ==
    /\ \A m \in Msgs : admin[m] # "idle" => m \in Elems(rows) /\ status[m] # "none"
    /\ \A r \in Retriers : \A m \in Elems(todo[r]) : To[m] = who[r]
    /\ \A r \in Retriers : retry[r] \in {"idle", "list"} => Elems(todo[r]) = {}

Fresh(r, c) ==
    /\ who[r] = DevOf[c]
    /\ retry[r] = "sending" => tx[r] = "ok" \/ (tx[r] = "write" /\ txFd[r] = fd[c])

Carries(r, m) ==
    \/ retry[r] = "list"
    \/ retry[r] \in {"run", "sending"} /\ m \in Elems(todo[r])

InHand(m, c) ==
    \/ pc[c] \in {"token", "register"}
    \/ \E r \in Retriers : Fresh(r, c) /\ Carries(r, m)
    \/ admin[m] \in {"online", "send"}
    \/ admin[m] = "sending" /\ tx[m] = "write" /\ txFd[m] = fd[c]

Waiting ==
    \A m \in Msgs, c \in Conns :
        Live(c) /\ To[m] = DevOf[c] /\ ~Pushed(m) /\ admin[m] # "idle" => InHand(m, c)

QueueInv ==
    /\ QueueTypeInv
    /\ IInv
    /\ Dialed
    /\ SentIsPushed
    /\ Queued
    /\ Waiting

-----------------------------------------------------------------------------
(* The repository lists exactly the unsent rows of a device.                 *)
LEMMA ListByDeviceElems ==
    ASSUME QueueTypeOK, NEW d \in Devices
    PROVE  /\ ListByDevice(d) \in Seq(Msgs)
           /\ \A m : m \in Elems(ListByDevice(d)) <=>
                        m \in Elems(rows) /\ m \in Msgs /\ To[m] = d /\ Unsent(m)
<1> DEFINE S == {m \in Msgs : To[m] = d /\ Unsent(m)}
<1>1. rows \in Seq(Msgs)
    BY DEF QueueTypeOK
<1> HIDE DEF S
<1>2. ListByDevice(d) \in Seq(Msgs) /\ Elems(ListByDevice(d)) = Elems(rows) \intersect S
  <2>1. ListByDevice(d) = Subsequence(rows, S)
      BY DEF ListByDevice, S
  <2>2. QED
      BY <1>1, <2>1, SubsequenceElems
<1>3. QED
    BY <1>2, Zenon DEF S

-----------------------------------------------------------------------------
(* The queue starts well typed.                                              *)
LEMMA QueueTypeInit == QueueInit => QueueTypeInv
<1> SUFFICES ASSUME QueueInit
             PROVE  QueueTypeInv
    OBVIOUS
<1>1. TypeOK /\ Pointers
    BY TypeInit DEF QueueInit, TypeInv
<1>2. <<>> \in Seq(Msgs)
    OBVIOUS
<1>3. crashes \in 0..MaxCrashes
    BY QueueAssumption DEF QueueInit
<1>4. QED
    BY <1>1, <1>2, <1>3 DEF QueueInit, QueueTypeInv, QueueTypeOK, Statuses, Calls

(* The composition adds nothing to the connection layer but the crash.       *)
LEMMA ServerOrCrash ==
    ASSUME QueueTypeInv, [QueueNext]_allVars
    PROVE  [Next]_vars \/ Crash
<1> USE QueueAssumption
<1>1. ASSUME NEW r \in Retriers, retry_send(r)
      PROVE  Next
  <2>1. Head(todo[r]) \in Msgs
      BY <1>1, HeadTailElems DEF retry_send, QueueTypeInv, QueueTypeOK
  <2>2. QED
      BY <1>1, <2>1 DEF retry_send, Next
<1>2. ASSUME NEW c \in Conns, WorkerOther(c) \/ login_registered(c)
      PROVE  Next
    BY <1>2 DEF WorkerOther, login_registered, Next, Receive
<1>3. ASSUME NEW r \in Retriers, retry_mark(r)
      PROVE  Next
    BY <1>3 DEF retry_mark, Next
<1>4. ASSUME NEW m \in Msgs, admin_send(m) \/ admin_mark(m)
      PROVE  Next
    BY <1>4 DEF admin_send, admin_mark, Next
<1>5. ASSUME NEW t \in Threads, Sender(t)
      PROVE  Next
    BY <1>5 DEF Next
<1>6. ASSUME Client \/ Acceptor
      PROVE  Next
    BY <1>6 DEF Next
<1>7. ASSUME NEW r \in Retriers, retry_list(r) \/ retry_end(r)
      PROVE  UNCHANGED vars
    BY <1>7 DEF retry_list, retry_end
<1>8. ASSUME NEW m \in Msgs, admin_create(m) \/ admin_is_online(m) \/ admin_is_cached(m)
      PROVE  UNCHANGED vars
    BY <1>8 DEF admin_create, admin_is_online, admin_is_cached
<1>9. QED
    BY <1>1, <1>2, <1>3, <1>4, <1>5, <1>6, <1>7, <1>8 DEF QueueNext, Retry, Admin, allVars

(* A crash leaves the connection layer well typed.                           *)
LEMMA CrashType == TypeInv /\ Crash => TypeInv'
BY ConstantsAssumption
   DEF TypeInv, TypeOK, Pointers, Crash, Pcs, HasFd, InHub, Serving, Reading

(* Every step keeps the types and the promise of Calls.                      *)
LEMMA QueueTypeStep == QueueTypeInv /\ [QueueNext]_allVars => QueueTypeInv'
<1> SUFFICES ASSUME QueueTypeInv, [QueueNext]_allVars
             PROVE  QueueTypeInv'
    OBVIOUS
<1> USE QueueAssumption, ConstantsAssumption
<1>0. TypeInv /\ TypeInv'
    BY ServerOrCrash, TypeStep, CrashType DEF QueueTypeInv, QueueTypeOK, TypeInv
<1>a. /\ tx \in [Threads -> {"idle", "write", "fallback", "rewrite", "ok", "err"}]
      /\ txMsg \in [Threads -> Msgs \union {NoMsg}]
    BY <1>0 DEF TypeInv, TypeOK
<1>b. /\ rows \in Seq(Msgs) /\ status \in [Msgs -> Statuses]
      /\ admin \in [Msgs -> {"idle", "online", "cached", "send", "sending", "done"}]
      /\ retry \in [Retriers -> {"idle", "list", "run", "sending"}]
      /\ who \in [Retriers -> Devices \union {NoDevice}]
      /\ todo \in [Retriers -> Seq(Msgs)]
      /\ crashes \in 0..MaxCrashes
    BY DEF QueueTypeInv, QueueTypeOK
<1>c. ASSUME /\ rows' \in Seq(Msgs) /\ status' \in [Msgs -> Statuses]
             /\ admin' \in [Msgs -> {"idle", "online", "cached", "send", "sending", "done"}]
             /\ retry' \in [Retriers -> {"idle", "list", "run", "sending"}]
             /\ who' \in [Retriers -> Devices \union {NoDevice}]
             /\ todo' \in [Retriers -> Seq(Msgs)]
             /\ crashes' \in 0..MaxCrashes
             /\ Calls'
      PROVE  QueueTypeInv'
    BY <1>0, <1>c DEF QueueTypeInv, QueueTypeOK, TypeInv
<1>d. Calls
    BY DEF QueueTypeInv
<1>1. ASSUME UNCHANGED queueVars, txMsg' = txMsg
      PROVE  QueueTypeInv'
    BY <1>b, <1>c, <1>d, <1>1 DEF queueVars, Calls
<1>2. ASSUME (Client \/ Acceptor) /\ UNCHANGED queueVars
      PROVE  QueueTypeInv'
    BY <1>1, <1>2 DEF Client, Acceptor, Dial, Hangup, accept_loop, accept_failed, sendVars
<1>3. ASSUME NEW c \in Conns, WorkerOther(c)
      PROVE  QueueTypeInv'
    BY <1>1, <1>3
    DEF WorkerOther, ReceiveStep, Cleanup, recv_enter, recv_fails, recv_login, handleLogin,
        login_token, registry_remove_fd, Unregister, delete_token, handler_close, worker_close,
        tcp_close, sendVars
<1>4. ASSUME NEW t \in Threads, Sender(t) /\ UNCHANGED queueVars
      PROVE  QueueTypeInv'
    BY <1>1, <1>4 DEF Sender, hub_lookup, send_write, fallback_write, write_ok, write_fails
<1>5. ASSUME NEW c \in Conns, login_registered(c)
      PROVE  QueueTypeInv'
  <2>1. PICK r \in Retriers : /\ retry[r] = "idle"
                              /\ retry' = [retry EXCEPT ![r] = "list"]
                              /\ who' = [who EXCEPT ![r] = last[c]]
      BY <1>5 DEF login_registered
  <2>2. last[c] \in Devices
      BY <1>0, <1>5 DEF login_registered, Register, TypeInv, Pointers
  <2>3. UNCHANGED <<rows, status, admin, todo, crashes, tx, txMsg, txFd>>
      BY <1>5 DEF login_registered, Register, sendVars
  <2>4. Calls'
      BY <1>b, <1>d, <2>1, <2>2, <2>3 DEF Calls
  <2>5. QED
      BY <1>b, <1>c, <2>1, <2>2, <2>3, <2>4
<1>6. ASSUME NEW r \in Retriers, retry_list(r)
      PROVE  QueueTypeInv'
  <2>1. ListByDevice(who[r]) \in Seq(Msgs)
    <3>1. who[r] \in Devices
        BY <1>d, <1>6 DEF retry_list, Calls
    <3>2. QED
        BY <3>1, ListByDeviceElems DEF QueueTypeInv
  <2>2. todo' \in [Retriers -> Seq(Msgs)]
      BY <1>b, <1>6, <2>1 DEF retry_list
  <2>3. QED
      BY <1>b, <1>c, <1>d, <1>6, <2>2 DEF retry_list, vars, sendVars, Calls
<1>7. ASSUME NEW r \in Retriers, retry_send(r)
      PROVE  QueueTypeInv'
    BY <1>a, <1>b, <1>c, <1>d, <1>7 DEF retry_send, send_lookup, Calls
<1>8. ASSUME NEW r \in Retriers, retry_mark(r)
      PROVE  QueueTypeInv'
  <2>1. Head(todo[r]) \in Msgs /\ Tail(todo[r]) \in Seq(Msgs) /\ <<>> \in Seq(Msgs)
      BY <1>b, <1>d, <1>8, HeadTailElems DEF retry_mark, Calls
  <2>2. todo' \in [Retriers -> Seq(Msgs)]
    <3> DEFINE Lists == Seq(Msgs)
    <3> HIDE DEF Lists
    <3>1. todo \in [Retriers -> Lists] /\ Tail(todo[r]) \in Lists /\ <<>> \in Lists
        BY <1>b, <2>1 DEF Lists
    <3>2. todo' = [todo EXCEPT ![r] = Tail(todo[r])] \/ todo' = [todo EXCEPT ![r] = <<>>]
        BY <1>8 DEF retry_mark
    <3>3. todo' \in [Retriers -> Lists]
        BY <3>1, <3>2
    <3>4. QED
        BY <3>3 DEF Lists
  <2>3. status' \in [Msgs -> Statuses]
      BY <1>b, <1>8, <2>1 DEF retry_mark, MarkSent, UpdateStatus, Statuses
  <2>4. Calls'
    <3>1. /\ admin' = admin /\ retry'[r] # "sending" /\ (retry'[r] # "idle" => who'[r] = who[r])
          /\ retry[r] = "sending" /\ \A m \in Msgs : txMsg'[m] = txMsg[m]
          /\ \A q \in Retriers \ {r} : /\ retry'[q] = retry[q] /\ who'[q] = who[q]
                                       /\ todo'[q] = todo[q] /\ txMsg'[q] = txMsg[q]
        BY <1>a, <1>b, <1>8 DEF retry_mark, send_return
    <3>2. QED
        BY <1>d, <3>1 DEF Calls
  <2>5. QED
      BY <1>b, <1>c, <1>8, <2>2, <2>3, <2>4 DEF retry_mark
<1>9. ASSUME NEW r \in Retriers, retry_end(r)
      PROVE  QueueTypeInv'
    BY <1>b, <1>c, <1>d, <1>9 DEF retry_end, vars, sendVars, Calls
<1>10. ASSUME NEW m \in Msgs, admin_create(m)
       PROVE  QueueTypeInv'
  <2>1. rows' \in Seq(Msgs)
      BY <1>b, <1>10, AppendProperties DEF admin_create
  <2>2. status' \in [Msgs -> Statuses]
      BY <1>b, <1>10 DEF admin_create, UpdateStatus, Statuses
  <2>3. QED
      BY <1>b, <1>c, <1>d, <1>10, <2>1, <2>2 DEF admin_create, vars, sendVars, Calls
<1>11. ASSUME NEW m \in Msgs, admin_is_online(m) \/ admin_is_cached(m)
       PROVE  QueueTypeInv'
    BY <1>b, <1>c, <1>d, <1>11 DEF admin_is_online, admin_is_cached, vars, sendVars, Calls
<1>12. ASSUME NEW m \in Msgs, admin_send(m)
       PROVE  QueueTypeInv'
    BY <1>a, <1>b, <1>c, <1>d, <1>12 DEF admin_send, send_lookup, Calls
<1>13. ASSUME NEW m \in Msgs, admin_mark(m)
       PROVE  QueueTypeInv'
  <2>1. status' \in [Msgs -> Statuses]
      BY <1>b, <1>13 DEF admin_mark, MarkSent, UpdateStatus, Statuses
  <2>2. Calls'
      BY <1>a, <1>b, <1>d, <1>13 DEF admin_mark, send_return, Calls
  <2>3. QED
      BY <1>b, <1>c, <1>13, <2>1, <2>2 DEF admin_mark
<1>14. CASE Crash
  <2>1. <<>> \in Seq(Msgs)
      OBVIOUS
  <2>2. todo' \in [Retriers -> Seq(Msgs)] /\ crashes' \in 0..MaxCrashes
      BY <1>b, <1>14, <2>1 DEF Crash
  <2>3. /\ admin' \in [Msgs -> {"idle", "online", "cached", "send", "sending", "done"}]
        /\ retry' \in [Retriers -> {"idle", "list", "run", "sending"}]
        /\ who' \in [Retriers -> Devices \union {NoDevice}]
      BY <1>b, <1>14 DEF Crash
  <2>4. QED
      BY <1>b, <1>c, <1>14, <2>2, <2>3 DEF Crash, Calls
<1>15. CASE UNCHANGED allVars
    BY <1>1, <1>15 DEF allVars, vars, sendVars
<1>16. QED
    BY <1>2, <1>3, <1>4, <1>5, <1>6, <1>7, <1>8, <1>9, <1>10, <1>11, <1>12, <1>13, <1>14, <1>15
    DEF QueueNext, Retry, Admin

(* Type correctness of the queue composed with the connection layer, across  *)
(* crashes.                                                                  *)
THEOREM QueueTypeCorrect == QueueSpec => []QueueTypeOK
<1>1. QueueTypeInv => QueueTypeOK
    BY DEF QueueTypeInv
<1>2. QED
    BY <1>1, QueueTypeInit, QueueTypeStep, PTL DEF QueueSpec

(* MarkSent follows a successful Hub.Send of the same command, and no row is *)
(* ever lost, across crashes: see QueueIsDurable.                            *)
THEOREM QueueDurable == QueueSpec => QueueIsDurable
<1> USE QueueAssumption
<1> DEFINE Kept(m) == status[m] # "none" => status'[m] # "none"
           ByCall(m) == status[m] # "sent" /\ status'[m] = "sent"
                        => \E t \in Threads : tx[t] = "ok" /\ txMsg[t] = m /\ tx'[t] = "idle"
<1>1. ASSUME QueueTypeInv, [QueueNext]_allVars, NEW m \in Msgs
      PROVE  Kept(m) /\ ByCall(m)
  <2>0. /\ tx \in [Threads -> {"idle", "write", "fallback", "rewrite", "ok", "err"}]
        /\ status \in [Msgs -> Statuses] /\ todo \in [Retriers -> Seq(Msgs)] /\ Calls
      BY <1>1 DEF QueueTypeInv, QueueTypeOK, TypeOK
  <2>1. ASSUME NEW k \in Msgs, admin_mark(k)
        PROVE  Kept(m) /\ ByCall(m)
      BY <2>0, <2>1 DEF admin_mark, MarkSent, UpdateStatus, send_return, Calls
  <2>2. ASSUME NEW r \in Retriers, retry_mark(r)
        PROVE  Kept(m) /\ ByCall(m)
    <3>1. txMsg[r] = Head(todo[r]) /\ Head(todo[r]) \in Msgs
        BY <2>0, <2>2, HeadTailElems DEF retry_mark, Calls
    <3>2. QED
        BY <2>0, <2>2, <3>1 DEF retry_mark, MarkSent, UpdateStatus, send_return
  <2>3. ASSUME NEW k \in Msgs, admin_create(k)
        PROVE  Kept(m) /\ ByCall(m)
      BY <2>0, <2>3 DEF admin_create, UpdateStatus
  <2>4. ASSUME UNCHANGED status
        PROVE  Kept(m) /\ ByCall(m)
      BY <2>4
  <2>5. QED
      BY <1>1, <2>1, <2>2, <2>3, <2>4
      DEF QueueNext, WorkerOther, login_registered, Retry, retry_list, retry_send, retry_end,
          Admin, admin_is_online, admin_is_cached, admin_send, Crash, allVars, queueVars
<1>2. QueueTypeInv /\ [QueueNext]_allVars
      => [\A m \in Msgs :
             /\ status[m] # "none" => status'[m] # "none"
             /\ status[m] # "sent" /\ status'[m] = "sent"
                => \E t \in Threads : tx[t] = "ok" /\ txMsg[t] = m /\ tx'[t] = "idle"]_allVars
    BY <1>1
<1>3. QED
    BY <1>2, QueueTypeInit, QueueTypeStep, PTL DEF QueueSpec, QueueIsDurable

-----------------------------------------------------------------------------
(* The inductive invariant of the queue holds initially.                     *)
LEMMA QueueInvInit == QueueInit => QueueInv
<1> SUFFICES ASSUME QueueInit
             PROVE  QueueInv
    OBVIOUS
<1>1. QueueTypeInv /\ IInv
    BY QueueTypeInit, InvInit DEF QueueInit
<1>2. Elems(<<>>) = {}
    BY DEF Elems
<1>3. QED
    BY <1>1, <1>2
    DEF QueueInit, Init, QueueInv, Dialed, SentIsPushed, Queued, Waiting, Live, Reading

(* A crash keeps the invariants of the connection layer: every worker is gone *)
(* and the tables are empty.                                                  *)
LEMMA CrashInv == IInv /\ Dialed /\ Crash => IInv'
<1> SUFFICES ASSUME IInv, Dialed, Crash
             PROVE  IInv'
    OBVIOUS
<1> USE ConstantsAssumption
<1>1. TypeInv'
    BY CrashType DEF IInv
<1>2. \A c \in Conns : pc'[c] \in {"none", "done"} /\ (pc'[c] = "none" => pc[c] = "none")
    BY DEF Crash, IInv, TypeInv, TypeOK, Dialed
<1>3. OwnSocketUntilClosed' /\ HeldFd' /\ OwnDevice'
  <2>1. OwnSocketUntilClosed' /\ HeldFd'
      BY <1>2 DEF Crash, OwnSocketUntilClosed, HeldFd, HasFd, InHub, Serving, Reading
  <2>2. OwnDevice'
      BY <1>2 DEF Crash, IInv, OwnDevice, HasFd, InHub, Serving, Reading
  <2>3. QED
      BY <2>1, <2>2
<1>7. LatestLogin'
    BY <1>2 DEF Crash, IInv, TypeInv, TypeOK, LatestLogin, Serving, Reading
<1>4. OnlineOnlyIfServed'
    BY DEF Crash, OnlineOnlyIfServed, protocol_device_is_online
<1>5. LatestLoginOnline'
    BY DEF Crash, IInv, TypeInv, TypeOK, LatestLoginOnline, Serving, Reading
<1>6. QED
    BY <1>1, <1>3, <1>4, <1>5, <1>7 DEF IInv

(* What is written to the descriptor that the registry has for the device of  *)
(* a live connection reaches that connection, and cannot fail.                *)
LEMMA LiveIsReachable ==
    ASSUME IInv, NEW c \in Conns, Live(c)
    PROVE  /\ registry[DevOf[c]] = fd[c] /\ fd[c] \in Fds
           /\ fdTable[fd[c]] = c /\ c # NoConn /\ peer[c] # "closed"
BY ConstantsAssumption
   DEF IInv, TypeInv, TypeOK, Pointers, Live, LatestLoginOnline, OwnSocketUntilClosed, HasFd, InHub, Serving, Reading

(* Steps of clients, of the accept thread and of the workers other than       *)
(* Hub.Register: a connection that is live afterwards was live before, on the *)
(* same descriptor and at the same place, unless it is in a login.            *)
LEMMA WorkerFrame ==
    ASSUME QueueInv,
           Client \/ Acceptor \/ \E c \in Conns : ReceiveStep(c) \/ Cleanup(c),
           UNCHANGED queueVars
    PROVE  /\ UNCHANGED sendVars
           /\ Dialed'
           /\ \A c \in Conns : Live(c)' => \/ Live(c) /\ fd'[c] = fd[c]
                                              /\ pc[c] \notin {"token", "register"}
                                           \/ pc'[c] \in {"token", "register"}
<1> DEFINE Goal == /\ UNCHANGED sendVars
                   /\ Dialed'
                   /\ \A c \in Conns : Live(c)' => \/ Live(c) /\ fd'[c] = fd[c]
                                                      /\ pc[c] \notin {"token", "register"}
                                                   \/ pc'[c] \in {"token", "register"}
<1> USE ConstantsAssumption
    DEF QueueInv, QueueTypeInv, QueueTypeOK, TypeOK, Dialed, Live, Reading, queueVars,
        netVars, workVars, tableVars, sendVars
<1>1. ASSUME NEW c \in Conns, Dial(c)
      PROVE  Goal
    BY <1>1 DEF Dial
<1>2. ASSUME NEW c \in Conns, Hangup(c)
      PROVE  Goal
    BY <1>2 DEF Hangup
<1>3. ASSUME NEW c \in Conns, accept_loop(c)
      PROVE  Goal
    BY <1>3 DEF accept_loop, IInv, LatestLogin
<1>4. ASSUME NEW c \in Conns, accept_failed(c)
      PROVE  Goal
    BY <1>4 DEF accept_failed, IInv, LatestLogin
<1>5. ASSUME NEW w \in Conns, recv_enter(w)
      PROVE  Goal
    BY <1>5 DEF recv_enter
<1>6. ASSUME NEW w \in Conns, recv_fails(w)
      PROVE  Goal
    BY <1>6 DEF recv_fails
<1>7. ASSUME NEW w \in Conns, recv_login(w)
      PROVE  Goal
    BY <1>7 DEF recv_login, registry_set, IInv, OwnDevice
<1>8. ASSUME NEW w \in Conns, handleLogin(w)
      PROVE  Goal
    BY <1>8 DEF handleLogin
<1>9. ASSUME NEW w \in Conns, NEW ok \in TokenResults, login_token(w, ok)
      PROVE  Goal
    BY <1>9 DEF login_token
<1>10. ASSUME NEW w \in Conns, registry_remove_fd(w)
      PROVE  Goal
    BY <1>10 DEF registry_remove_fd
<1>11. ASSUME NEW w \in Conns, Unregister(w)
      PROVE  Goal
    BY <1>11 DEF Unregister
<1>12. ASSUME NEW w \in Conns, delete_token(w)
      PROVE  Goal
    BY <1>12 DEF delete_token
<1>13. ASSUME NEW w \in Conns, handler_close(w)
      PROVE  Goal
    BY <1>13 DEF handler_close, tcp_close
<1>14. ASSUME NEW w \in Conns, worker_close(w)
      PROVE  Goal
    BY <1>14 DEF worker_close, tcp_close
<1>15. QED
    BY <1>1, <1>2, <1>3, <1>4, <1>5, <1>6, <1>7, <1>8, <1>9, <1>10, <1>11, <1>12, <1>13, <1>14 DEF Client, Acceptor, ReceiveStep, Cleanup

(* Every step keeps the inductive invariant.                                  *)
LEMMA QueueInvStep == QueueInv /\ [QueueNext]_allVars => QueueInv'
<1> SUFFICES ASSUME QueueInv, [QueueNext]_allVars
             PROVE  QueueInv'
    OBVIOUS
<1> USE QueueAssumption, ConstantsAssumption
<1>0. QueueTypeInv' /\ IInv'
    BY QueueTypeStep, ServerOrCrash, InvStep, CrashInv DEF QueueInv
<1>a. QueueTypeInv /\ IInv /\ Dialed /\ SentIsPushed /\ Queued /\ Waiting /\ Calls
    BY DEF QueueInv, QueueTypeInv
<1>b. /\ tx \in [Threads -> {"idle", "write", "fallback", "rewrite", "ok", "err"}]
      /\ txMsg \in [Threads -> Msgs \union {NoMsg}]
      /\ txFd \in [Threads -> Fds \union {NoFd}]
      /\ rows \in Seq(Msgs) /\ status \in [Msgs -> Statuses]
      /\ admin \in [Msgs -> {"idle", "online", "cached", "send", "sending", "done"}]
      /\ retry \in [Retriers -> {"idle", "list", "run", "sending"}]
      /\ who \in [Retriers -> Devices \union {NoDevice}]
      /\ todo \in [Retriers -> Seq(Msgs)]
      /\ pc \in [Conns -> Pcs]
    BY <1>a DEF QueueTypeInv, QueueTypeOK, TypeOK
<1>c. \A c \in Conns : DevOf[c] \in Devices
    OBVIOUS
<1>d. \A t \in Threads : tx[t] = "write" => txMsg[t] \in Msgs
    BY <1>a DEF QueueTypeInv, Pointers
<1>g. Elems(rows)' = Elems(rows') /\ \A r \in Retriers : Elems(todo[r])' = Elems(todo'[r])
    BY DEF Elems
<1>h. UNCHANGED pushed => \A m : Pushed(m)' = Pushed(m)
    BY DEF Pushed
<1>i. Elems(<<>>) = {}
    BY DEF Elems

\* Clients, acceptor, workers.
<1>1. ASSUME (Client \/ Acceptor \/ \E c \in Conns : ReceiveStep(c) \/ Cleanup(c)),
             UNCHANGED queueVars
      PROVE  QueueInv'
  <2>1. /\ UNCHANGED sendVars /\ Dialed'
        /\ \A c \in Conns : Live(c)' => \/ Live(c) /\ fd'[c] = fd[c]
                                           /\ pc[c] \notin {"token", "register"}
                                        \/ pc'[c] \in {"token", "register"}
      BY <1>1, WorkerFrame
  <2>2. SentIsPushed' /\ Queued'
      BY <1>a, <1>1, <2>1, <1>g, <1>h DEF SentIsPushed, Queued, sendVars, queueVars
  <2>3. Waiting'
      BY <1>a, <1>g, <1>h, <1>1, <2>1 DEF Waiting, InHand, Fresh, Carries, sendVars, queueVars
  <2>4. QED
      BY <1>0, <2>1, <2>2, <2>3 DEF QueueInv

\* Hub.Register starts the retry goroutine.
<1>2. ASSUME NEW c \in Conns, login_registered(c)
      PROVE  QueueInv'
  <2>1. PICK r \in Retriers : /\ retry[r] = "idle"
                              /\ retry' = [retry EXCEPT ![r] = "list"]
                              /\ who' = [who EXCEPT ![r] = last[c]]
      BY <1>2 DEF login_registered
  <2>2. /\ UNCHANGED <<peer, fd, crossed, latest, tx, txMsg, txFd, pushed, rows, status, admin, todo>>
        /\ pc[c] = "register" /\ pc' = [pc EXCEPT ![c] = "loop"]
      BY <1>2 DEF login_registered, Register, netVars, sendVars
  <2>3. \A w \in Conns : Live(w)' = Live(w)
      BY <1>b, <2>2 DEF Live, Reading
  <2>4. Dialed'
      BY <1>a, <1>b, <2>2 DEF Dialed
  <2>5. Live(c) => last[c] = DevOf[c]
      BY <1>a, <1>c DEF IInv, LatestLogin, Live, Serving
  <2>6. SentIsPushed' /\ Queued'
      BY <1>a, <1>b, <1>g, <1>h, <2>1, <2>2 DEF SentIsPushed, Queued
  <2>7. Waiting'
    <3>1. ASSUME NEW m \in Msgs, NEW v \in Conns, Live(v), To[m] = DevOf[v], ~Pushed(m),
                 admin[m] # "idle"
          PROVE  InHand(m, v)'
      <4>1. InHand(m, v)
          BY <1>a, <3>1 DEF Waiting
      <4>2. CASE v = c
          BY <1>b, <2>1, <2>2, <2>5, <3>1, <4>2 DEF InHand, Fresh, Carries
      <4>3. CASE v # c
        <5>1. ASSUME NEW q \in Retriers, Fresh(q, v), Carries(q, m)
              PROVE  Fresh(q, v)' /\ Carries(q, m)'
            BY <1>b, <1>g, <2>1, <2>2, <5>1 DEF Fresh, Carries
        <5>2. QED
            BY <1>b, <2>2, <4>1, <4>3, <5>1 DEF InHand
      <4>4. QED
          BY <4>2, <4>3
    <3>2. QED
        BY <1>h, <2>2, <2>3, <3>1 DEF Waiting
  <2>8. QED
      BY <1>0, <2>4, <2>6, <2>7 DEF QueueInv

\* All other steps leave the connections alone.
<1>e. ASSUME UNCHANGED <<netVars, workVars, tableVars>>
      PROVE  /\ \A c \in Conns : Live(c)' = Live(c)
             /\ Dialed'
             /\ UNCHANGED <<pc, fd>>
    BY <1>a, <1>e DEF Live, Dialed, netVars, workVars, tableVars
<1>3. ASSUME NEW r \in Retriers, retry_list(r)
      PROVE  QueueInv'
  <2>1. /\ UNCHANGED <<netVars, workVars, tableVars, tx, txMsg, txFd, pushed, rows, status, admin, who>>
        /\ retry[r] = "list" /\ retry' = [retry EXCEPT ![r] = "run"]
        /\ todo' = [todo EXCEPT ![r] = ListByDevice(who[r])]
      BY <1>3 DEF retry_list, vars, sendVars
  <2>2. \A m : m \in Elems(ListByDevice(who[r])) <=>
                   m \in Elems(rows) /\ m \in Msgs /\ To[m] = who[r] /\ Unsent(m)
    <3>1. who[r] \in Devices
        BY <1>a, <2>1 DEF Calls
    <3>2. QED
        BY <1>a, <3>1, ListByDeviceElems DEF QueueTypeInv
  <2>3. /\ \A q \in Retriers \ {r} : todo'[q] = todo[q] /\ retry'[q] = retry[q]
        /\ todo'[r] = ListByDevice(who[r]) /\ retry'[r] = "run"
      BY <1>b, <2>1
  <2>5. SentIsPushed'
      BY <1>a, <2>1 DEF SentIsPushed, Pushed
  <2>6. Queued'
      BY <1>a, <2>1, <2>2, <2>3, <1>g DEF Queued
  <2>8. Waiting'
    <3>1. ASSUME NEW m \in Msgs, NEW v \in Conns, Live(v), To[m] = DevOf[v], ~Pushed(m),
                 admin[m] # "idle"
          PROVE  InHand(m, v)'
      <4>1. InHand(m, v)
          BY <1>a, <3>1 DEF Waiting
      <4>2. ASSUME Fresh(r, v)
            PROVE  Fresh(r, v)' /\ Carries(r, m)'
        <5>1. m \in Elems(rows) /\ Unsent(m)
            BY <1>a, <1>b, <3>1 DEF Queued, SentIsPushed, Unsent, Statuses
        <5>2. m \in Elems(todo'[r])
            BY <2>2, <2>3, <3>1, <4>2, <5>1 DEF Fresh
        <5>3. QED
            BY <1>g, <2>1, <2>3, <4>2, <5>2 DEF Fresh, Carries
      <4>3. ASSUME NEW q \in Retriers \ {r}, Fresh(q, v), Carries(q, m)
            PROVE  Fresh(q, v)' /\ Carries(q, m)'
          BY <1>e, <1>g, <2>1, <2>3, <4>3 DEF Fresh, Carries
      <4>4. QED
          BY <1>e, <2>1, <4>1, <4>2, <4>3 DEF InHand
    <3>2. QED
        BY <1>e, <1>h, <2>1, <3>1 DEF Waiting
  <2>9. QED
      BY <1>0, <1>e, <2>1, <2>5, <2>6, <2>8 DEF QueueInv
<1>4. ASSUME NEW r \in Retriers, retry_send(r)
      PROVE  QueueInv'
  <2>1. /\ UNCHANGED <<netVars, workVars, tableVars, pushed, rows, status, admin, todo, who>>
        /\ retry[r] = "run" /\ retry' = [retry EXCEPT ![r] = "sending"]
        /\ todo[r] # <<>> /\ tx[r] = "idle"
        /\ txMsg' = [txMsg EXCEPT ![r] = Head(todo[r])]
        /\ txFd' = [txFd EXCEPT ![r] = registry[To[Head(todo[r])]]]
        /\ tx' = [tx EXCEPT ![r] = IF registry[To[Head(todo[r])]] = NoFd THEN "fallback" ELSE "write"]
      BY <1>4 DEF retry_send, send_lookup
  <2>2. Head(todo[r]) \in Msgs /\ To[Head(todo[r])] = who[r]
      BY <1>a, <1>b, <2>1, HeadTailElems DEF Queued
  <2>4. SentIsPushed' /\ Queued'
      BY <1>a, <1>b, <1>g, <1>h, <2>1 DEF SentIsPushed, Queued
  <2>5. ASSUME NEW v \in Conns, Live(v), who[r] = DevOf[v]
        PROVE  tx'[r] = "write" /\ txFd'[r] = fd[v]
    <3>1. registry[DevOf[v]] = fd[v] /\ fd[v] # NoFd
        BY <1>a, <2>5, LiveIsReachable
    <3>2. QED
        BY <1>b, <2>1, <2>2, <2>5, <3>1
  <2>6. Waiting'
    <3>1. ASSUME NEW m \in Msgs, NEW v \in Conns, Live(v), To[m] = DevOf[v], ~Pushed(m),
                 admin[m] # "idle"
          PROVE  InHand(m, v)'
      <4>1. InHand(m, v)
          BY <1>a, <3>1 DEF Waiting
      <4>2. ASSUME NEW q \in Retriers, Fresh(q, v), Carries(q, m)
            PROVE  Fresh(q, v)' /\ Carries(q, m)'
        <5>1. CASE q = r
            BY <1>b, <1>e, <1>g, <2>1, <2>5, <3>1, <4>2, <5>1 DEF Fresh, Carries
        <5>2. CASE q # r
            BY <1>b, <1>e, <1>g, <2>1, <4>2, <5>2 DEF Fresh, Carries
        <5>3. QED
            BY <5>1, <5>2
      <4>3. m # r /\ tx'[m] = tx[m] /\ txFd'[m] = txFd[m]
          BY <1>b, <2>1
      <4>4. QED
          BY <1>e, <2>1, <4>1, <4>2, <4>3 DEF InHand
    <3>2. QED
        BY <1>e, <1>h, <2>1, <3>1 DEF Waiting
  <2>7. QED
      BY <1>0, <1>e, <2>1, <2>4, <2>6 DEF QueueInv
<1>5. ASSUME NEW r \in Retriers, retry_mark(r)
      PROVE  QueueInv'
  <2>1. /\ UNCHANGED <<netVars, workVars, tableVars, pushed, rows, admin>>
        /\ retry[r] = "sending" /\ tx' = [tx EXCEPT ![r] = "idle"]
        /\ txMsg' = [txMsg EXCEPT ![r] = NoMsg] /\ txFd' = [txFd EXCEPT ![r] = NoFd]
      BY <1>5 DEF retry_mark, send_return
  <2>2. todo[r] # <<>> /\ txMsg[r] = Head(todo[r]) /\ Head(todo[r]) \in Msgs
      BY <1>a, <1>b, <2>1, HeadTailElems DEF Calls
  <2>3. \/ /\ tx[r] = "ok" /\ status' = [status EXCEPT ![Head(todo[r])] = "sent"]
           /\ todo' = [todo EXCEPT ![r] = Tail(todo[r])]
           /\ retry' = [retry EXCEPT ![r] = "run"] /\ who' = who
        \/ /\ tx[r] = "err" /\ status' = [status EXCEPT ![Head(todo[r])] = "failed"]
           /\ todo' = [todo EXCEPT ![r] = <<>>]
           /\ retry' = [retry EXCEPT ![r] = "idle"]
           /\ who' = [who EXCEPT ![r] = NoDevice]
      BY <1>5 DEF retry_mark, MarkSent, UpdateStatus
  <2>5. SentIsPushed'
      BY <1>a, <1>b, <2>1, <2>2, <2>3 DEF SentIsPushed, Pushed
  <2>6. /\ \A q \in Retriers \ {r} : todo'[q] = todo[q] /\ retry'[q] = retry[q] /\ who'[q] = who[q]
        /\ \/ tx[r] = "ok" /\ retry'[r] = "run" /\ todo'[r] = Tail(todo[r]) /\ who'[r] = who[r]
           \/ tx[r] = "err" /\ retry'[r] = "idle" /\ todo'[r] = <<>>
      BY <1>b, <2>3
  <2>7. Queued'
    <3>1. \A m \in Msgs : status[m] # "none" => status'[m] # "none"
        BY <1>b, <2>2, <2>3
    <3>2. Elems(Tail(todo[r])) \subseteq Elems(todo[r])
        BY <1>b, <2>2, HeadTailElems
    <3>3. \A m \in Elems(todo'[r]) : To[m] = who'[r]
        BY <1>a, <1>i, <2>6, <3>2 DEF Queued
    <3>4. retry'[r] \in {"idle", "list"} => Elems(todo'[r]) = {}
        BY <1>i, <2>6
    <3>5. QED
        BY <1>a, <1>g, <2>1, <2>6, <3>1, <3>3, <3>4 DEF Queued
  <2>9. Waiting'
    <3>1. ASSUME NEW m \in Msgs, NEW v \in Conns, Live(v), To[m] = DevOf[v], ~Pushed(m),
                 admin[m] # "idle"
          PROVE  InHand(m, v)'
      <4>1. InHand(m, v)
          BY <1>a, <3>1 DEF Waiting
      <4>2. m # r /\ tx'[m] = tx[m] /\ txFd'[m] = txFd[m] /\ fd' = fd /\ pc' = pc
          BY <1>b, <2>1 DEF workVars
      <4>3. ASSUME Fresh(r, v), Carries(r, m)
            PROVE  Fresh(r, v)' /\ Carries(r, m)'
        <5>1. tx[r] = "ok"
            BY <2>1, <2>6, <4>3 DEF Fresh
        <5>2. m # Head(todo[r])
            BY <1>a, <2>2, <3>1, <5>1 DEF SentIsPushed
        <5>3. m \in Elems(todo[r]) => m \in Elems(Tail(todo[r]))
            BY <1>b, <2>2, <5>2, HeadTailElems
        <5>4. retry'[r] = "run" /\ todo'[r] = Tail(todo[r]) /\ who'[r] = who[r]
            BY <2>6, <5>1
        <5>5. QED
            BY <1>g, <2>1, <4>3, <5>3, <5>4 DEF Fresh, Carries
      <4>4. ASSUME NEW q \in Retriers \ {r}, Fresh(q, v), Carries(q, m)
            PROVE  Fresh(q, v)' /\ Carries(q, m)'
        <5>1. tx'[q] = tx[q] /\ txFd'[q] = txFd[q]
            BY <1>b, <2>1
        <5>2. QED
            BY <1>g, <2>6, <4>2, <4>4, <5>1 DEF Fresh, Carries
      <4>5. QED
          BY <2>1, <4>1, <4>2, <4>3, <4>4 DEF InHand
    <3>2. QED
        BY <1>e, <1>h, <2>1, <3>1 DEF Waiting
  <2>10. QED
      BY <1>0, <1>e, <2>1, <2>5, <2>7, <2>9 DEF QueueInv
<1>6. ASSUME NEW r \in Retriers, retry_end(r)
      PROVE  QueueInv'
  <2>1. /\ UNCHANGED <<netVars, workVars, tableVars, tx, txMsg, txFd, pushed, rows, status, admin, todo>>
        /\ retry[r] = "run" /\ todo[r] = <<>> /\ retry' = [retry EXCEPT ![r] = "idle"]
        /\ who' = [who EXCEPT ![r] = NoDevice]
      BY <1>6 DEF retry_end, vars, sendVars
  <2>2. Elems(todo[r]) = {}
      BY <2>1 DEF Elems
  <2>4. SentIsPushed' /\ Queued'
      BY <1>a, <1>b, <1>e, <1>g, <1>h, <2>1, <2>2 DEF SentIsPushed, Queued
  <2>5. Waiting'
    <3>1. ASSUME NEW m \in Msgs, NEW v \in Conns, NEW q \in Retriers, Fresh(q, v), Carries(q, m)
          PROVE  Fresh(q, v)' /\ Carries(q, m)'
      <4>1. q # r
          BY <2>1, <2>2, <3>1 DEF Carries
      <4>2. QED
          BY <1>b, <1>e, <1>g, <2>1, <3>1, <4>1 DEF Fresh, Carries
    <3>2. QED
        BY <1>a, <1>e, <1>h, <2>1, <3>1 DEF Waiting, InHand
  <2>6. QED
      BY <1>0, <1>e, <2>1, <2>4, <2>5 DEF QueueInv

\* The admin handler.  The goroutines stay as they are.
<1>j. ASSUME UNCHANGED <<netVars, workVars, tableVars, retry, todo, who>>,
             \A r \in Retriers : tx'[r] = tx[r] /\ txFd'[r] = txFd[r]
      PROVE  \A m \in Msgs, c \in Conns, r \in Retriers :
                Fresh(r, c) /\ Carries(r, m) => Fresh(r, c)' /\ Carries(r, m)'
    BY <1>e, <1>g, <1>j DEF Fresh, Carries
<1>7. ASSUME NEW m \in Msgs, admin_create(m)
      PROVE  QueueInv'
  <2>1. /\ UNCHANGED <<netVars, workVars, tableVars, tx, txMsg, txFd, pushed, retry, todo, who>>
        /\ rows' = Append(rows, m) /\ status' = [status EXCEPT ![m] = "pending"]
        /\ admin[m] = "idle" /\ admin' = [admin EXCEPT ![m] = "online"]
      BY <1>7 DEF admin_create, UpdateStatus, vars, sendVars
  <2>2. Elems(rows) \subseteq Elems(rows') /\ m \in Elems(rows')
    <3>1. /\ Len(rows') = Len(rows) + 1 /\ Len(rows) \in Nat
          /\ \A i \in 1..Len(rows) : rows'[i] = rows[i]
          /\ rows'[Len(rows) + 1] = m
        BY <1>b, <2>1, AppendProperties, LenProperties
    <3>2. Len(rows) + 1 \in 1..Len(rows') /\ \A i \in 1..Len(rows) : i \in 1..Len(rows')
        BY <3>1
    <3>3. QED
        BY <3>1, <3>2 DEF Elems
  <2>4. SentIsPushed'
      BY <1>a, <1>b, <2>1 DEF SentIsPushed, Pushed
  <2>5. Queued'
      BY <1>a, <1>b, <2>1, <2>2, <1>g DEF Queued
  <2>6. Waiting'
      BY <1>a, <1>b, <1>e, <1>h, <1>j, <2>1 DEF Waiting, InHand
  <2>7. QED
      BY <1>0, <1>e, <2>1, <2>4, <2>5, <2>6 DEF QueueInv
<1>8. ASSUME NEW m \in Msgs, admin_is_online(m) \/ admin_is_cached(m)
      PROVE  QueueInv'
  <2>1. /\ UNCHANGED <<netVars, workVars, tableVars, tx, txMsg, txFd, pushed, rows, status>>
        /\ UNCHANGED <<retry, todo, who>>
        /\ \/ admin[m] = "online" /\ (registry[To[m]] # NoFd => admin'[m] = "send")
           \/ admin[m] = "cached"
        /\ \A k \in Msgs \ {m} : admin'[k] = admin[k]
        /\ admin'[m] # "sending"
      BY <1>b, <1>8
      DEF admin_is_online, admin_is_cached, vars, sendVars, protocol_device_is_online
  <2>3. SentIsPushed' /\ Queued'
      BY <1>a, <2>1, <1>g, <1>h DEF SentIsPushed, Queued
  <2>4. Waiting'
    <3>1. \A v \in Conns : Live(v) /\ To[m] = DevOf[v] => registry[To[m]] # NoFd
        BY <1>a, LiveIsReachable
    <3>2. QED
        BY <1>a, <1>e, <1>h, <1>j, <2>1, <3>1 DEF Waiting, InHand
  <2>5. QED
      BY <1>0, <1>e, <2>1, <2>3, <2>4 DEF QueueInv
<1>9. ASSUME NEW m \in Msgs, admin_send(m)
      PROVE  QueueInv'
  <2>1. /\ UNCHANGED <<netVars, workVars, tableVars, pushed, rows, status, retry, todo, who>>
        /\ admin[m] = "send" /\ admin' = [admin EXCEPT ![m] = "sending"]
        /\ txMsg' = [txMsg EXCEPT ![m] = m]
        /\ txFd' = [txFd EXCEPT ![m] = registry[To[m]]]
        /\ tx' = [tx EXCEPT ![m] = IF registry[To[m]] = NoFd THEN "fallback" ELSE "write"]
      BY <1>9 DEF admin_send, send_lookup
  <2>2. \A r \in Retriers : tx'[r] = tx[r] /\ txFd'[r] = txFd[r]
      BY <1>b, <2>1
  <2>3. SentIsPushed' /\ Queued'
      BY <1>a, <1>b, <1>g, <1>h, <2>1 DEF SentIsPushed, Queued
  <2>5. Waiting'
    <3>1. \A v \in Conns : Live(v) /\ To[m] = DevOf[v] => tx'[m] = "write" /\ txFd'[m] = fd[v]
        BY <1>a, <1>b, <2>1, LiveIsReachable
    <3>2. QED
        BY <1>a, <1>b, <1>e, <1>h, <1>j, <2>1, <2>2, <3>1 DEF Waiting, InHand
  <2>6. QED
      BY <1>0, <1>e, <2>1, <2>3, <2>5 DEF QueueInv
<1>10. ASSUME NEW m \in Msgs, admin_mark(m)
       PROVE  QueueInv'
  <2>1. /\ UNCHANGED <<netVars, workVars, tableVars, pushed, rows, retry, todo, who>>
        /\ admin[m] = "sending" /\ admin' = [admin EXCEPT ![m] = "done"]
        /\ tx[m] \in {"ok", "err"} /\ tx' = [tx EXCEPT ![m] = "idle"]
        /\ txMsg' = [txMsg EXCEPT ![m] = NoMsg] /\ txFd' = [txFd EXCEPT ![m] = NoFd]
        /\ \/ tx[m] = "ok" /\ status' = [status EXCEPT ![m] = "sent"]
           \/ tx[m] = "err" /\ status' = [status EXCEPT ![m] = "pending"]
      BY <1>10 DEF admin_mark, send_return, MarkSent, UpdateStatus
  <2>2. \A r \in Retriers : tx'[r] = tx[r] /\ txFd'[r] = txFd[r]
      BY <1>b, <2>1
  <2>3. SentIsPushed'
      BY <1>a, <1>b, <2>1 DEF SentIsPushed, Pushed, Calls
  <2>4. Queued'
      BY <1>a, <1>b, <2>1, <1>g DEF Queued
  <2>6. Waiting'
      BY <1>a, <1>b, <1>e, <1>h, <1>j, <2>1, <2>2 DEF Waiting, InHand
  <2>7. QED
      BY <1>0, <1>e, <2>1, <2>3, <2>4, <2>6 DEF QueueInv

\* Inside Hub.Send.
<1>11. ASSUME NEW t \in Threads, Sender(t), UNCHANGED queueVars
       PROVE  QueueInv'
  <2>1. /\ UNCHANGED <<netVars, workVars, tableVars, txMsg, rows, status, admin, retry, todo, who>>
        /\ \A x \in Threads \ {t} : tx'[x] = tx[x] /\ txFd'[x] = txFd[x]
        /\ pushed \subseteq pushed'
      BY <1>b, <1>11
      DEF Sender, hub_lookup, send_write, fallback_write, write_ok, write_fails, queueVars
  <2>2. tx'[t] = "ok" => Pushed(txMsg[t])'
    <3>1. ASSUME write_ok(t, "write") \/ write_ok(t, "rewrite")
          PROVE  \E v \in Conns : <<txMsg[t], v>> \in pushed'
      <4>1. fdTable[txFd[t]] \in Conns
          BY <1>a, <3>1 DEF write_ok, QueueTypeInv, QueueTypeOK, TypeOK, Pointers
      <4>2. QED
          BY <3>1, <4>1 DEF write_ok
    <3>2. QED
        BY <1>b, <1>11, <2>1, <3>1
        DEF Sender, hub_lookup, send_write, fallback_write, write_fails, Pushed
  <2>3. ASSUME NEW v \in Conns, Live(v), tx[t] = "write", txFd[t] = fd[v]
        PROVE  tx'[t] = "ok"
    <3>1. fdTable[txFd[t]] = v /\ v # NoConn /\ peer[v] # "closed"
        BY <1>a, <2>3, LiveIsReachable
    <3>2. QED
        BY <1>b, <1>11, <2>3, <3>1
        DEF Sender, hub_lookup, send_write, fallback_write, write_ok, write_fails
  <2>4. tx[t] # "ok"
      BY <1>11 DEF Sender, hub_lookup, send_write, fallback_write, write_ok, write_fails
  <2>5. Queued'
      BY <1>a, <2>1, <1>g DEF Queued
  <2>6. SentIsPushed'
      BY <1>a, <2>1, <2>2 DEF SentIsPushed, Pushed
  <2>8. Waiting'
    <3>1. ASSUME NEW m \in Msgs, NEW v \in Conns, Live(v), To[m] = DevOf[v], ~Pushed(m)',
                 admin[m] # "idle"
          PROVE  InHand(m, v)'
      <4>1. InHand(m, v)
          BY <1>a, <2>1, <3>1 DEF Waiting, Pushed
      <4>2. ASSUME admin[m] = "sending", tx[m] = "write", txFd[m] = fd[v]
            PROVE  tx'[m] = "write" /\ txFd'[m] = fd[v]
        <5>1. CASE m = t
          <6>1. txMsg[t] = m /\ tx'[t] = "ok"
              BY <1>a, <2>3, <3>1, <4>2, <5>1 DEF Calls
          <6>2. Pushed(m)'
              BY <2>1, <2>2, <6>1 DEF Pushed
          <6>3. QED
              BY <3>1, <6>2
        <5>2. CASE m # t
            BY <2>1, <4>2, <5>2
        <5>3. QED
            BY <5>1, <5>2
      <4>3. ASSUME NEW r \in Retriers, Fresh(r, v), Carries(r, m)
            PROVE  Fresh(r, v)' /\ Carries(r, m)'
        <5>1. retry[r] = "sending" => tx'[r] = "ok" \/ (tx'[r] = "write" /\ txFd'[r] = fd[v])
          <6>1. CASE r = t
              BY <2>3, <2>4, <3>1, <4>3, <6>1 DEF Fresh
          <6>2. CASE r # t
              BY <2>1, <4>3, <6>2 DEF Fresh
          <6>3. QED
              BY <6>1, <6>2
        <5>2. QED
            BY <1>e, <1>g, <2>1, <4>3, <5>1 DEF Fresh, Carries
      <4>4. QED
          BY <1>e, <2>1, <4>1, <4>2, <4>3 DEF InHand
    <3>2. QED
        BY <1>e, <2>1, <3>1 DEF Waiting
  <2>9. QED
      BY <1>0, <1>e, <2>1, <2>5, <2>6, <2>8 DEF QueueInv

<1>12. CASE Crash
  <2>1. \A c \in Conns : ~Live(c)'
      BY <1>12 DEF Crash, Live, Reading
  <2>2. Dialed'
      BY <1>a, <1>b, <1>12 DEF Crash, Dialed
  <2>3. SentIsPushed'
      BY <1>a, <1>12 DEF Crash, SentIsPushed, Pushed
  <2>4. Queued'
    <3>1. \A r \in Retriers : Elems(todo'[r]) = {}
        BY <1>12 DEF Crash, Elems
    <3>2. QED
        BY <1>a, <1>12, <1>g, <3>1 DEF Crash, Queued
  <2>5. Waiting'
      BY <2>1 DEF Waiting
  <2>6. QED
      BY <1>0, <2>2, <2>3, <2>4, <2>5 DEF QueueInv
<1>13. CASE UNCHANGED allVars
  <2>1. /\ UNCHANGED <<netVars, workVars, tableVars, tx, txMsg, txFd, pushed, rows, status, admin>>
        /\ UNCHANGED <<retry, todo, who>>
      BY <1>13 DEF allVars, vars, sendVars, queueVars
  <2>3. SentIsPushed' /\ Queued'
      BY <1>a, <1>g, <1>h, <2>1 DEF SentIsPushed, Queued
  <2>4. Waiting'
      BY <1>a, <1>e, <1>h, <1>j, <2>1 DEF Waiting, InHand
  <2>5. QED
      BY <1>0, <1>e, <2>1, <2>3, <2>4 DEF QueueInv
<1>14. QED
    BY <1>1, <1>2, <1>3, <1>4, <1>5, <1>6, <1>7, <1>8, <1>9, <1>10, <1>11, <1>12, <1>13
    DEF QueueNext, WorkerOther, Retry, Admin

-----------------------------------------------------------------------------
(* No lost wake-up between the admin handler and the login: see              *)
(* NoStrandedCommand.                                                        *)
THEOREM NothingStranded == QueueSpec => []NoStrandedCommand
<1>1. QueueInv => NoStrandedCommand
    BY DEF QueueInv, Waiting, InHand, Fresh, Live, Pushed, NoStrandedCommand, Established, Reading
<1>2. QED
    BY <1>1, QueueInvInit, QueueInvStep, PTL DEF QueueSpec

(* The tables of the connection layer stay right across crashes and restarts  *)
(* of the backend, for every descriptor that no accept() took between two     *)
(* closes: no ghosts, the latest login wins, and each worker keeps its socket. *)
THEOREM TablesSurviveCrashes ==
    QueueSpec => [](OnlineOnlyIfServed /\ LatestLoginOnline /\ OwnSocketUntilClosed)
<1>1. QueueInv => OnlineOnlyIfServed /\ LatestLoginOnline /\ OwnSocketUntilClosed
    BY DEF QueueInv, IInv
<1>2. QED
    BY <1>1, QueueInvInit, QueueInvStep, PTL DEF QueueSpec

=============================================================================
