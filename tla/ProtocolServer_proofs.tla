----------------------- MODULE ProtocolServer_proofs -----------------------
(***************************************************************************)
(* Theorems about ProtocolServer for any sets of connections, descriptors, *)
(* devices and threads.                                                    *)
(*                                                                         *)
(* TypeOK is not inductive: a step that follows a pointer (the descriptor  *)
(* of a worker, the connection its recv() reads from, the frame a thread   *)
(* sends) needs that pointer to be set in the states where it is followed. *)
(* Pointers says so.                                                       *)
(*                                                                         *)
(* OnlineOnlyIfServed and LatestLoginOnline rest on the ownership of       *)
(* descriptors, for each descriptor that accept() has never taken between  *)
(* two closes: it names its worker's own connection until the first close  *)
(* (OwnSocketUntilClosed), and while it is open it has such a worker       *)
(* (HeldFd).  Then an entry for descriptor f can only have been made by    *)
(* the one worker that holds f, for its one device (OwnDevice), and the    *)
(* one entry that registry_remove_fd drops is the right one.  Nothing is   *)
(* assumed of the descriptors that were hit: whatever their workers do to  *)
(* the tables, they do under their own number.                             *)
(***************************************************************************)
EXTENDS ProtocolServer, TLAPS

Pointers ==
    /\ \A w \in Conns :
          /\ pc[w] \in HasFd \union {"close2"} => fd[w] \in Fds
          /\ pc[w] = "recv" => src[w] \in Conns
          /\ pc[w] \in {"token", "register", "unregister", "untoken"} => last[w] \in Devices
    /\ \A t \in Threads :
          /\ tx[t] \in {"write", "fallback", "rewrite"} => txMsg[t] \in Msgs
          /\ tx[t] \in {"write", "rewrite"} => txFd[t] \in Fds

TypeInv == TypeOK /\ Pointers

HeldFd ==
    \A f \in Fds \ crossed :
        fdTable[f] # NoConn => pc[fdTable[f]] \in HasFd /\ fd[fdTable[f]] = f

OwnDevice ==
    \A w \in Conns :
        /\ pc[w] = "none" => last[w] = NoDevice
        /\ pc[w] \in HasFd /\ fd[w] \notin crossed =>
              /\ pc[w] = "recv" => src[w] = w
              /\ last[w] \in {NoDevice, DevOf[w]}

LatestLogin ==
    \A d \in Devices :
        latest[d] # NoConn =>
            /\ pc[latest[d]] # "none"
            /\ pc[latest[d]] \in Serving /\ fd[latest[d]] \notin crossed => last[latest[d]] = d

IInv ==
    /\ TypeInv
    /\ OwnSocketUntilClosed
    /\ HeldFd
    /\ OwnDevice
    /\ LatestLogin
    /\ OnlineOnlyIfServed
    /\ LatestLoginOnline

-----------------------------------------------------------------------------
(* TypeInv holds initially.                                                 *)
LEMMA TypeInit == Init => TypeInv
BY ConstantsAssumption DEF Init, TypeInv, TypeOK, Pointers, Pcs, HasFd, InHub, Serving, Reading

(* Every step of the clients, the accept thread, the workers and the senders *)
(* keeps TypeInv.                                                            *)
LEMMA TypeStep == TypeInv /\ [Next]_vars => TypeInv'
<1> SUFFICES ASSUME TypeInv, [Next]_vars
             PROVE  TypeInv'
    OBVIOUS
<1> USE ConstantsAssumption
    DEF TypeInv, TypeOK, Pointers, Pcs, HasFd, InHub, Serving, Reading,
        netVars, workVars, tableVars, sendVars
<1>1. ASSUME NEW c \in Conns, Dial(c)
     PROVE  TypeInv'
    BY <1>1 DEF Dial
<1>2. ASSUME NEW c \in Conns, Hangup(c)
     PROVE  TypeInv'
    BY <1>2 DEF Hangup
<1>3. ASSUME NEW c \in Conns, accept_loop(c)
     PROVE  TypeInv'
    BY <1>3 DEF accept_loop, FreeFds, ClosedOnce
<1>4. ASSUME NEW c \in Conns, accept_failed(c)
     PROVE  TypeInv'
    BY <1>4 DEF accept_failed
<1>5. ASSUME NEW w \in Conns, recv_enter(w)
     PROVE  TypeInv'
    BY <1>5 DEF recv_enter
<1>6. ASSUME NEW w \in Conns, recv_fails(w)
     PROVE  TypeInv'
    BY <1>6 DEF recv_fails
<1>7. ASSUME NEW w \in Conns, recv_login(w)
     PROVE  TypeInv'
    BY <1>7 DEF recv_login, registry_set
<1>8. ASSUME NEW w \in Conns, handleLogin(w)
     PROVE  TypeInv'
    BY <1>8 DEF handleLogin
<1>9. ASSUME NEW w \in Conns, NEW ok \in TokenResults, login_token(w, ok)
     PROVE  TypeInv'
    BY <1>9 DEF login_token
<1>10. ASSUME NEW w \in Conns, Register(w)
     PROVE  TypeInv'
    BY <1>10 DEF Register
<1>11. ASSUME NEW w \in Conns, registry_remove_fd(w)
     PROVE  TypeInv'
    BY <1>11 DEF registry_remove_fd
<1>12. ASSUME NEW w \in Conns, Unregister(w)
     PROVE  TypeInv'
    BY <1>12 DEF Unregister
<1>13. ASSUME NEW w \in Conns, delete_token(w)
     PROVE  TypeInv'
    BY <1>13 DEF delete_token
<1>14. ASSUME NEW w \in Conns, handler_close(w)
     PROVE  TypeInv'
    BY <1>14 DEF handler_close, tcp_close
<1>15. ASSUME NEW w \in Conns, worker_close(w)
     PROVE  TypeInv'
    BY <1>15 DEF worker_close, tcp_close
<1>16. ASSUME NEW t \in Threads, NEW m \in Msgs, send_lookup(t, m)
     PROVE  TypeInv'
    BY <1>16 DEF send_lookup
<1>17. ASSUME NEW t \in Threads, hub_lookup(t)
     PROVE  TypeInv'
    BY <1>17 DEF hub_lookup
<1>18. ASSUME NEW t \in Threads, send_write(t)
     PROVE  TypeInv'
    BY <1>18 DEF send_write, write_ok, write_fails
<1>19. ASSUME NEW t \in Threads, fallback_write(t)
     PROVE  TypeInv'
    BY <1>19 DEF fallback_write, write_ok, write_fails
<1>20. ASSUME NEW t \in Threads, send_return(t)
     PROVE  TypeInv'
    BY <1>20 DEF send_return
<1>21. CASE UNCHANGED vars
    BY <1>21 DEF vars
<1>22. QED
    BY <1>1, <1>2, <1>3, <1>4, <1>5, <1>6, <1>7, <1>8, <1>9, <1>10, <1>11, <1>12, <1>13, <1>14, <1>15, <1>16, <1>17, <1>18, <1>19, <1>20, <1>21
    DEF Next, Client, Acceptor, Receive, ReceiveStep, Cleanup, Sender

(* Type correctness of the connection layer.                                 *)
THEOREM TypeCorrect == Spec => []TypeOK
<1>1. TypeInv => TypeOK
    BY DEF TypeInv
<1>2. QED
    BY <1>1, TypeInit, TypeStep, PTL DEF Spec

-----------------------------------------------------------------------------
(* The inductive invariant holds initially.                                 *)
LEMMA InvInit == Init => IInv
BY TypeInit, ConstantsAssumption
   DEF Init, IInv, OwnSocketUntilClosed, HeldFd, OwnDevice, LatestLogin, OnlineOnlyIfServed,
       LatestLoginOnline, protocol_device_is_online, HasFd, InHub, Serving, Reading

(* Every step keeps the inductive invariant, an accept() between the two     *)
(* closes of a worker included.                                              *)
LEMMA InvStep == IInv /\ [Next]_vars => IInv'
<1> SUFFICES ASSUME IInv, [Next]_vars
             PROVE  IInv'
    OBVIOUS
<1> USE ConstantsAssumption
<1>0. TypeInv'
    BY TypeStep DEF IInv
<1> USE DEF IInv, TypeInv, TypeOK, Pointers, Pcs, HasFd, InHub, Serving, Reading,
            netVars, workVars, tableVars, sendVars
<1>1. ASSUME NEW c \in Conns, Dial(c)
     PROVE  IInv'
  <2>1. OwnSocketUntilClosed'
      BY <1>1 DEF OwnSocketUntilClosed, HeldFd, Dial
  <2>2. HeldFd'
      BY <1>1 DEF OwnSocketUntilClosed, HeldFd, Dial
  <2>3. OwnDevice'
      BY <1>1 DEF OwnDevice, OwnSocketUntilClosed, Dial
  <2>4. LatestLogin'
      BY <1>1 DEF LatestLogin, OwnDevice, Dial
  <2>5. OnlineOnlyIfServed'
      BY <1>1 DEF OnlineOnlyIfServed, OwnSocketUntilClosed, OwnDevice, ServedBy, protocol_device_is_online, Dial
  <2>6. LatestLoginOnline'
      BY <1>1 DEF LatestLoginOnline, LatestLogin, OwnSocketUntilClosed, OwnDevice, Dial
  <2>7. QED
      BY <1>0, <2>1, <2>2, <2>3, <2>4, <2>5, <2>6
<1>2. ASSUME NEW c \in Conns, Hangup(c)
     PROVE  IInv'
  <2>1. OwnSocketUntilClosed'
      BY <1>2 DEF OwnSocketUntilClosed, HeldFd, Hangup
  <2>2. HeldFd'
      BY <1>2 DEF OwnSocketUntilClosed, HeldFd, Hangup
  <2>3. OwnDevice'
      BY <1>2 DEF OwnDevice, OwnSocketUntilClosed, Hangup
  <2>4. LatestLogin'
      BY <1>2 DEF LatestLogin, OwnDevice, Hangup
  <2>5. OnlineOnlyIfServed'
      BY <1>2 DEF OnlineOnlyIfServed, OwnSocketUntilClosed, OwnDevice, ServedBy, protocol_device_is_online, Hangup
  <2>6. LatestLoginOnline'
      BY <1>2 DEF LatestLoginOnline, LatestLogin, OwnSocketUntilClosed, OwnDevice, Hangup
  <2>7. QED
      BY <1>0, <2>1, <2>2, <2>3, <2>4, <2>5, <2>6
<1>3. ASSUME NEW c \in Conns, accept_loop(c)
     PROVE  IInv'
  <2>1. OwnSocketUntilClosed'
      BY <1>3 DEF OwnSocketUntilClosed, HeldFd, accept_loop, FreeFds, ClosedOnce
  <2>2. HeldFd'
      BY <1>3 DEF OwnSocketUntilClosed, HeldFd, accept_loop, FreeFds, ClosedOnce
  <2>3. OwnDevice'
      BY <1>3 DEF OwnDevice, OwnSocketUntilClosed, accept_loop, FreeFds, ClosedOnce
  <2>4. LatestLogin'
      BY <1>3 DEF LatestLogin, OwnDevice, accept_loop, FreeFds, ClosedOnce
  <2>5. OnlineOnlyIfServed'
      BY <1>3 DEF OnlineOnlyIfServed, OwnSocketUntilClosed, OwnDevice, ServedBy, protocol_device_is_online, accept_loop, FreeFds, ClosedOnce
  <2>6. LatestLoginOnline'
      BY <1>3 DEF LatestLoginOnline, LatestLogin, OwnSocketUntilClosed, OwnDevice, accept_loop, FreeFds, ClosedOnce
  <2>7. QED
      BY <1>0, <2>1, <2>2, <2>3, <2>4, <2>5, <2>6
<1>4. ASSUME NEW c \in Conns, accept_failed(c)
     PROVE  IInv'
  <2>1. OwnSocketUntilClosed'
      BY <1>4 DEF OwnSocketUntilClosed, HeldFd, accept_failed
  <2>2. HeldFd'
      BY <1>4 DEF OwnSocketUntilClosed, HeldFd, accept_failed
  <2>3. OwnDevice'
      BY <1>4 DEF OwnDevice, OwnSocketUntilClosed, accept_failed
  <2>4. LatestLogin'
      BY <1>4 DEF LatestLogin, OwnDevice, accept_failed
  <2>5. OnlineOnlyIfServed'
      BY <1>4 DEF OnlineOnlyIfServed, OwnSocketUntilClosed, OwnDevice, ServedBy, protocol_device_is_online, accept_failed
  <2>6. LatestLoginOnline'
      BY <1>4 DEF LatestLoginOnline, LatestLogin, OwnSocketUntilClosed, OwnDevice, accept_failed
  <2>7. QED
      BY <1>0, <2>1, <2>2, <2>3, <2>4, <2>5, <2>6
<1>5. ASSUME NEW w \in Conns, recv_enter(w)
     PROVE  IInv'
  <2>1. OwnSocketUntilClosed'
      BY <1>5 DEF OwnSocketUntilClosed, HeldFd, recv_enter
  <2>2. HeldFd'
      BY <1>5 DEF OwnSocketUntilClosed, HeldFd, recv_enter
  <2>3. OwnDevice'
      BY <1>5 DEF OwnDevice, OwnSocketUntilClosed, recv_enter
  <2>4. LatestLogin'
      BY <1>5 DEF LatestLogin, OwnDevice, recv_enter
  <2>5. OnlineOnlyIfServed'
      BY <1>5 DEF OnlineOnlyIfServed, OwnSocketUntilClosed, OwnDevice, ServedBy, protocol_device_is_online, recv_enter
  <2>6. LatestLoginOnline'
      BY <1>5 DEF LatestLoginOnline, LatestLogin, OwnSocketUntilClosed, OwnDevice, recv_enter
  <2>7. QED
      BY <1>0, <2>1, <2>2, <2>3, <2>4, <2>5, <2>6
<1>6. ASSUME NEW w \in Conns, recv_fails(w)
     PROVE  IInv'
  <2>1. OwnSocketUntilClosed'
      BY <1>6 DEF OwnSocketUntilClosed, HeldFd, recv_fails
  <2>2. HeldFd'
      BY <1>6 DEF OwnSocketUntilClosed, HeldFd, recv_fails
  <2>3. OwnDevice'
      BY <1>6 DEF OwnDevice, OwnSocketUntilClosed, recv_fails
  <2>4. LatestLogin'
      BY <1>6 DEF LatestLogin, OwnDevice, recv_fails
  <2>5. OnlineOnlyIfServed'
      BY <1>6 DEF OnlineOnlyIfServed, OwnSocketUntilClosed, OwnDevice, ServedBy, protocol_device_is_online, recv_fails
  <2>6. LatestLoginOnline'
      BY <1>6 DEF LatestLoginOnline, LatestLogin, OwnSocketUntilClosed, OwnDevice, recv_fails
  <2>7. QED
      BY <1>0, <2>1, <2>2, <2>3, <2>4, <2>5, <2>6
<1>7. ASSUME NEW w \in Conns, recv_login(w)
     PROVE  IInv'
  <2>1. OwnSocketUntilClosed'
      BY <1>7 DEF OwnSocketUntilClosed, HeldFd, recv_login, registry_set
  <2>2. HeldFd'
      BY <1>7 DEF OwnSocketUntilClosed, HeldFd, recv_login, registry_set
  <2>3. OwnDevice'
      BY <1>7 DEF OwnDevice, OwnSocketUntilClosed, recv_login, registry_set
  <2>4. LatestLogin'
      BY <1>7 DEF LatestLogin, OwnDevice, recv_login, registry_set
  <2>5. OnlineOnlyIfServed'
      BY <1>7 DEF OnlineOnlyIfServed, OwnSocketUntilClosed, OwnDevice, ServedBy, protocol_device_is_online, recv_login, registry_set
  <2>6. LatestLoginOnline'
      BY <1>7 DEF LatestLoginOnline, LatestLogin, OwnSocketUntilClosed, OwnDevice, recv_login, registry_set
  <2>7. QED
      BY <1>0, <2>1, <2>2, <2>3, <2>4, <2>5, <2>6
<1>8. ASSUME NEW w \in Conns, handleLogin(w)
     PROVE  IInv'
  <2>1. OwnSocketUntilClosed'
      BY <1>8 DEF OwnSocketUntilClosed, HeldFd, handleLogin
  <2>2. HeldFd'
      BY <1>8 DEF OwnSocketUntilClosed, HeldFd, handleLogin
  <2>3. OwnDevice'
      BY <1>8 DEF OwnDevice, OwnSocketUntilClosed, handleLogin
  <2>4. LatestLogin'
      BY <1>8 DEF LatestLogin, OwnDevice, handleLogin
  <2>5. OnlineOnlyIfServed'
      BY <1>8 DEF OnlineOnlyIfServed, OwnSocketUntilClosed, OwnDevice, ServedBy, protocol_device_is_online, handleLogin
  <2>6. LatestLoginOnline'
      BY <1>8 DEF LatestLoginOnline, LatestLogin, OwnSocketUntilClosed, OwnDevice, handleLogin
  <2>7. QED
      BY <1>0, <2>1, <2>2, <2>3, <2>4, <2>5, <2>6
<1>9. ASSUME NEW w \in Conns, NEW ok \in TokenResults, login_token(w, ok)
     PROVE  IInv'
  <2>1. OwnSocketUntilClosed'
      BY <1>9 DEF OwnSocketUntilClosed, HeldFd, login_token
  <2>2. HeldFd'
      BY <1>9 DEF OwnSocketUntilClosed, HeldFd, login_token
  <2>3. OwnDevice'
      BY <1>9 DEF OwnDevice, OwnSocketUntilClosed, login_token
  <2>4. LatestLogin'
      BY <1>9 DEF LatestLogin, OwnDevice, login_token
  <2>5. OnlineOnlyIfServed'
      BY <1>9 DEF OnlineOnlyIfServed, OwnSocketUntilClosed, OwnDevice, ServedBy, protocol_device_is_online, login_token
  <2>6. LatestLoginOnline'
      BY <1>9 DEF LatestLoginOnline, LatestLogin, OwnSocketUntilClosed, OwnDevice, login_token
  <2>7. QED
      BY <1>0, <2>1, <2>2, <2>3, <2>4, <2>5, <2>6
<1>10. ASSUME NEW w \in Conns, Register(w)
     PROVE  IInv'
  <2>1. OwnSocketUntilClosed'
      BY <1>10 DEF OwnSocketUntilClosed, HeldFd, Register
  <2>2. HeldFd'
      BY <1>10 DEF OwnSocketUntilClosed, HeldFd, Register
  <2>3. OwnDevice'
      BY <1>10 DEF OwnDevice, OwnSocketUntilClosed, Register
  <2>4. LatestLogin'
      BY <1>10 DEF LatestLogin, OwnDevice, Register
  <2>5. OnlineOnlyIfServed'
      BY <1>10 DEF OnlineOnlyIfServed, OwnSocketUntilClosed, OwnDevice, ServedBy, protocol_device_is_online, Register
  <2>6. LatestLoginOnline'
      BY <1>10 DEF LatestLoginOnline, LatestLogin, OwnSocketUntilClosed, OwnDevice, Register
  <2>7. QED
      BY <1>0, <2>1, <2>2, <2>3, <2>4, <2>5, <2>6
<1>11. ASSUME NEW w \in Conns, registry_remove_fd(w)
     PROVE  IInv'
  <2>1. OwnSocketUntilClosed'
      BY <1>11 DEF OwnSocketUntilClosed, HeldFd, registry_remove_fd
  <2>2. HeldFd'
      BY <1>11 DEF OwnSocketUntilClosed, HeldFd, registry_remove_fd
  <2>3. OwnDevice'
      BY <1>11 DEF OwnDevice, OwnSocketUntilClosed, registry_remove_fd
  <2>4. LatestLogin'
      BY <1>11 DEF LatestLogin, OwnDevice, registry_remove_fd
  <2>5. OnlineOnlyIfServed'
      BY <1>11 DEF OnlineOnlyIfServed, OwnSocketUntilClosed, OwnDevice, ServedBy, protocol_device_is_online, registry_remove_fd
  <2>6. LatestLoginOnline'
      BY <1>11 DEF LatestLoginOnline, LatestLogin, OwnSocketUntilClosed, OwnDevice, registry_remove_fd
  <2>7. QED
      BY <1>0, <2>1, <2>2, <2>3, <2>4, <2>5, <2>6
<1>12. ASSUME NEW w \in Conns, Unregister(w)
     PROVE  IInv'
  <2>1. OwnSocketUntilClosed'
      BY <1>12 DEF OwnSocketUntilClosed, HeldFd, Unregister
  <2>2. HeldFd'
      BY <1>12 DEF OwnSocketUntilClosed, HeldFd, Unregister
  <2>3. OwnDevice'
      BY <1>12 DEF OwnDevice, OwnSocketUntilClosed, Unregister
  <2>4. LatestLogin'
      BY <1>12 DEF LatestLogin, OwnDevice, Unregister
  <2>5. OnlineOnlyIfServed'
      BY <1>12 DEF OnlineOnlyIfServed, OwnSocketUntilClosed, OwnDevice, ServedBy, protocol_device_is_online, Unregister
  <2>6. LatestLoginOnline'
      BY <1>12 DEF LatestLoginOnline, LatestLogin, OwnSocketUntilClosed, OwnDevice, Unregister
  <2>7. QED
      BY <1>0, <2>1, <2>2, <2>3, <2>4, <2>5, <2>6
<1>13. ASSUME NEW w \in Conns, delete_token(w)
     PROVE  IInv'
  <2>1. OwnSocketUntilClosed'
      BY <1>13 DEF OwnSocketUntilClosed, HeldFd, delete_token
  <2>2. HeldFd'
      BY <1>13 DEF OwnSocketUntilClosed, HeldFd, delete_token
  <2>3. OwnDevice'
      BY <1>13 DEF OwnDevice, OwnSocketUntilClosed, delete_token
  <2>4. LatestLogin'
      BY <1>13 DEF LatestLogin, OwnDevice, delete_token
  <2>5. OnlineOnlyIfServed'
      BY <1>13 DEF OnlineOnlyIfServed, OwnSocketUntilClosed, OwnDevice, ServedBy, protocol_device_is_online, delete_token
  <2>6. LatestLoginOnline'
      BY <1>13 DEF LatestLoginOnline, LatestLogin, OwnSocketUntilClosed, OwnDevice, delete_token
  <2>7. QED
      BY <1>0, <2>1, <2>2, <2>3, <2>4, <2>5, <2>6
<1>14. ASSUME NEW w \in Conns, handler_close(w)
     PROVE  IInv'
  <2>1. OwnSocketUntilClosed'
      BY <1>14 DEF OwnSocketUntilClosed, HeldFd, handler_close, tcp_close
  <2>2. HeldFd'
      BY <1>14 DEF OwnSocketUntilClosed, HeldFd, handler_close, tcp_close
  <2>3. OwnDevice'
      BY <1>14 DEF OwnDevice, OwnSocketUntilClosed, handler_close, tcp_close
  <2>4. LatestLogin'
      BY <1>14 DEF LatestLogin, OwnDevice, handler_close, tcp_close
  <2>5. OnlineOnlyIfServed'
      BY <1>14 DEF OnlineOnlyIfServed, OwnSocketUntilClosed, OwnDevice, ServedBy, protocol_device_is_online, handler_close, tcp_close
  <2>6. LatestLoginOnline'
      BY <1>14 DEF LatestLoginOnline, LatestLogin, OwnSocketUntilClosed, OwnDevice, handler_close, tcp_close
  <2>7. QED
      BY <1>0, <2>1, <2>2, <2>3, <2>4, <2>5, <2>6
<1>15. ASSUME NEW w \in Conns, worker_close(w)
     PROVE  IInv'
  <2>1. OwnSocketUntilClosed'
      BY <1>15 DEF OwnSocketUntilClosed, HeldFd, worker_close, tcp_close
  <2>2. HeldFd'
      BY <1>15 DEF OwnSocketUntilClosed, HeldFd, worker_close, tcp_close
  <2>3. OwnDevice'
      BY <1>15 DEF OwnDevice, OwnSocketUntilClosed, worker_close, tcp_close
  <2>4. LatestLogin'
      BY <1>15 DEF LatestLogin, OwnDevice, worker_close, tcp_close
  <2>5. OnlineOnlyIfServed'
      BY <1>15 DEF OnlineOnlyIfServed, OwnSocketUntilClosed, OwnDevice, ServedBy, protocol_device_is_online, worker_close, tcp_close
  <2>6. LatestLoginOnline'
      BY <1>15 DEF LatestLoginOnline, LatestLogin, OwnSocketUntilClosed, OwnDevice, worker_close, tcp_close
  <2>7. QED
      BY <1>0, <2>1, <2>2, <2>3, <2>4, <2>5, <2>6
<1>16. ASSUME NEW t \in Threads, NEW m \in Msgs, send_lookup(t, m)
     PROVE  IInv'
    BY <1>0, <1>16
       DEF OwnSocketUntilClosed, HeldFd, OwnDevice, LatestLogin, OnlineOnlyIfServed,
           LatestLoginOnline, ServedBy, protocol_device_is_online, send_lookup
<1>17. ASSUME NEW t \in Threads, hub_lookup(t)
     PROVE  IInv'
    BY <1>0, <1>17
       DEF OwnSocketUntilClosed, HeldFd, OwnDevice, LatestLogin, OnlineOnlyIfServed,
           LatestLoginOnline, ServedBy, protocol_device_is_online, hub_lookup
<1>18. ASSUME NEW t \in Threads, send_write(t)
     PROVE  IInv'
    BY <1>0, <1>18
       DEF OwnSocketUntilClosed, HeldFd, OwnDevice, LatestLogin, OnlineOnlyIfServed,
           LatestLoginOnline, ServedBy, protocol_device_is_online, send_write, write_ok, write_fails
<1>19. ASSUME NEW t \in Threads, fallback_write(t)
     PROVE  IInv'
    BY <1>0, <1>19
       DEF OwnSocketUntilClosed, HeldFd, OwnDevice, LatestLogin, OnlineOnlyIfServed,
           LatestLoginOnline, ServedBy, protocol_device_is_online, fallback_write, write_ok, write_fails
<1>20. ASSUME NEW t \in Threads, send_return(t)
     PROVE  IInv'
    BY <1>0, <1>20
       DEF OwnSocketUntilClosed, HeldFd, OwnDevice, LatestLogin, OnlineOnlyIfServed,
           LatestLoginOnline, ServedBy, protocol_device_is_online, send_return
<1>21. CASE UNCHANGED vars
    BY <1>0, <1>21
       DEF OwnSocketUntilClosed, HeldFd, OwnDevice, LatestLogin, OnlineOnlyIfServed,
           LatestLoginOnline, ServedBy, protocol_device_is_online, vars
<1>22. QED
    BY <1>1, <1>2, <1>3, <1>4, <1>5, <1>6, <1>7, <1>8, <1>9, <1>10, <1>11, <1>12, <1>13, <1>14, <1>15, <1>16, <1>17, <1>18, <1>19, <1>20, <1>21
    DEF Next, Client, Acceptor, Receive, ReceiveStep, Cleanup, Sender

(* No ghosts but those of a lost double-close race: see OnlineOnlyIfServed.   *)
THEOREM NoGhosts == Spec => []OnlineOnlyIfServed
<1>1. IInv => OnlineOnlyIfServed
    BY DEF IInv
<1>2. QED
    BY <1>1, InvInit, InvStep, PTL DEF Spec

(* The latest login of a device is never undone by another connection: see    *)
(* LatestLoginOnline.                                                         *)
THEOREM LatestLoginWins == Spec => []LatestLoginOnline
<1>1. IInv => LatestLoginOnline
    BY DEF IInv
<1>2. QED
    BY <1>1, InvInit, InvStep, PTL DEF Spec

(* A worker loses its socket to another one's tcp_close only in the window    *)
(* between two closes: see OwnSocketUntilClosed.                              *)
THEOREM OwnClosesOnly == Spec => []OwnSocketUntilClosed
<1>1. IInv => OwnSocketUntilClosed
    BY DEF IInv
<1>2. QED
    BY <1>1, InvInit, InvStep, PTL DEF Spec

(* A frame that reaches another device's connection was looked up under an    *)
(* entry that has been removed since: see StrayWriteIsUnlisted.               *)
THEOREM StrayWritesAreUnlisted == Spec => StrayWriteIsUnlisted
<1> DEFINE Stray(t) == /\ tx[t] \in {"write", "rewrite"} /\ tx'[t] = "ok"
                       /\ txFd[t] \notin crossed
                       /\ DevOf[fdTable[txFd[t]]] # To[txMsg[t]]
           Gone(t) == registry[To[txMsg[t]]] # txFd[t] /\ hub[To[txMsg[t]]] # txFd[t]
<1>1. ASSUME IInv, NEW t \in Threads, Stray(t)
      PROVE  Gone(t)
  <2>1. txFd[t] \in Fds /\ txFd[t] \notin crossed /\ To[txMsg[t]] \in Devices
      BY <1>1, ConstantsAssumption DEF IInv, TypeInv, Pointers
  <2>2. ASSUME NEW w \in Conns, pc[w] \in InHub, fd[w] = txFd[t], last[w] = To[txMsg[t]]
        PROVE  FALSE
    <3>1. fdTable[txFd[t]] = w
        BY <1>1, <2>1, <2>2 DEF IInv, OwnSocketUntilClosed, HasFd
    <3>2. DevOf[w] = To[txMsg[t]]
        BY <1>1, <2>1, <2>2, ConstantsAssumption DEF IInv, OwnDevice, HasFd
    <3>3. QED
        BY <1>1, <3>1, <3>2
  <2>3. QED
      BY <1>1, <2>1, <2>2 DEF IInv, OnlineOnlyIfServed, ServedBy, InHub
<1>2. IInv /\ [Next]_vars => [\A t \in Threads : Stray(t) => Gone(t)]_vars
    BY <1>1
<1>3. QED
    BY <1>2, InvInit, InvStep, PTL DEF Spec, StrayWriteIsUnlisted

=============================================================================
