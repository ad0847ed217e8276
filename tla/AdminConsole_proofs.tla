------------------------- MODULE AdminConsole_proofs -------------------------
(***************************************************************************)
(* Theorems about AdminConsole for any devices, directories, forms,        *)
(* logins and keys.                                                        *)
(*                                                                         *)
(* Types need an account of the connections: each belongs to a login that  *)
(* was submitted (OwnLogin), so there are never more than MaxLogins, and   *)
(* before the first one nothing can happen but logins (Unconnected).       *)
(*                                                                         *)
(* The tree: requests and replies name the directory they are about only   *)
(* in the model, so what keeps the rows right is that a request is made    *)
(* when none is under way.  TreeInv says that all that is under way is     *)
(* about the directory the screen is in, that without anything under way   *)
(* a page of it is shown, and that ParentMap holds the whole way up to the *)
(* root, not only the entry of the directory the screen is in.             *)
(***************************************************************************)
EXTENDS AdminConsole, Subsequence_proofs, FiniteSetTheorems

Folders == Dirs \union {Root}

Nil == {None}

Request ==
    [op : {"connect", "hello", "login"}, a : {"token", "denied"}, b : Nil]
    \union [op : {"list"}, a : Nil, b : Nil]
    \union [op : {"tree"}, a : Devices, b : Folders]
    \union [op : {"send"}, a : Devices, b : Nil]

Reply ==
    [op : Server \ {"tree"}, a : Nil, b : Nil]
    \union [op : {"tree"}, a : Devices, b : Folders]

Message ==
    Reply
    \union [op : {"submitted", "back"}, a : Nil, b : Nil]
    \union [op : {"selected"}, a : Devices, b : Nil]
    \union [op : {"loaded"}, a : Devices, b : Folders]

Wire ==
    /\ replies \in [Conns -> Seq(Reply)]
    /\ loop \in [st : {"off", "next", "reading", "holding", "exited"},
                 conn : {0} \union Conns, msg : Reply \union {NoMsg}]
    /\ loop.st = "reading" => loop.conn # 0
    /\ loop.st = "holding" <=> loop.msg # NoMsg

Goroutines ==
    /\ IsABag(cmds) /\ BagToSet(cmds) \subseteq Request
    /\ IsABag(inbox) /\ BagToSet(inbox) \subseteq Message

Copies(x, bag) == IF BagIn(x, bag) THEN bag[x] ELSE 0

\* Connections made, and those that a goroutine may make yet.
OwnLogin ==
    conn + Copies(Msg("connect", "token", None), cmds)
         + Copies(Msg("connect", "denied", None), cmds) <= logins

Unconnected ==
    conn = 0 =>
        /\ screen \in {"login", "quit"} /\ loop.st = "off"
        /\ BagToSet(inbox) = {}
        /\ \A c \in BagToSet(cmds) : c.op = "connect"

Counters ==
    /\ conn \in Nat /\ broken \subseteq Conns /\ waiters \in Nat
    /\ logins \in 0..MaxLogins /\ keys \in 0..MaxEvents

Form ==
    /\ form \in [state : {"selecting", "filling"}, cmd : DOMAIN Fields, focused : Nat]
    /\ form.focused <= Fields[form.cmd] + 1

Screens ==
    /\ screen \in {"login", "dashboard", "detail", "quit"}
    /\ listed \in BOOLEAN /\ astray \in BOOLEAN /\ focus \in {"tree", "command"}
    /\ device \in Devices \union {None} /\ cur \in Folders
    /\ screen = "detail" => device \in Devices
    /\ parentMap \in [Dirs \union {Up} -> Folders \union {None}]
    /\ shown \in [nodes : SUBSET Dirs, up : BOOLEAN]

TypeInv == Wire /\ Goroutines /\ OwnLogin /\ Unconnected /\ Counters /\ Form /\ Screens

\* A listing of d on device v is asked for, answered or about to be shown.
UnderWay(v, d) ==
    \/ Msg("tree", v, d) \in BagToSet(cmds)
    \/ \E k \in Conns : Msg("tree", v, d) \in Elems(replies[k])
    \/ Msg("tree", v, d) = loop.msg
    \/ Msg("tree", v, d) \in BagToSet(inbox)
    \/ Msg("loaded", v, d) \in BagToSet(inbox)

ShowsCurrent == shown.nodes \in Listing(device, cur) /\ (shown.up <=> cur # Root)

\* The directories above d, as far as ParentMap knows them, are d's parents, and
\* it knows them up to the root.
WayUp ==
    /\ \A d \in Dirs : parentMap[d] \in {None, Parent[d]}
    /\ \A d \in Dirs : parentMap[d] \in Dirs => parentMap[parentMap[d]] # None
    /\ cur # Root => parentMap[cur] # None

TreeInv ==
    screen = "detail" /\ ~astray =>
        /\ \A v \in Devices, d \in Folders : UnderWay(v, d) => v = device /\ d = cur
        /\ UnderWay(device, cur) \/ ShowsCurrent
        /\ WayUp

-----------------------------------------------------------------------------
(* Bags: adding one copy of each element of a set, taking one copy away.     *)
LEMMA AddsFacts ==
    ASSUME NEW bag, NEW S, IsABag(bag)
    PROVE  /\ IsABag(Adds(bag, S))
           /\ BagToSet(Adds(bag, S)) = BagToSet(bag) \union S
           /\ \A x : Copies(x, Adds(bag, S)) = Copies(x, bag) + (IF x \in S THEN 1 ELSE 0)
<1> DEFINE sum == Adds(bag, S)
<1>1. DOMAIN sum = DOMAIN bag \union S
    BY DEF Adds, (+), SetToBag
<1>2. \A x \in DOMAIN bag : bag[x] \in Nat /\ bag[x] > 0
    BY DEF IsABag
<1>3. \A x \in DOMAIN sum : sum[x] = (IF x \in DOMAIN bag THEN bag[x] ELSE 0) + (IF x \in S THEN 1 ELSE 0)
    BY DEF Adds, (+), SetToBag
<1>4. sum = [x \in DOMAIN sum |-> sum[x]]
    BY DEF Adds, (+)
<1> HIDE DEF sum
<1>5. \A x \in DOMAIN sum : sum[x] \in Nat /\ sum[x] > 0
    BY <1>1, <1>2, <1>3
<1>6. IsABag(sum)
    BY <1>4, <1>5 DEF IsABag
<1>7. \A x : Copies(x, sum) = Copies(x, bag) + (IF x \in S THEN 1 ELSE 0)
    BY <1>1, <1>2, <1>3 DEF Copies, BagIn, BagToSet
<1>8. QED
    BY <1>1, <1>6, <1>7 DEF sum, BagToSet

(* The other elements keep their copies.                                     *)
LEMMA TakesFacts ==
    ASSUME NEW bag, NEW x, IsABag(bag), x \in BagToSet(bag)
    PROVE  /\ IsABag(Takes(bag, x))
           /\ BagToSet(Takes(bag, x)) \subseteq BagToSet(bag)
           /\ BagToSet(bag) \subseteq BagToSet(Takes(bag, x)) \union {x}
           /\ Copies(x, Takes(bag, x)) = Copies(x, bag) - 1
           /\ \A y : y # x => Copies(y, Takes(bag, x)) = Copies(y, bag)
<1> DEFINE D == {d \in DOMAIN bag : (IF d = x THEN bag[d] - 1 ELSE bag[d]) > 0}
           rest == [d \in D |-> IF d = x THEN bag[d] - 1 ELSE bag[d]]
<1>1. Takes(bag, x) = rest
    BY DEF Takes, (-), SetToBag
<1>2. \A d \in DOMAIN bag : bag[d] \in Nat /\ bag[d] > 0
    BY DEF IsABag
<1>3. IsABag(rest)
    BY <1>2 DEF IsABag
<1>4. x \in DOMAIN bag
    BY DEF BagToSet
<1>5. DOMAIN rest \subseteq DOMAIN bag /\ DOMAIN bag \subseteq DOMAIN rest \union {x}
    BY <1>2
<1>6. Copies(x, rest) = Copies(x, bag) - 1
    BY <1>2, <1>4 DEF Copies, BagIn, BagToSet
<1>7. \A y : y # x => Copies(y, rest) = Copies(y, bag)
    BY <1>2 DEF Copies, BagIn, BagToSet
<1> HIDE DEF rest
<1>8. QED
    BY <1>1, <1>3, <1>5, <1>6, <1>7 DEF BagToSet

(* A bag has no negative copies.                                             *)
LEMMA CopiesNat ==
    ASSUME NEW bag, NEW x, IsABag(bag)
    PROVE  Copies(x, bag) \in Nat /\ (x \in BagToSet(bag) <=> Copies(x, bag) > 0)
BY DEF IsABag, Copies, BagIn, BagToSet

(* The empty bag.                                                            *)
LEMMA EmptyBagFacts == IsABag(EmptyBag) /\ BagToSet(EmptyBag) = {} /\ \A x : Copies(x, EmptyBag) = 0
BY DEF EmptyBag, SetToBag, IsABag, BagToSet, Copies, BagIn

(* What connects, and what else the messages are.                            *)
LEMMA MessageFacts ==
    /\ \A m \in Reply : m.op \in Server /\ m # NoMsg
    /\ \A m \in Request : m.op = "connect" => m.a \in {"token", "denied"} /\ m = Msg("connect", m.a, None)
    /\ \A m \in Request : m.op \in {"hello", "login"} => m.a \in {"token", "denied"}
    /\ \A m \in Request \union Message : m.op \in {"tree", "loaded"} => m.a \in Devices /\ m.b \in Folders
    /\ \A m \in Message : m.op \in Server => m \in Reply
    /\ \A m \in Message : m.op = "selected" => m.a \in Devices
    /\ Reply \subseteq Message
BY DEF Reply, Request, Message, Server, NoMsg, Msg, Nil

(* A page holds children of the directory it is of.                          *)
LEMMA PageOfChildren ==
    ASSUME NEW v, NEW d, NEW S \in Listing(v, d)
    PROVE  S \subseteq Dirs /\ \A e \in S : Parent[e] = d
<1>1. S \subseteq Children(v, d)
    BY DEF Listing
<1>2. QED
    BY <1>1 DEF Children

(* What the screen may show of a listing.                                    *)
LEMMA ShownOfListing ==
    ASSUME NEW m, NEW s \in NodesShown(m)
    PROVE  s.nodes \in Listing(m.a, m.b) /\ (s.up <=> cur # Root) /\ s \in [nodes : SUBSET Dirs, up : BOOLEAN]
<1>1. s \in [nodes : Listing(m.a, m.b), up : {cur # Root}]
    BY DEF NodesShown
<1>2. Listing(m.a, m.b) \subseteq SUBSET Dirs
    BY PageOfChildren
<1>3. s.nodes \in Listing(m.a, m.b) /\ s.up = (cur # Root) /\ s = [nodes |-> s.nodes, up |-> s.up]
    BY <1>1
<1>4. s.up \in BOOLEAN
    BY <1>3
<1>5. QED
    BY <1>2, <1>3, <1>4

-----------------------------------------------------------------------------
(* TypeInv.                                                                  *)
LEMMA TypeInvTypes == TypeInv => TypeOK
<1> SUFFICES ASSUME TypeInv
             PROVE  TypeOK
    OBVIOUS
<1> USE ConsoleAssumption DEF TypeInv
<1>1. conn \in {0} \union Conns
  <2>1. Copies(Msg("connect", "token", None), cmds) \in Nat /\ Copies(Msg("connect", "denied", None), cmds) \in Nat
      BY CopiesNat DEF Goroutines
  <2>2. QED
      BY <2>1 DEF OwnLogin, Counters, Conns
<1>2. \A k \in Conns : \A i \in DOMAIN replies[k] : replies[k][i].op \in Server
  <2> SUFFICES ASSUME NEW k \in Conns, NEW i \in DOMAIN replies[k]
               PROVE  replies[k][i].op \in Server
      OBVIOUS
  <2>1. replies[k] \in Seq(Reply)
      BY DEF Wire
  <2>2. replies[k][i] \in Reply
      BY <2>1
  <2>3. QED
      BY <2>2, MessageFacts
<1>3. loop.st \in {"off", "next", "reading", "holding", "exited"} /\ loop.conn \in {0} \union Conns
    BY DEF Wire
<1>4. /\ form.state \in {"selecting", "filling"} /\ form.cmd \in DOMAIN Fields
      /\ form.focused \in 0..(Fields[form.cmd] + 1)
    BY DEF Form
<1>5. parentMap \in [Dirs \union {Up} -> Dirs \union {Root, None}]
  <2>1. Folders \union {None} = Dirs \union {Root, None}
      BY DEF Folders
  <2>2. QED
      BY <2>1 DEF Screens
<1>6. cur \in Dirs \union {Root}
    BY DEF Screens, Folders
<1>7. QED
    BY <1>1, <1>2, <1>3, <1>4, <1>5, <1>6, Zenon DEF TypeOK, Goroutines, Counters, Screens

(* The connection in use is one of the numbered ones.                        *)
LEMMA ConnBound ==
    ASSUME TypeInv
    PROVE  conn \in Nat /\ conn <= MaxLogins /\ (conn # 0 => conn \in Conns)
<1>1. Copies(Msg("connect", "token", None), cmds) \in Nat /\ Copies(Msg("connect", "denied", None), cmds) \in Nat
    BY CopiesNat DEF TypeInv, Goroutines
<1>2. QED
    BY <1>1, ConsoleAssumption DEF TypeInv, OwnLogin, Counters, Conns

(* Before the first login there is no connection, and all is empty.         *)
LEMMA TypeInit == Init => TypeInv
<1> SUFFICES ASSUME Init
             PROVE  TypeInv
    OBVIOUS
<1> USE ConsoleAssumption DEF Init
<1>1. Wire
  <2>1. NoMsg \notin Reply
      BY MessageFacts
  <2>2. <<>> \in Seq(Reply)
      BY EmptySeq
  <2>3. QED
      BY <2>1, <2>2, Zenon DEF Wire, NoLoop
<1>2. Goroutines /\ OwnLogin
  <2>1. Goroutines
      BY EmptyBagFacts, Zenon DEF Goroutines
  <2>2. OwnLogin
      BY EmptyBagFacts DEF OwnLogin
  <2>3. QED
      BY <2>1, <2>2
<1>3. Unconnected
    BY EmptyBagFacts DEF Unconnected, NoLoop
<1>4. Counters
    BY DEF Counters
<1>5. Form
  <2>1. NewForm.cmd \in DOMAIN Fields
      BY DEF NewForm
  <2>2. QED
      BY <2>1 DEF Form, NewForm
<1>6. Screens
    BY DEF Screens, NoParents, Blank, Folders
<1>7. QED
    BY <1>1, <1>2, <1>3, <1>4, <1>5, <1>6 DEF TypeInv

(* receiveLoop and breaking connections.                                     *)
LEMMA RunningTyped ==
    ASSUME TypeInv, Running
    PROVE  TypeInv'
<1> USE ConsoleAssumption DEF TypeInv
<1>0. conn # 0
    BY DEF Running, loop_reads, RecvProtocolMessage, WaitForMsg, Unconnected
<1>1. conn \in Conns
    BY <1>0, ConnBound
<1>2. NoMsg \notin Reply
    BY MessageFacts
<1>3. CASE loop_reads
  <2>1. loop' = [loop EXCEPT !.st = "reading", !.conn = conn]
      BY <1>3 DEF loop_reads
  <2>2. Wire'
      BY <1>0, <1>1, <1>2, <1>3, <2>1 DEF loop_reads, Wire
  <2>3. Goroutines' /\ OwnLogin' /\ Counters' /\ Form' /\ Screens'
      BY <1>3 DEF loop_reads, teaVars, treeVars, Goroutines, OwnLogin, Counters, Form, Screens
  <2>4. Unconnected'
      BY <1>0, <1>3 DEF loop_reads, Unconnected
  <2>5. QED
      BY <2>2, <2>3, <2>4
<1>4. CASE RecvProtocolMessage
  <2> DEFINE k == loop.conn
  <2>1. k \in Conns /\ replies[k] \in Seq(Reply) /\ loop.st = "reading" /\ loop.msg = NoMsg
      BY <1>4 DEF RecvProtocolMessage, Wire
  <2>2. Goroutines' /\ OwnLogin' /\ Counters' /\ Form' /\ Screens'
      BY <1>4 DEF RecvProtocolMessage, teaVars, treeVars, Goroutines, OwnLogin, Counters, Form, Screens
  <2>3. Unconnected'
      BY <1>0, <1>4 DEF RecvProtocolMessage, Unconnected
  <2>4. ASSUME NEW m \in Reply, loop' = [loop EXCEPT !.st = "holding", !.msg = m],
               replies' \in [Conns -> Seq(Reply)]
        PROVE  Wire'
      BY <1>2, <2>4 DEF Wire
  <2>5. CASE /\ replies[k] # <<>>
             /\ loop' = [loop EXCEPT !.st = "holding", !.msg = Head(replies[k])]
             /\ replies' = [replies EXCEPT ![k] = Tail(@)]
    <3>1. Head(replies[k]) \in Reply /\ Tail(replies[k]) \in Seq(Reply)
        BY <2>1, <2>5, HeadTailElems
    <3>2. replies' \in [Conns -> Seq(Reply)]
        BY <2>1, <2>5, <3>1 DEF Wire
    <3>3. Wire'
        BY <2>4, <2>5, <3>1, <3>2
    <3>4. QED
        BY <2>2, <2>3, <3>3
  <2>6. CASE loop' = [loop EXCEPT !.st = "holding", !.msg = Msg("lost", None, None)] /\ replies' = replies
    <3>1. Msg("lost", None, None) \in Reply
        BY DEF Msg, Reply, Server, Nil
    <3>2. Wire'
        BY <2>4, <2>6, <3>1 DEF Wire
    <3>3. QED
        BY <2>2, <2>3, <3>2
  <2>7. QED
      BY <1>4, <2>5, <2>6 DEF RecvProtocolMessage
<1>5. CASE WaitForMsg
  <2>1. loop.msg \in Reply /\ loop.st = "holding" /\ waiters > 0
      BY <1>5, <1>2 DEF WaitForMsg, Wire
  <2>2. Wire'
      BY <1>5, <1>2 DEF WaitForMsg, Wire
  <2>3. IsABag(inbox') /\ BagToSet(inbox') = BagToSet(inbox) \union {loop.msg}
      BY <1>5, AddsFacts DEF WaitForMsg, Goroutines
  <2>4. Goroutines'
      BY <1>5, <2>1, <2>3, MessageFacts DEF WaitForMsg, Goroutines
  <2>5. OwnLogin' /\ Form' /\ Screens'
      BY <1>5 DEF WaitForMsg, treeVars, OwnLogin, Form, Screens
  <2>6. Counters'
      BY <1>5 DEF WaitForMsg, Counters
  <2>7. Unconnected'
      BY <1>0, <1>5 DEF WaitForMsg, Unconnected
  <2>8. QED
      BY <2>2, <2>4, <2>5, <2>6, <2>7
<1>6. QED
    BY <1>3, <1>4, <1>5 DEF Running

(* A connection breaks.                                                      *)
LEMMA BreaksTyped ==
    ASSUME TypeInv, NEW k \in Conns, breaks(k)
    PROVE  TypeInv'
<1> USE ConsoleAssumption DEF TypeInv
<1>1. Wire'
  <2>1. replies' \in [Conns -> Seq(Reply)]
      BY EmptySeq DEF breaks, Wire
  <2>2. QED
      BY <2>1 DEF breaks, Wire
<1>2. Goroutines' /\ OwnLogin' /\ Form'
    BY DEF breaks, teaVars, Goroutines, OwnLogin, Form
<1>3. Counters'
    BY DEF breaks, Counters, teaVars
<1>4. Unconnected'
    BY DEF breaks, Unconnected, teaVars
<1>5. Screens'
  <2>1. astray' \in BOOLEAN
      BY Zenon DEF breaks
  <2>2. QED
      BY <2>1 DEF breaks, Screens, treeVars
<1>6. QED
    BY <1>1, <1>2, <1>3, <1>4, <1>5

(* The goroutine of a request.                                               *)
LEMMA RunsTyped ==
    ASSUME TypeInv, NEW c \in BagToSet(cmds), Runs(c)
    PROVE  TypeInv'
<1> USE ConsoleAssumption DEF TypeInv
<1> DEFINE T == Msg("connect", "token", None)
           D == Msg("connect", "denied", None)
<1>1. c \in Request /\ IsABag(cmds) /\ IsABag(inbox)
    BY DEF Goroutines
<1>2. UNCHANGED <<screen, waiters, logins, keys, listed, treeVars, focus, form>>
    BY DEF Runs
<1>3. /\ IsABag(Takes(cmds, c)) /\ BagToSet(Takes(cmds, c)) \subseteq BagToSet(cmds)
      /\ Copies(c, Takes(cmds, c)) = Copies(c, cmds) - 1
      /\ \A y : y # c => Copies(y, Takes(cmds, c)) = Copies(y, cmds)
    BY <1>1, TakesFacts
<1>4. /\ Copies(T, cmds) \in Nat /\ Copies(D, cmds) \in Nat /\ Copies(c, cmds) \in Nat
      /\ Copies(T, Takes(cmds, c)) \in Nat /\ Copies(D, Takes(cmds, c)) \in Nat
      /\ Copies(c, cmds) > 0
    BY <1>1, <1>3, CopiesNat
<1>5. Form'
    BY <1>2 DEF Form
<1>6. T # D
    BY DEF Msg
<1>7. CASE Connect(c)
  <2>1. Wire' /\ Screens'
    <3>1. Wire'
        BY <1>7 DEF Connect, Wire
    <3>2. Screens'
        BY <1>2, <1>7 DEF Connect, Screens, treeVars
    <3>3. QED
        BY <3>1, <3>2
  <2>2. c = T \/ c = D
      BY <1>1, <1>7, MessageFacts DEF Connect
  <2>3. Copies(T, Takes(cmds, c)) + Copies(D, Takes(cmds, c)) = Copies(T, cmds) + Copies(D, cmds) - 1
      BY <1>3, <1>4, <1>6, <2>2
  <2> HIDE DEF T, D
  <2>4. CASE conn' = conn + 1 /\ cmds' = Adds(Takes(cmds, c), {Msg("hello", c.a, None)})
    <3>1. Msg("hello", c.a, None) \in Request /\ T # Msg("hello", c.a, None) /\ D # Msg("hello", c.a, None)
        BY <1>1, <1>7, MessageFacts DEF Connect, Request, Msg, Nil, T, D
    <3>2. /\ IsABag(cmds') /\ BagToSet(cmds') = BagToSet(Takes(cmds, c)) \union {Msg("hello", c.a, None)}
          /\ Copies(T, cmds') = Copies(T, Takes(cmds, c)) /\ Copies(D, cmds') = Copies(D, Takes(cmds, c))
        BY <1>3, <1>4, <2>4, <3>1, AddsFacts
    <3>3. Goroutines'
        BY <1>3, <1>7, <3>1, <3>2 DEF Goroutines, Connect
    <3>4. OwnLogin'
      <4>1. conn + Copies(T, cmds) + Copies(D, cmds) <= logins
          BY DEF OwnLogin, T, D
      <4>2. conn' + Copies(T, cmds') + Copies(D, cmds') <= logins'
          BY <1>2, <1>4, <2>3, <2>4, <3>2, <4>1 DEF Counters
      <4>3. QED
          BY <4>2 DEF OwnLogin, T, D
    <3>5. Counters' /\ conn' # 0
        BY <1>2, <1>7, <2>4 DEF Connect, Counters
    <3>6. Unconnected'
        BY <3>5 DEF Unconnected
    <3>7. QED
        BY <1>5, <2>1, <3>3, <3>4, <3>5, <3>6
  <2>5. CASE cmds' = Takes(cmds, c) /\ conn' = conn
    <3>1. Goroutines'
        BY <1>3, <1>7, <2>5 DEF Goroutines, Connect
    <3>2. OwnLogin'
      <4>1. conn + Copies(T, cmds) + Copies(D, cmds) <= logins
          BY DEF OwnLogin, T, D
      <4>2. conn' + Copies(T, cmds') + Copies(D, cmds') <= logins'
          BY <1>2, <1>4, <2>3, <2>5, <4>1 DEF Counters
      <4>3. QED
          BY <4>2 DEF OwnLogin, T, D
    <3>3. Counters'
        BY <1>2, <1>7, <2>5 DEF Connect, Counters
    <3>4. Unconnected'
        BY <1>2, <1>3, <1>7, <2>5 DEF Connect, Unconnected
    <3>5. QED
        BY <1>5, <2>1, <3>1, <3>2, <3>3, <3>4
  <2>6. QED
      BY <1>7, <2>4, <2>5 DEF Connect
<1>8. CASE SendCommand(c)
  <2>1. conn' = conn /\ broken' = broken /\ cmds' = Takes(cmds, c) /\ c.op # "connect"
      BY <1>8 DEF SendCommand
  <2>2. conn # 0
      BY <2>1 DEF Unconnected
  <2>3. conn \in Conns
      BY <2>2, ConnBound
  <2>4. \A r \in Answers(c) : r \in Reply
    <3>1. c.op \in {"login", "list", "tree", "send"}
        BY <1>8 DEF SendCommand
    <3>2. c.op = "login" => c.a \in {"token", "denied"}
        BY <1>1, MessageFacts
    <3>3. c.op = "tree" => c.a \in Devices /\ c.b \in Folders
        BY <1>1, MessageFacts
    <3>4. QED
        BY <3>1, <3>2, <3>3 DEF Answers, Msg, Reply, Server, Nil
  <2>5. replies' \in [Conns -> Seq(Reply)]
    <3>1. replies[conn] \in Seq(Reply)
        BY <2>3 DEF Wire
    <3>2. ASSUME NEW r \in Reply, replies' = [replies EXCEPT ![conn] = Append(@, r)]
          PROVE  replies' \in [Conns -> Seq(Reply)]
      <4>1. Append(replies[conn], r) \in Seq(Reply)
          BY <3>1, AppendElems
      <4>2. QED
          BY <2>3, <3>2, <4>1 DEF Wire
    <3>3. CASE replies' = replies
        BY <3>3 DEF Wire
    <3>4. QED
        BY <1>8, <2>4, <3>2, <3>3 DEF SendCommand
  <2>6. loop' = loop
      BY <1>8 DEF SendCommand
  <2>7. Wire'
      BY <2>5, <2>6 DEF Wire
  <2>8. inbox' = inbox \/ inbox' = Adds(inbox, {Msg("submitted", None, None)})
      BY <1>8 DEF SendCommand
  <2>9. Msg("submitted", None, None) \in Message
      BY DEF Msg, Message, Nil
  <2>10. IsABag(inbox') /\ BagToSet(inbox') \subseteq Message
    <3>1. CASE inbox' = inbox
        BY <3>1 DEF Goroutines
    <3>2. CASE inbox' = Adds(inbox, {Msg("submitted", None, None)})
        BY <1>1, <2>9, <3>2, AddsFacts DEF Goroutines
    <3>3. QED
        BY <2>8, <3>1, <3>2
  <2>11. Goroutines'
      BY <1>3, <2>1, <2>10 DEF Goroutines
  <2>12. c # T /\ c # D
      BY <2>1 DEF Msg
  <2> HIDE DEF T, D
  <2>13. OwnLogin'
    <3>1. Copies(T, cmds') = Copies(T, cmds) /\ Copies(D, cmds') = Copies(D, cmds)
        BY <1>3, <2>1, <2>12
    <3>2. QED
        BY <1>2, <2>1, <3>1 DEF OwnLogin, T, D
  <2>14. Counters' /\ Unconnected'
      BY <1>2, <2>1, <2>2 DEF Counters, Unconnected
  <2>15. Screens'
    <3>1. astray' \in BOOLEAN
        BY <1>8, Zenon DEF SendCommand
    <3>2. QED
        BY <1>2, <3>1 DEF Screens, treeVars
  <2>16. QED
      BY <1>5, <2>7, <2>11, <2>13, <2>14, <2>15
<1>9. CASE Login(c)
  <2>1. UNCHANGED <<conn, broken, replies, inbox, astray>> /\ c.op = "hello"
      BY <1>9 DEF Login
  <2>2. conn # 0
      BY <2>1 DEF Unconnected
  <2>3. loop' = loop \/ (loop.st = "off" /\ loop' = [loop EXCEPT !.st = "next"])
      BY <1>9 DEF Login
  <2>4. Wire'
      BY <2>1, <2>3 DEF Wire
  <2>5. /\ c # T /\ c # D /\ Msg("login", c.a, None) \in Request
        /\ T # Msg("login", c.a, None) /\ D # Msg("login", c.a, None)
      BY <1>1, <2>1, MessageFacts DEF Request, Msg, Nil
  <2> HIDE DEF T, D
  <2>6. Goroutines' /\ Copies(T, cmds') = Copies(T, cmds) /\ Copies(D, cmds') = Copies(D, cmds)
    <3>1. CASE cmds' = Takes(cmds, c)
        BY <1>3, <2>1, <2>5, <3>1 DEF Goroutines
    <3>2. CASE cmds' = Adds(Takes(cmds, c), {Msg("login", c.a, None)})
      <4>1. /\ IsABag(cmds') /\ BagToSet(cmds') = BagToSet(Takes(cmds, c)) \union {Msg("login", c.a, None)}
            /\ Copies(T, cmds') = Copies(T, Takes(cmds, c)) /\ Copies(D, cmds') = Copies(D, Takes(cmds, c))
          BY <1>3, <1>4, <2>5, <3>2, AddsFacts
      <4>2. QED
          BY <1>3, <2>1, <2>5, <4>1 DEF Goroutines
    <3>3. QED
        BY <1>9, <3>1, <3>2 DEF Login
  <2>7. OwnLogin'
      BY <1>2, <2>1, <2>6 DEF OwnLogin, T, D
  <2>8. Counters' /\ Unconnected'
      BY <1>2, <2>1, <2>2 DEF Counters, Unconnected
  <2>9. Screens'
      BY <1>2, <2>1 DEF Screens, treeVars
  <2>10. QED
      BY <1>5, <2>4, <2>6, <2>7, <2>8, <2>9
<1>10. QED
    BY <1>7, <1>8, <1>9 DEF Runs

(* Handled: a message leaves the inbox, others and requests join.            *)
LEMMA HandledFacts ==
    ASSUME Goroutines, NEW m \in BagToSet(inbox), NEW msgs \in SUBSET Message, NEW reqs \in SUBSET Request,
           NEW w, Handled(m, msgs, reqs, w)
    PROVE  /\ Goroutines'
           /\ BagToSet(inbox') \subseteq BagToSet(inbox) \union msgs
           /\ BagToSet(inbox) \subseteq BagToSet(inbox') \union {m}
           /\ msgs \subseteq BagToSet(inbox')
           /\ BagToSet(cmds') = BagToSet(cmds) \union reqs
           /\ \A x : x \notin reqs => Copies(x, cmds') = Copies(x, cmds)
<1>1. /\ IsABag(inbox) /\ IsABag(cmds)
      /\ BagToSet(inbox) \subseteq Message /\ BagToSet(cmds) \subseteq Request
    BY DEF Goroutines
<1>2. /\ IsABag(Takes(inbox, m)) /\ BagToSet(Takes(inbox, m)) \subseteq BagToSet(inbox)
      /\ BagToSet(inbox) \subseteq BagToSet(Takes(inbox, m)) \union {m}
    BY <1>1, TakesFacts
<1>3. inbox' = Adds(Takes(inbox, m), msgs) /\ cmds' = Adds(cmds, reqs)
    BY DEF Handled
<1>4. IsABag(inbox') /\ BagToSet(inbox') = BagToSet(Takes(inbox, m)) \union msgs
    BY <1>2, <1>3, AddsFacts
<1>5. /\ IsABag(cmds') /\ BagToSet(cmds') = BagToSet(cmds) \union reqs
      /\ \A x : Copies(x, cmds') = Copies(x, cmds) + (IF x \in reqs THEN 1 ELSE 0)
    BY <1>1, <1>3, AddsFacts
<1>6. \A x : Copies(x, cmds) \in Nat
    BY <1>1, CopiesNat
<1>7. \A x : x \notin reqs => Copies(x, cmds') = Copies(x, cmds)
    BY <1>5, <1>6
<1>8. QED
    BY <1>1, <1>2, <1>4, <1>5, <1>7 DEF Goroutines

(* What Update and the keys add is no login.                                 *)
LEMMA RequestsMade ==
    /\ Online \in Request /\ Online.op = "list"
    /\ \A v \in Devices, d \in Folders : Tree(v, d) \in Request /\ Tree(v, d).op = "tree"
    /\ \A v \in Devices : Msg("send", v, None) \in Request
    /\ \A x \in Request : x.op # "connect" =>
          x # Msg("connect", "token", None) /\ x # Msg("connect", "denied", None)
BY DEF Online, Tree, Msg, Request, Nil

(* Update.                                                                   *)
LEMMA UpdateTyped ==
    ASSUME TypeInv, NEW m \in BagToSet(inbox), Update(m)
    PROVE  TypeInv'
<1> USE ConsoleAssumption DEF TypeInv
<1>1. m \in Message
    BY DEF Goroutines
<1>2. UNCHANGED <<conn, broken, replies, loop, logins, keys>>
    BY DEF Update, netVars
<1>3. conn # 0
    BY DEF Unconnected
<1>4. Wire'
    BY <1>2 DEF Wire
<1>5. Unconnected'
    BY <1>2, <1>3 DEF Unconnected
<1>6. ASSUME NEW msgs \in SUBSET Message, NEW reqs \in SUBSET Request, NEW w \in Nat,
             Handled(m, msgs, reqs, w), \A x \in reqs : x.op # "connect"
      PROVE  Goroutines' /\ OwnLogin' /\ Counters'
  <2>1. Goroutines' /\ \A x : x \notin reqs => Copies(x, cmds') = Copies(x, cmds)
      BY <1>6, HandledFacts
  <2>2. Msg("connect", "token", None) \notin reqs /\ Msg("connect", "denied", None) \notin reqs
      BY <1>6, RequestsMade
  <2>3. OwnLogin'
      BY <1>2, <2>1, <2>2 DEF OwnLogin
  <2>4. waiters' = waiters + w
      BY <1>6 DEF Handled
  <2>5. Counters'
      BY <1>2, <2>4 DEF Counters
  <2>6. QED
      BY <2>1, <2>3, <2>5
<1>7. {} \in SUBSET Message /\ {} \in SUBSET Request /\ {Online} \in SUBSET Request
    BY RequestsMade
<1>8. CASE login_Update(m)
  <2>1. Form'
      BY <1>8 DEF login_Update, Form
  <2>2. Screens'
      BY <1>8 DEF login_Update, Screens, treeVars
  <2>3. Goroutines' /\ OwnLogin' /\ Counters'
    <3>1. CASE Handled(m, {}, {Online}, 1)
        BY <1>6, <1>7, <3>1, RequestsMade
    <3>2. CASE Handled(m, {}, {}, LoginWaits(m))
      <4>1. LoginWaits(m) \in Nat
          BY DEF LoginWaits
      <4>2. QED
          BY <1>6, <1>7, <3>2, <4>1
    <3>3. QED
        BY <1>8, <3>1, <3>2 DEF login_Update
  <2>4. QED
      BY <1>4, <1>5, <2>1, <2>2, <2>3
<1>9. CASE dashboard_Update(m)
  <2>1. CASE m.op = "selected"
    <3>1. m.a \in Devices /\ Root \in Folders
        BY <1>1, <2>1, MessageFacts DEF Folders
    <3>2. /\ Handled(m, {}, {Tree(m.a, Root)}, 0)
          /\ screen' = "detail" /\ device' = m.a /\ cur' = Root
          /\ parentMap' = NoParents /\ shown' = Blank /\ focus' = "tree" /\ form' = NewForm
          /\ listed' = listed
        BY <1>9, <2>1 DEF dashboard_Update
    <3>3. Goroutines' /\ OwnLogin' /\ Counters'
      <4>1. Tree(m.a, Root) \in Request /\ Tree(m.a, Root).op # "connect"
          BY <3>1, RequestsMade
      <4>2. {Tree(m.a, Root)} \in SUBSET Request
          BY <4>1
      <4>3. QED
          BY <1>6, <1>7, <3>2, <4>1, <4>2
    <3>4. Form'
      <4>1. NewForm.cmd \in DOMAIN Fields
          BY DEF NewForm
      <4>2. QED
          BY <3>2, <4>1 DEF Form, NewForm
    <3>5. Screens'
      <4>1. astray' \in BOOLEAN
          BY <1>9, <2>1, Zenon DEF dashboard_Update, Outstanding
      <4>2. QED
          BY <3>1, <3>2, <4>1 DEF Screens, NoParents, Blank
    <3>6. QED
        BY <1>4, <1>5, <3>3, <3>4, <3>5
  <2>2. CASE m.op # "selected"
    <3>1. /\ Handled(m, {}, {}, IF m.op \in Server THEN 1 ELSE 0)
          /\ listed' = (listed \/ m.op = "devices")
          /\ UNCHANGED <<screen, treeVars, focus, form, astray>>
        BY <1>9, <2>2 DEF dashboard_Update
    <3>2. (IF m.op \in Server THEN 1 ELSE 0) \in Nat
        OBVIOUS
    <3>3. Goroutines' /\ OwnLogin' /\ Counters'
        BY <1>6, <1>7, <3>1, <3>2
    <3>4. Form'
        BY <3>1 DEF Form
    <3>5. listed' \in BOOLEAN
        BY <3>1, Zenon
    <3>6. Screens'
        BY <3>1, <3>5 DEF Screens, treeVars
    <3>7. QED
        BY <1>4, <1>5, <3>3, <3>4, <3>6
  <2>3. QED
      BY <2>1, <2>2
<1>10. CASE detail_Update(m)
  <2>1. UNCHANGED <<listed, device, cur, parentMap, focus, form, astray>>
      BY <1>10 DEF detail_Update
  <2>2. Form'
      BY <2>1 DEF Form
  <2>3. CASE m.op = "back"
    <3>1. Handled(m, {}, {Online}, 0) /\ screen' = "dashboard" /\ shown' = shown
        BY <1>10, <2>3 DEF detail_Update
    <3>2. Goroutines' /\ OwnLogin' /\ Counters'
        BY <1>6, <1>7, <3>1, RequestsMade
    <3>3. Screens'
        BY <2>1, <3>1 DEF Screens
    <3>4. QED
        BY <1>4, <1>5, <2>2, <3>2, <3>3
  <2>4. CASE m.op # "back"
    <3> DEFINE msgs == IF m.op = "tree" THEN {Msg("loaded", m.a, m.b)} ELSE {}
    <3>1. /\ Handled(m, msgs, {}, Rearmed(m))
          /\ shown' \in (IF m.op = "loaded" THEN NodesShown(m) ELSE {shown}) /\ screen' = screen
        BY <1>10, <2>4 DEF detail_Update
    <3>2. msgs \in SUBSET Message
      <4>1. m.op = "tree" => m.a \in Devices /\ m.b \in Folders
          BY <1>1, MessageFacts
      <4>2. m.op = "tree" => Msg("loaded", m.a, m.b) \in Message
          BY <4>1 DEF Msg, Message
      <4>3. QED
          BY <4>2
    <3> HIDE DEF msgs
    <3>3. Rearmed(m) \in Nat
        BY DEF Rearmed
    <3>4. Goroutines' /\ OwnLogin' /\ Counters'
        BY <1>6, <1>7, <3>1, <3>2, <3>3
    <3>5. shown' \in [nodes : SUBSET Dirs, up : BOOLEAN]
      <4>1. CASE m.op = "loaded"
          BY <3>1, <4>1, ShownOfListing
      <4>2. CASE m.op # "loaded"
          BY <3>1, <4>2 DEF Screens
      <4>3. QED
          BY <4>1, <4>2
    <3>6. Screens'
        BY <2>1, <3>1, <3>5 DEF Screens
    <3>7. QED
        BY <1>4, <1>5, <2>2, <3>4, <3>6
  <2>5. QED
      BY <2>3, <2>4
<1>11. QED
    BY <1>8, <1>9, <1>10 DEF Update

(* One more key or login stays within the bounds.                            *)
LEMMA OneMore ==
    ASSUME TypeInv, MoreEvents
    PROVE  keys + 1 \in 0..MaxEvents
<1>1. IsFiniteSet(broken)
  <2>1. IsFiniteSet(Conns)
    <3>1. MaxLogins \in Int
        BY ConsoleAssumption
    <3>2. QED
        BY <3>1, FS_Interval DEF Conns
  <2>2. QED
      BY <2>1, FS_Subset DEF TypeInv, Counters
<1>2. Cardinality(broken) \in Nat
    BY <1>1, FS_CardinalityType
<1>3. QED
    BY <1>2, ConsoleAssumption DEF TypeInv, Counters, MoreEvents

(* One more request, which is no login.                                      *)
LEMMA OneRequest ==
    ASSUME Goroutines, OwnLogin, NEW x \in Request, x.op # "connect", cmds' = Adds(cmds, {x}),
           UNCHANGED <<inbox, conn, logins>>
    PROVE  Goroutines' /\ OwnLogin' /\ BagToSet(cmds') = BagToSet(cmds) \union {x}
<1>1. /\ IsABag(cmds') /\ BagToSet(cmds') = BagToSet(cmds) \union {x}
      /\ \A y : Copies(y, cmds') = Copies(y, cmds) + (IF y \in {x} THEN 1 ELSE 0)
    BY AddsFacts DEF Goroutines
<1>2. Goroutines'
    BY <1>1 DEF Goroutines
<1>3. \A y : Copies(y, cmds) \in Nat
    BY CopiesNat DEF Goroutines
<1> DEFINE T == Msg("connect", "token", None)
           D == Msg("connect", "denied", None)
<1>4. T # x /\ D # x
    BY RequestsMade
<1> HIDE DEF T, D
<1>5. Copies(T, cmds') = Copies(T, cmds) /\ Copies(D, cmds') = Copies(D, cmds)
  <2>1. \A y : y # x => Copies(y, cmds') = Copies(y, cmds) + 0
      BY <1>1
  <2>2. Copies(T, cmds) \in Nat /\ Copies(D, cmds) \in Nat
      BY <1>3
  <2>3. Copies(T, cmds') = Copies(T, cmds) + 0 /\ Copies(D, cmds') = Copies(D, cmds) + 0
      BY <1>4, <2>1
  <2>4. QED
      BY <2>2, <2>3
<1>6. OwnLogin'
    BY <1>5 DEF OwnLogin, T, D
<1>7. QED
    BY <1>1, <1>2, <1>6

(* A message of the console's own.                                           *)
LEMMA OneMessage ==
    ASSUME Goroutines, NEW x \in Message, inbox' = Adds(inbox, {x}), UNCHANGED cmds
    PROVE  Goroutines' /\ BagToSet(inbox') = BagToSet(inbox) \union {x}
<1>1. IsABag(inbox') /\ BagToSet(inbox') = BagToSet(inbox) \union {x}
    BY AddsFacts DEF Goroutines
<1>2. QED
    BY <1>1 DEF Goroutines

(* Enter on the login screen.                                                *)
LEMMA SubmitTyped ==
    ASSUME TypeInv, submit_login
    PROVE  TypeInv'
<1> USE ConsoleAssumption DEF TypeInv
<1>1. PICK answer \in {"token", "denied"} : cmds' = Adds(cmds, {Msg("connect", answer, None)})
    BY DEF submit_login
<1> DEFINE x == Msg("connect", answer, None)
           T == Msg("connect", "token", None)
           D == Msg("connect", "denied", None)
<1>2. x \in Request /\ x.op = "connect" /\ (x = T \/ x = D) /\ T # D
    BY DEF Request, Msg, Nil
<1> HIDE DEF x, T, D
<1>3. /\ IsABag(cmds') /\ BagToSet(cmds') = BagToSet(cmds) \union {x}
      /\ \A y : Copies(y, cmds') = Copies(y, cmds) + (IF y \in {x} THEN 1 ELSE 0)
    BY <1>1, AddsFacts DEF Goroutines, x
<1>4. Copies(T, cmds) \in Nat /\ Copies(D, cmds) \in Nat
    BY CopiesNat DEF Goroutines
<1>5. Copies(T, cmds') + Copies(D, cmds') = Copies(T, cmds) + Copies(D, cmds) + 1
    BY <1>2, <1>3, <1>4
<1>6. OwnLogin'
  <2>1. conn' = conn /\ logins' = logins + 1 /\ conn \in Nat /\ logins \in Nat
      BY DEF submit_login, netVars, Counters
  <2>2. conn + Copies(T, cmds) + Copies(D, cmds) <= logins
      BY DEF OwnLogin, T, D
  <2>3. Copies(T, cmds') \in Nat /\ Copies(D, cmds') \in Nat
      BY <1>3, CopiesNat
  <2>4. conn' + Copies(T, cmds') + Copies(D, cmds') <= logins'
      BY <1>4, <1>5, <2>1, <2>2, <2>3
  <2>5. QED
      BY <2>4 DEF OwnLogin, T, D
<1>7. Wire' /\ Form' /\ Screens'
  <2>1. Wire'
      BY DEF submit_login, netVars, Wire
  <2>2. Form' /\ Screens'
      BY DEF submit_login, treeVars, Form, Screens
  <2>3. QED
      BY <2>1, <2>2
<1>8. Goroutines'
    BY <1>2, <1>3 DEF submit_login, Goroutines
<1>9. Counters'
    BY DEF submit_login, netVars, Counters
<1>10. Unconnected'
    BY <1>2, <1>3 DEF submit_login, netVars, Unconnected
<1>11. QED
    BY <1>6, <1>7, <1>8, <1>9, <1>10

(* Keys that leave the session and the screen alone: what remains is the     *)
(* inbox, the requests and the key itself.                                   *)
LEMMA KeyTyped ==
    ASSUME TypeInv, conn # 0, UNCHANGED <<conn, broken, replies, loop, waiters, logins>>,
           keys' = keys \/ Key, Goroutines', OwnLogin', Form', Screens'
    PROVE  TypeInv'
<1>1. Wire'
    BY DEF TypeInv, Wire
<1>2. keys' \in 0..MaxEvents
    BY OneMore DEF TypeInv, Counters, Key
<1>3. Counters'
    BY <1>2 DEF TypeInv, Counters
<1>4. Unconnected'
    BY DEF Unconnected
<1>5. QED
    BY <1>1, <1>3, <1>4 DEF TypeInv

(* Keys of the dashboard.                                                   *)
LEMMA DashboardTyped ==
    ASSUME TypeInv, dashboard_key
    PROVE  TypeInv'
<1> USE DEF TypeInv
<1>1. conn # 0 /\ UNCHANGED <<conn, broken, replies, loop, waiters, logins>> /\ Key
    BY DEF dashboard_key, netVars, Unconnected
<1>2. Form' /\ Screens'
    BY DEF dashboard_key, treeVars, Form, Screens
<1>3. Goroutines' /\ OwnLogin'
  <2>1. CASE cmds' = Adds(cmds, {Online}) /\ UNCHANGED inbox
      BY <1>1, <2>1, OneRequest, RequestsMade
  <2>2. ASSUME NEW d \in Devices, inbox' = Adds(inbox, {Msg("selected", d, None)}), UNCHANGED cmds
        PROVE  Goroutines' /\ OwnLogin'
    <3>1. Msg("selected", d, None) \in Message
        BY DEF Msg, Message, Nil
    <3>2. Goroutines'
        BY <2>2, <3>1, OneMessage
    <3>3. QED
        BY <1>1, <2>2, <3>2 DEF OwnLogin
  <2>3. QED
      BY <2>1, <2>2 DEF dashboard_key
<1>4. QED
    BY <1>1, <1>2, <1>3, KeyTyped

(* Esc and Tab.                                                              *)
LEMMA EscTyped ==
    ASSUME TypeInv, esc \/ change_focus
    PROVE  TypeInv'
<1> USE DEF TypeInv
<1>1. conn # 0 /\ UNCHANGED <<conn, broken, replies, loop, waiters, logins, cmds>> /\ Key
    BY DEF esc, change_focus, netVars, teaVars, Unconnected
<1>2. Form' /\ Screens'
    BY DEF esc, change_focus, treeVars, Form, Screens
<1>3. OwnLogin'
    BY <1>1 DEF OwnLogin
<1>4. Goroutines'
  <2>1. Msg("back", None, None) \in Message
      BY DEF Msg, Message, Nil
  <2>2. CASE esc
      BY <1>1, <2>1, <2>2, OneMessage DEF esc
  <2>3. CASE change_focus
      BY <2>3 DEF change_focus, teaVars, Goroutines
  <2>4. QED
      BY <2>2, <2>3
<1>5. QED
    BY <1>1, <1>2, <1>3, <1>4, KeyTyped

(* Keys on the tree.                                                         *)
LEMMA TreeKeysTyped ==
    ASSUME TypeInv, enter_up \/ backspace \/ \E d \in Dirs : enter_dir(d)
    PROVE  TypeInv'
<1> USE ConsoleAssumption DEF TypeInv
<1>1. OnTree
    BY DEF enter_up, backspace, enter_dir
<1>2. /\ conn # 0 /\ UNCHANGED <<conn, broken, replies, loop, waiters, inbox, logins>> /\ Key
      /\ UNCHANGED <<screen, listed, device, shown, focus, form>> /\ screen = "detail"
    BY <1>1 DEF OnTree, netVars, Unconnected
<1>3. Form'
    BY <1>2 DEF Form
<1>4. astray' \in BOOLEAN
    BY <1>1, Zenon DEF OnTree
<1>5. \A d \in Dirs \union {Up} : ParentOf(parentMap, d) \in Folders
    BY DEF ParentOf, Screens, Folders
<1>6. cur' \in Folders /\ parentMap' \in [Dirs \union {Up} -> Folders \union {None}]
  <2>1. cur \in Folders /\ (cur # Root => cur \in Dirs)
      BY DEF Screens, Folders
  <2>2. CASE enter_up
      BY <1>5, <2>1, <2>2 DEF enter_up, Screens, Folders
  <2>3. CASE backspace
      BY <1>5, <2>1, <2>3 DEF backspace, Screens
  <2>4. CASE \E d \in Dirs : enter_dir(d)
      BY <2>1, <2>4 DEF enter_dir, Screens, Folders
  <2>5. QED
      BY <2>2, <2>3, <2>4
<1>7. Screens'
    BY <1>2, <1>4, <1>6 DEF Screens
<1>8. cmds' = cmds \/ cmds' = Adds(cmds, {Tree(device, cur')})
    BY DEF enter_up, backspace, enter_dir
<1>9. Goroutines' /\ OwnLogin'
  <2>1. Tree(device, cur') \in Request /\ Tree(device, cur').op # "connect"
      BY <1>2, <1>6, RequestsMade DEF Screens
  <2>2. CASE cmds' = cmds
      BY <1>2, <2>2 DEF Goroutines, OwnLogin
  <2>3. CASE cmds' = Adds(cmds, {Tree(device, cur')})
      BY <1>2, <2>1, <2>3, OneRequest
  <2>4. QED
      BY <1>8, <2>2, <2>3
<1>10. QED
    BY <1>2, <1>3, <1>7, <1>9, KeyTyped

(* Keys of the form: the focus goes round its fields and two buttons.        *)
LEMMA FormTyped ==
    ASSUME TypeInv, move_focus \/ enter_form \/ \E c \in DOMAIN Fields : select_command(c)
    PROVE  TypeInv'
<1> USE ConsoleAssumption DEF TypeInv
<1>1. \E st \in {"selecting", "filling"} : OnForm(st)
    BY DEF move_focus, enter_form, select_command
<1>2. /\ conn # 0 /\ UNCHANGED <<conn, broken, replies, loop, waiters, inbox, logins>>
      /\ UNCHANGED <<screen, listed, treeVars, focus, astray>> /\ screen = "detail"
    BY <1>1 DEF OnForm, netVars, Unconnected
<1>3. Screens'
    BY <1>2 DEF Screens, treeVars
<1>4. keys' = keys \/ Key
    BY DEF move_focus, enter_form, select_command
<1>5. cmds' = cmds \/ cmds' = Adds(cmds, {submitCommand})
    BY DEF move_focus, enter_form, select_command
<1>6. Goroutines' /\ OwnLogin'
  <2>1. submitCommand \in Request /\ submitCommand.op # "connect"
      BY <1>2, RequestsMade DEF submitCommand, Screens, Msg
  <2>2. CASE cmds' = cmds
      BY <1>2, <2>2 DEF Goroutines, OwnLogin
  <2>3. CASE cmds' = Adds(cmds, {submitCommand})
      BY <1>2, <2>1, <2>3, OneRequest
  <2>4. QED
      BY <1>5, <2>2, <2>3
<1>7. Fields[form.cmd] \in Nat \ {0} /\ form.focused \in Nat
    BY DEF Form
<1>8. \A step \in Nat : Cycle(step) \in 0..(Fields[form.cmd] + 1)
    BY <1>7 DEF Cycle
<1>9. Form'
  <2>1. CASE form' = form
      BY <2>1 DEF Form
  <2>2. ASSUME NEW step \in Nat, form' = [form EXCEPT !.focused = Cycle(step)]
        PROVE  Form'
    <3>1. Cycle(step) \in Nat /\ Cycle(step) <= Fields[form.cmd] + 1
        BY <1>7, <1>8
    <3>2. QED
        BY <2>2, <3>1 DEF Form
  <2>3. CASE form' = [form EXCEPT !.state = "selecting"]
      BY <2>3 DEF Form
  <2>4. ASSUME NEW c \in DOMAIN Fields, form' = initInputs(c)
        PROVE  Form'
      BY <2>4 DEF Form, initInputs
  <2>5. Fields[form.cmd] + 1 \in Nat
      BY <1>7
  <2>6. QED
      BY <2>1, <2>2, <2>3, <2>4, <2>5 DEF move_focus, enter_form, select_command
<1>10. QED
    BY <1>2, <1>3, <1>4, <1>6, <1>9, KeyTyped

(* Every step keeps TypeInv.                                                 *)
LEMMA TypeStep == TypeInv /\ [Next]_vars => TypeInv'
<1> SUFFICES ASSUME TypeInv, [Next]_vars
             PROVE  TypeInv'
    OBVIOUS
<1>1. CASE Pressed
    BY <1>1, SubmitTyped, DashboardTyped, EscTyped, TreeKeysTyped, FormTyped DEF Pressed
<1>2. CASE quit
  <2> USE ConsoleAssumption DEF quit
  <2>1. Wire'
    <3>1. NoMsg \notin Reply /\ <<>> \in Seq(Reply)
        BY MessageFacts, EmptySeq
    <3>2. QED
        BY <1>2, <3>1, Zenon DEF Wire, NoLoop
  <2>2. Goroutines' /\ OwnLogin' /\ Unconnected'
    <3>1. Goroutines'
        BY <1>2, EmptyBagFacts, Zenon DEF Goroutines
    <3>2. OwnLogin'
        BY <1>2, EmptyBagFacts DEF OwnLogin
    <3>3. Unconnected'
        BY <1>2, EmptyBagFacts DEF Unconnected, NoLoop
    <3>4. QED
        BY <3>1, <3>2, <3>3
  <2>3. Counters'
      BY <1>2 DEF Counters
  <2>4. Form'
    <3>1. NewForm.cmd \in DOMAIN Fields
        BY DEF NewForm
    <3>2. QED
        BY <1>2, <3>1 DEF Form, NewForm
  <2>5. Screens'
      BY <1>2 DEF Screens, NoParents, Blank, Folders
  <2>6. QED
      BY <2>1, <2>2, <2>3, <2>4, <2>5 DEF TypeInv
<1>3. CASE UNCHANGED vars
    BY <1>3 DEF vars, netVars, teaVars, treeVars, TypeInv, Wire, Goroutines, OwnLogin, Unconnected, Counters, Form,
           Screens
<1>4. QED
    BY <1>1, <1>2, <1>3, RunningTyped, RunsTyped, UpdateTyped, BreaksTyped DEF Next

(* TypeOK: whatever is pressed and in whichever order goroutines run, every   *)
(* connection belongs to a submitted login, the receive loop only reads a     *)
(* connection that exists, and the form's focus stays on its fields.          *)
THEOREM ConsoleTypeCorrect == Spec => []TypeOK
BY TypeInvTypes, TypeInit, TypeStep, PTL DEF Spec

-----------------------------------------------------------------------------
(* NeverDeaf: steps that keep the screen and take nothing away.              *)
LEMMA StillListening ==
    ASSUME NeverDeaf, screen' = screen, waiters' = waiters, BagToSet(inbox) \subseteq BagToSet(inbox')
    PROVE  NeverDeaf'
BY DEF NeverDeaf

(* A WaitForMsg that takes a message leaves a message of the server.         *)
LEMMA RunningListening ==
    ASSUME TypeInv, NeverDeaf, Running
    PROVE  NeverDeaf'
<1>1. CASE loop_reads \/ RecvProtocolMessage
    BY <1>1, StillListening DEF loop_reads, RecvProtocolMessage, teaVars
<1>2. CASE WaitForMsg
  <2>1. loop.msg \in Reply
      BY <1>2 DEF TypeInv, Wire, WaitForMsg
  <2>2. BagToSet(inbox') = BagToSet(inbox) \union {loop.msg}
      BY <1>2, AddsFacts DEF TypeInv, Goroutines, WaitForMsg
  <2>3. loop.msg.op \in Server /\ loop.msg \in BagToSet(inbox')
      BY <2>1, <2>2, MessageFacts
  <2>4. QED
      BY <2>3 DEF NeverDeaf
<1>3. QED
    BY <1>1, <1>2 DEF Running

(* Goroutines of requests only add messages.                                 *)
LEMMA RunsListening ==
    ASSUME TypeInv, NeverDeaf, NEW c \in BagToSet(cmds), Runs(c)
    PROVE  NeverDeaf'
<1>1. inbox' = inbox \/ inbox' = Adds(inbox, {Msg("submitted", None, None)})
    BY DEF Runs, Connect, Login, SendCommand
<1>2. BagToSet(inbox) \subseteq BagToSet(inbox')
    BY <1>1, AddsFacts DEF TypeInv, Goroutines
<1>3. QED
    BY <1>2, StillListening DEF Runs

(* So do keys.                                                               *)
LEMMA PressedListening ==
    ASSUME TypeInv, NeverDeaf, Pressed
    PROVE  NeverDeaf'
<1>1. screen' = screen /\ waiters' = waiters
    BY DEF Pressed, submit_login, dashboard_key, esc, change_focus, enter_up, backspace, enter_dir, OnTree,
           move_focus, enter_form, select_command, OnForm, teaVars
<1>2. inbox' = inbox \/ \E x : inbox' = Adds(inbox, {x})
    BY DEF Pressed, submit_login, dashboard_key, esc, change_focus, enter_up, backspace, enter_dir, OnTree,
           move_focus, enter_form, select_command, OnForm, teaVars
<1>3. BagToSet(inbox) \subseteq BagToSet(inbox')
  <2>1. IsABag(inbox)
      BY DEF TypeInv, Goroutines
  <2>2. ASSUME NEW x, inbox' = Adds(inbox, {x})
        PROVE  BagToSet(inbox') = BagToSet(inbox) \union {x}
      BY <2>1, <2>2, AddsFacts
  <2>3. QED
      BY <1>2, <2>2
<1>4. QED
    BY <1>1, <1>3, StillListening

(* Update: who handles a message of the server waits for the next one, and   *)
(* any other message leaves the server's alone.                              *)
LEMMA UpdateListening ==
    ASSUME TypeInv, NeverDeaf, NEW m \in BagToSet(inbox), Update(m)
    PROVE  NeverDeaf'
<1>1. m \in Message /\ waiters \in Nat
    BY DEF TypeInv, Goroutines, Counters
<1>2. ASSUME NEW msgs \in SUBSET Message, NEW reqs \in SUBSET Request, NEW w \in Nat, Handled(m, msgs, reqs, w)
      PROVE  waiters' = waiters + w /\ BagToSet(inbox) \subseteq BagToSet(inbox') \union {m}
  <2>1. waiters' = waiters + w
      BY <1>2 DEF Handled
  <2>2. QED
      BY <1>2, <2>1, HandledFacts DEF TypeInv
<1>3. {} \in SUBSET Message /\ {} \in SUBSET Request /\ {Online} \in SUBSET Request
    BY RequestsMade
<1>4. CASE login_Update(m)
  <2>1. CASE m.op = "token" /\ conn \notin broken
    <3>1. Handled(m, {}, {Online}, 1)
        BY <1>4, <2>1 DEF login_Update
    <3>2. waiters' = waiters + 1
        BY <1>2, <1>3, <3>1
    <3>3. waiters' > 0
        BY <1>1, <3>2
    <3>4. QED
        BY <3>3 DEF NeverDeaf
  <2>2. CASE ~(m.op = "token" /\ conn \notin broken)
    <3>1. screen' = "login"
        BY <1>4, <2>2 DEF login_Update
    <3>2. QED
        BY <3>1 DEF NeverDeaf
  <2>3. QED
      BY <2>1, <2>2
<1>5. ASSUME screen \in {"dashboard", "detail"}, NEW msgs \in SUBSET Message, NEW reqs \in SUBSET Request,
             NEW w \in Nat, Handled(m, msgs, reqs, w), m.op \in Server => w = 1
      PROVE  NeverDeaf'
  <2>1. waiters' = waiters + w /\ BagToSet(inbox) \subseteq BagToSet(inbox') \union {m}
      BY <1>2, <1>5
  <2>2. CASE m.op \in Server
    <3>1. waiters' > 0
        BY <1>1, <1>5, <2>1, <2>2
    <3>2. QED
        BY <3>1 DEF NeverDeaf
  <2>3. CASE m.op \notin Server
    <3>1. CASE waiters > 0
      <4>1. waiters' > 0
          BY <1>1, <1>5, <2>1, <3>1
      <4>2. QED
          BY <4>1 DEF NeverDeaf
    <3>2. CASE ~(waiters > 0)
      <4>1. PICK y \in BagToSet(inbox) : y.op \in Server
          BY <1>5, <3>2 DEF NeverDeaf
      <4>2. y \in BagToSet(inbox')
          BY <2>1, <2>3, <4>1
      <4>3. QED
          BY <4>1, <4>2 DEF NeverDeaf
    <3>3. QED
        BY <3>1, <3>2
  <2>4. QED
      BY <2>2, <2>3
<1>6. CASE dashboard_Update(m)
  <2>1. CASE m.op = "selected"
    <3>1. Tree(m.a, Root) \in Request
        BY <1>1, <2>1, MessageFacts, RequestsMade DEF Folders
    <3>2. {Tree(m.a, Root)} \in SUBSET Request
        BY <3>1
    <3>3. m.op \notin Server
        BY <2>1 DEF Server
    <3>4. Handled(m, {}, {Tree(m.a, Root)}, 0) /\ screen = "dashboard"
        BY <1>6, <2>1 DEF dashboard_Update
    <3>5. QED
        BY <1>3, <1>5, <3>2, <3>3, <3>4
  <2>2. CASE m.op # "selected"
    <3>1. Handled(m, {}, {}, IF m.op \in Server THEN 1 ELSE 0) /\ screen = "dashboard"
        BY <1>6, <2>2 DEF dashboard_Update
    <3>2. QED
        BY <1>3, <1>5, <3>1
  <2>3. QED
      BY <2>1, <2>2
<1>7. CASE detail_Update(m)
  <2>1. CASE m.op = "back"
    <3>1. m.op \notin Server
        BY <2>1 DEF Server
    <3>2. Handled(m, {}, {Online}, 0) /\ screen = "detail"
        BY <1>7, <2>1 DEF detail_Update
    <3>3. QED
        BY <1>3, <1>5, <3>1, <3>2
  <2>2. CASE m.op # "back"
    <3> DEFINE msgs == IF m.op = "tree" THEN {Msg("loaded", m.a, m.b)} ELSE {}
    <3>1. Handled(m, msgs, {}, Rearmed(m)) /\ screen = "detail"
        BY <1>7, <2>2 DEF detail_Update
    <3>2. m.op = "tree" => Msg("loaded", m.a, m.b) \in Message
        BY <1>1, MessageFacts DEF Msg, Message
    <3>3. msgs \in SUBSET Message
        BY <3>2
    <3>4. Rearmed(m) \in Nat /\ (m.op \in Server => Rearmed(m) = 1)
        BY DEF Rearmed
    <3> HIDE DEF msgs
    <3>5. QED
        BY <1>3, <1>5, <3>1, <3>3, <3>4
  <2>3. QED
      BY <2>1, <2>2
<1>8. QED
    BY <1>4, <1>6, <1>7 DEF Update

(* NeverDeaf: however requests, replies, keys and changes of screens          *)
(* interleave, a console past its login has a WaitForMsg or a message of the  *)
(* server that brings one.  TypeInv is needed for what the loop can hold.     *)
THEOREM ConsoleIsNeverDeaf == Spec => []NeverDeaf
<1>1. Init => NeverDeaf
    BY DEF Init, NeverDeaf
<1>2. ASSUME TypeInv, NeverDeaf, [Next]_vars
      PROVE  NeverDeaf'
  <2>1. CASE \E k \in Conns : breaks(k)
      BY <1>2, <2>1, StillListening DEF breaks, teaVars
  <2>2. CASE quit
      BY <2>2 DEF quit, NeverDeaf
  <2>3. CASE UNCHANGED vars
      BY <1>2, <2>3, StillListening DEF vars, teaVars
  <2>4. QED
      BY <1>2, <2>1, <2>2, <2>3, RunningListening, RunsListening, PressedListening, UpdateListening DEF Next
<1>3. QED
    BY <1>1, <1>2, TypeInit, TypeStep, PTL DEF Spec

-----------------------------------------------------------------------------
(* The tree: what Outstanding looks for is a listing under way.              *)
LEMMA OutstandingFacts ==
    ASSUME TypeInv
    PROVE  Outstanding <=> \E v \in Devices, d \in Folders : UnderWay(v, d)
<1> USE DEF TypeInv
<1>1. ASSUME NEW m \in Request \union Message, m.op \in {"tree", "loaded"}
      PROVE  m.a \in Devices /\ m.b \in Folders /\ m = Msg(m.op, m.a, m.b)
  <2>1. m.a \in Devices /\ m.b \in Folders
      BY <1>1, MessageFacts
  <2>2. m = Msg(m.op, m.a, m.b)
      BY DEF Msg, Request, Message, Reply
  <2>3. QED
      BY <2>1, <2>2
<1>2. NoMsg.op # "tree" /\ Reply \subseteq Message
    BY MessageFacts DEF NoMsg, Msg
<1>3. \A k \in Conns : replies[k] \in Seq(Reply)
    BY DEF Wire
<1>4. ASSUME Outstanding
      PROVE  \E v \in Devices, d \in Folders : UnderWay(v, d)
  <2>1. ASSUME NEW c \in BagToSet(cmds), c.op = "tree"
        PROVE  \E v \in Devices, d \in Folders : UnderWay(v, d)
    <3>1. c.a \in Devices /\ c.b \in Folders /\ c = Msg("tree", c.a, c.b)
        BY <1>1, <2>1 DEF Goroutines
    <3>2. UnderWay(c.a, c.b)
        BY <3>1 DEF UnderWay
    <3>3. QED
        BY <3>1, <3>2
  <2>2. ASSUME NEW k \in Conns, NEW i \in DOMAIN replies[k], replies[k][i].op = "tree"
        PROVE  \E v \in Devices, d \in Folders : UnderWay(v, d)
    <3> DEFINE r == replies[k][i]
    <3>1. r \in Reply /\ r \in Elems(replies[k])
        BY <1>3 DEF Elems
    <3>2. r.a \in Devices /\ r.b \in Folders /\ r = Msg("tree", r.a, r.b)
        BY <1>1, <1>2, <2>2, <3>1
    <3>3. UnderWay(r.a, r.b)
        BY <3>1, <3>2 DEF UnderWay
    <3>4. QED
        BY <3>2, <3>3
  <2>3. CASE loop.msg.op = "tree"
    <3>1. loop.msg \in Reply
        BY <1>2, <2>3 DEF Wire
    <3>2. loop.msg.a \in Devices /\ loop.msg.b \in Folders /\ loop.msg = Msg("tree", loop.msg.a, loop.msg.b)
        BY <1>1, <1>2, <2>3, <3>1
    <3>3. UnderWay(loop.msg.a, loop.msg.b)
        BY <3>2 DEF UnderWay
    <3>4. QED
        BY <3>2, <3>3
  <2>4. ASSUME NEW m \in BagToSet(inbox), m.op \in {"tree", "loaded"}
        PROVE  \E v \in Devices, d \in Folders : UnderWay(v, d)
    <3>1. m.a \in Devices /\ m.b \in Folders /\ m = Msg(m.op, m.a, m.b)
        BY <1>1, <2>4 DEF Goroutines
    <3>2. UnderWay(m.a, m.b)
        BY <2>4, <3>1 DEF UnderWay
    <3>3. QED
        BY <3>1, <3>2
  <2>5. QED
      BY <1>4, <2>1, <2>2, <2>3, <2>4 DEF Outstanding
<1>5. ASSUME NEW v \in Devices, NEW d \in Folders, UnderWay(v, d)
      PROVE  Outstanding
  <2>1. Msg("tree", v, d).op = "tree" /\ Msg("loaded", v, d).op = "loaded"
      BY DEF Msg
  <2>2. ASSUME NEW k \in Conns, Msg("tree", v, d) \in Elems(replies[k])
        PROVE  \E i \in DOMAIN replies[k] : replies[k][i].op = "tree"
      BY <1>3, <2>1, <2>2 DEF Elems
  <2>3. QED
      BY <1>5, <2>1, <2>2 DEF UnderWay, Outstanding
<1>6. QED
    BY <1>4, <1>5

(* A step that keeps the screen, and under way what was under way.           *)
LEMMA TreeKept ==
    ASSUME TreeInv, UNCHANGED <<screen, treeVars>>, astray => astray',
           \A v \in Devices, d \in Folders : UnderWay(v, d)' <=> UnderWay(v, d), TypeInv
    PROVE  TreeInv'
<1>1. screen' = "detail" /\ ~astray' => device \in Devices /\ cur \in Folders
    BY DEF TypeInv, Screens
<1>2. (ShowsCurrent' <=> ShowsCurrent) /\ (WayUp' <=> WayUp)
  <2>1. Listing(device, cur)' = Listing(device, cur)
      BY DEF treeVars, Listing, Children
  <2>2. ShowsCurrent' <=> ShowsCurrent
      BY <2>1 DEF treeVars, ShowsCurrent
  <2>3. QED
      BY <2>2 DEF treeVars, WayUp
<1>3. QED
    BY <1>1, <1>2 DEF TreeInv, treeVars

(* The receive loop takes a reply over, and hands it to Update.              *)
LEMMA RunningTree ==
    ASSUME TypeInv, TreeInv, Running
    PROVE  TreeInv'
<1> USE DEF TypeInv
<1>1. UNCHANGED <<screen, treeVars, cmds, astray>>
    BY DEF Running, loop_reads, RecvProtocolMessage, WaitForMsg, teaVars
<1>2. \A v \in Devices, d \in Folders : UnderWay(v, d)' <=> UnderWay(v, d)
  <2> SUFFICES ASSUME NEW v \in Devices, NEW d \in Folders
               PROVE  UnderWay(v, d)' <=> UnderWay(v, d)
      OBVIOUS
  <2> DEFINE t == Msg("tree", v, d)
             l == Msg("loaded", v, d)
  <2>0. t # NoMsg /\ t # Msg("lost", None, None) /\ l.op = "loaded"
      BY DEF Msg, NoMsg
  <2>1. /\ UnderWay(v, d) <=> \/ t \in BagToSet(cmds) \/ (\E k \in Conns : t \in Elems(replies[k])) \/ t = loop.msg
                              \/ t \in BagToSet(inbox) \/ l \in BagToSet(inbox)
        /\ UnderWay(v, d)' <=> \/ t \in BagToSet(cmds') \/ (\E k \in Conns : t \in Elems(replies'[k])) \/ t = loop'.msg
                               \/ t \in BagToSet(inbox') \/ l \in BagToSet(inbox')
      BY DEF UnderWay
  <2> HIDE DEF t, l
  <2>2. CASE loop_reads
    <3>1. loop'.msg = loop.msg /\ UNCHANGED <<replies, inbox>>
        BY <2>2 DEF loop_reads, Wire, teaVars
    <3>2. QED
        BY <1>1, <2>1, <3>1
  <2>3. CASE RecvProtocolMessage
    <3> DEFINE c == loop.conn
    <3>1. c \in Conns /\ replies[c] \in Seq(Reply) /\ loop.msg = NoMsg /\ inbox' = inbox
        BY <2>3 DEF RecvProtocolMessage, Wire, teaVars
    <3>2. CASE /\ replies[c] # <<>>
               /\ loop' = [loop EXCEPT !.st = "holding", !.msg = Head(replies[c])]
               /\ replies' = [replies EXCEPT ![c] = Tail(@)]
      <4>1. Elems(replies[c]) = {Head(replies[c])} \union Elems(Tail(replies[c]))
          BY <3>1, <3>2, HeadTailElems
      <4>2. replies'[c] = Tail(replies[c]) /\ \A k \in Conns : k # c => replies'[k] = replies[k]
          BY <3>1, <3>2 DEF Wire
      <4>3. loop'.msg = Head(replies[c])
          BY <3>2 DEF Wire
      <4> HIDE DEF c
      <4>4. (\E k \in Conns : t \in Elems(replies[k])) <=>
               (\E k \in Conns : t \in Elems(replies'[k])) \/ t = loop'.msg
          BY <3>1, <4>1, <4>2, <4>3
      <4>5. QED
          BY <1>1, <2>0, <2>1, <3>1, <4>4
    <3>3. CASE loop' = [loop EXCEPT !.st = "holding", !.msg = Msg("lost", None, None)] /\ replies' = replies
      <4>1. loop'.msg = Msg("lost", None, None)
          BY <3>3 DEF Wire
      <4>2. QED
          BY <1>1, <2>0, <2>1, <3>1, <3>3, <4>1
    <3>4. QED
        BY <2>3, <3>2, <3>3 DEF RecvProtocolMessage
  <2>4. CASE WaitForMsg
    <3>1. BagToSet(inbox') = BagToSet(inbox) \union {loop.msg} /\ replies' = replies
        BY <2>4, AddsFacts DEF WaitForMsg, Goroutines
    <3>2. loop'.msg = NoMsg /\ loop.msg \in Reply
        BY <2>4 DEF WaitForMsg, Wire
    <3>3. l # loop.msg
        BY <2>0, <3>2, MessageFacts DEF Server
    <3>4. QED
        BY <1>1, <2>0, <2>1, <3>1, <3>2, <3>3
  <2>5. QED
      BY <2>2, <2>3, <2>4 DEF Running
<1>3. QED
    BY <1>1, <1>2, TreeKept

(* A broken connection loses replies: either none is a listing, or astray.   *)
LEMMA BreaksTree ==
    ASSUME TypeInv, TreeInv, NEW k \in Conns, breaks(k)
    PROVE  TreeInv'
<1> USE DEF TypeInv
<1>1. CASE astray'
    BY <1>1 DEF TreeInv
<1>2. CASE ~astray'
  <2>1. ~astray /\ \A i \in DOMAIN replies[k] : replies[k][i].op # "tree"
      BY <1>2, Zenon DEF breaks
  <2>2. replies' = [replies EXCEPT ![k] = <<>>] /\ UNCHANGED <<screen, treeVars, cmds, inbox, loop>>
      BY DEF breaks, teaVars
  <2>3. replies'[k] = <<>> /\ \A j \in Conns : j # k => replies'[j] = replies[j]
      BY <2>2 DEF Wire
  <2>4. \A v \in Devices, d \in Folders : UnderWay(v, d)' <=> UnderWay(v, d)
    <3> SUFFICES ASSUME NEW v \in Devices, NEW d \in Folders
                 PROVE  UnderWay(v, d)' <=> UnderWay(v, d)
        OBVIOUS
    <3> DEFINE t == Msg("tree", v, d)
    <3>1. t.op = "tree"
        BY DEF Msg
    <3> HIDE DEF t
    <3>2. t \notin Elems(replies'[k])
        BY <2>3, EmptyElems
    <3>3. t \notin Elems(replies[k])
      <4>1. replies[k] \in Seq(Reply)
          BY DEF Wire
      <4>2. QED
          BY <2>1, <3>1, <4>1 DEF Elems
    <3>4. (\E j \in Conns : t \in Elems(replies[j])) <=> (\E j \in Conns : t \in Elems(replies'[j]))
        BY <2>3, <3>2, <3>3
    <3>5. QED
        BY <2>2, <3>4 DEF UnderWay, t
  <2>5. QED
      BY <2>1, <2>2, <2>4, TreeKept
<1>3. QED
    BY <1>1, <1>2

(* A request becomes its reply, unless it fails, and then astray.            *)
LEMMA RunsTree ==
    ASSUME TypeInv, TreeInv, NEW c \in BagToSet(cmds), Runs(c)
    PROVE  TreeInv'
<1> USE DEF TypeInv
<1>1. CASE astray'
    BY <1>1 DEF TreeInv
<1>2. CASE ~astray'
  <2>1. UNCHANGED <<screen, treeVars>> /\ c \in Request /\ IsABag(cmds) /\ IsABag(inbox)
      BY DEF Runs, Goroutines
  <2>2. ~astray
      BY <1>2, Zenon DEF Runs, Connect, Login, SendCommand
  <2>3. /\ IsABag(Takes(cmds, c)) /\ BagToSet(Takes(cmds, c)) \subseteq BagToSet(cmds)
        /\ BagToSet(cmds) \subseteq BagToSet(Takes(cmds, c)) \union {c}
      BY <2>1, TakesFacts
  <2>4. \A v \in Devices, d \in Folders : UnderWay(v, d)' <=> UnderWay(v, d)
    <3> SUFFICES ASSUME NEW v \in Devices, NEW d \in Folders
                 PROVE  UnderWay(v, d)' <=> UnderWay(v, d)
        OBVIOUS
    <3> DEFINE t == Msg("tree", v, d)
               l == Msg("loaded", v, d)
    <3>1. /\ UnderWay(v, d) <=> \/ t \in BagToSet(cmds) \/ (\E k \in Conns : t \in Elems(replies[k])) \/ t = loop.msg
                                \/ t \in BagToSet(inbox) \/ l \in BagToSet(inbox)
          /\ UnderWay(v, d)' <=> \/ t \in BagToSet(cmds') \/ (\E k \in Conns : t \in Elems(replies'[k]))
                                 \/ t = loop'.msg \/ t \in BagToSet(inbox') \/ l \in BagToSet(inbox')
        BY DEF UnderWay
    <3>2. /\ t.op = "tree" /\ l.op = "loaded"
          /\ \A a : t # Msg("hello", a, None) /\ t # Msg("login", a, None)
          /\ t # Msg("submitted", None, None) /\ l # Msg("submitted", None, None)
        BY DEF Msg
    <3> HIDE DEF t, l
    <3>3. CASE Connect(c) \/ Login(c)
      <4>1. c # t
          BY <3>2, <3>3 DEF Connect, Login
      <4>2. UNCHANGED <<replies, inbox>> /\ loop'.msg = loop.msg
          BY <3>3 DEF Connect, Login, Wire
      <4>3. t \in BagToSet(cmds') <=> t \in BagToSet(cmds)
        <5>1. CASE cmds' = Takes(cmds, c)
            BY <2>3, <4>1, <5>1
        <5>2. ASSUME NEW op \in {"hello", "login"}, cmds' = Adds(Takes(cmds, c), {Msg(op, c.a, None)})
              PROVE  t \in BagToSet(cmds') <=> t \in BagToSet(cmds)
          <6>1. BagToSet(cmds') = BagToSet(Takes(cmds, c)) \union {Msg(op, c.a, None)}
              BY <2>3, <5>2, AddsFacts
          <6>2. QED
              BY <2>3, <3>2, <4>1, <6>1
        <5>3. QED
            BY <3>3, <5>1, <5>2 DEF Connect, Login
      <4>4. QED
          BY <3>1, <4>2, <4>3
    <3>4. CASE SendCommand(c)
      <4>1. conn # 0 /\ cmds' = Takes(cmds, c)
          BY <3>4 DEF SendCommand, Unconnected
      <4>2. conn \in Conns
          BY <4>1, ConnBound
      <4>3. replies[conn] \in Seq(Reply)
          BY <4>2 DEF Wire
      <4>4. loop'.msg = loop.msg
          BY <3>4 DEF SendCommand, Wire
      <4>5. (t \in BagToSet(inbox') <=> t \in BagToSet(inbox)) /\ (l \in BagToSet(inbox') <=> l \in BagToSet(inbox))
        <5>1. CASE inbox' = inbox
            BY <5>1
        <5>2. CASE inbox' = Adds(inbox, {Msg("submitted", None, None)})
          <6>1. BagToSet(inbox') = BagToSet(inbox) \union {Msg("submitted", None, None)}
              BY <2>1, <5>2, AddsFacts
          <6>2. QED
              BY <3>2, <6>1
        <5>3. QED
            BY <3>4, <5>1, <5>2 DEF SendCommand
      <4>6. c.op = "tree" => c = Msg("tree", c.a, c.b)
          BY <2>1 DEF Request, Msg
      <4>7. ASSUME NEW r \in Reply, replies' = [replies EXCEPT ![conn] = Append(@, r)],
                   r = t <=> c = t
            PROVE  UnderWay(v, d)' <=> UnderWay(v, d)
        <5>1. Elems(Append(replies[conn], r)) = Elems(replies[conn]) \union {r}
            BY <4>3, AppendElems
        <5>2. replies'[conn] = Append(replies[conn], r) /\ \A k \in Conns : k # conn => replies'[k] = replies[k]
            BY <4>2, <4>7 DEF Wire
        <5>3. (\E k \in Conns : t \in Elems(replies'[k])) <=> (\E k \in Conns : t \in Elems(replies[k])) \/ r = t
            BY <4>2, <5>1, <5>2
        <5>4. t \in BagToSet(cmds) <=> t \in BagToSet(Takes(cmds, c)) \/ c = t
            BY <2>3
        <5>5. QED
            BY <3>1, <4>1, <4>4, <4>5, <4>7, <5>3, <5>4
      <4>8. CASE conn \notin broken
        <5>1. PICK r \in Answers(c) : /\ replies' = [replies EXCEPT ![conn] = Append(@, r)]
                                      /\ astray' = (astray \/ (c.op = "tree" /\ r.op = "error"))
            BY <3>4, <4>8 DEF SendCommand
        <5>2. ~(c.op = "tree" /\ r.op = "error")
            BY <1>2, <5>1, Zenon
        <5>3. c.op \in {"login", "list", "tree", "send"}
            BY <3>4 DEF SendCommand
        <5>4. c.op = "login" => c.a \in {"token", "denied"}
            BY <2>1, MessageFacts
        <5>5. r \in Reply /\ (r = t <=> c = t)
          <6>1. CASE c.op = "tree"
            <7>1. r = c
                BY <4>6, <5>1, <5>2, <6>1 DEF Answers, Msg
            <7>2. c.a \in Devices /\ c.b \in Folders
                BY <2>1, <6>1, MessageFacts
            <7>3. c \in Reply
                BY <4>6, <6>1, <7>2 DEF Reply, Msg
            <7>4. QED
                BY <7>1, <7>3
          <6>2. CASE c.op # "tree"
            <7>1. r \in Reply /\ r.op # "tree"
                BY <5>1, <5>3, <5>4, <6>2 DEF Answers, Msg, Reply, Server, Nil
            <7>2. QED
                BY <3>2, <6>2, <7>1
          <6>3. QED
              BY <6>1, <6>2
        <5>6. QED
            BY <4>7, <5>1, <5>5
      <4>9. CASE conn \in broken
        <5>1. replies' = replies /\ astray' = (astray \/ c.op = "tree")
            BY <3>4, <4>9 DEF SendCommand
        <5>2. c.op # "tree"
            BY <1>2, <5>1, Zenon
        <5>3. c # t
            BY <3>2, <5>2
        <5>4. t \in BagToSet(cmds') <=> t \in BagToSet(cmds)
            BY <2>3, <4>1, <5>3
        <5>5. QED
            BY <3>1, <4>4, <4>5, <5>1, <5>4
      <4>10. QED
          BY <4>8, <4>9
    <3>5. QED
        BY <3>3, <3>4 DEF Runs
  <2>5. QED
      BY <2>1, <2>2, <2>4, TreeKept
<1>3. QED
    BY <1>1, <1>2

(* A device is selected: with no listing under way, the first one is that of *)
(* its root.                                                                 *)
LEMMA SelectedTree ==
    ASSUME TypeInv, NEW m \in BagToSet(inbox), Update(m), dashboard_Update(m), m.op = "selected"
    PROVE  TreeInv'
<1> USE DEF TypeInv
<1>1. CASE astray'
    BY <1>1 DEF TreeInv
<1>2. CASE ~astray'
  <2>1. /\ Handled(m, {}, {Tree(m.a, Root)}, 0) /\ device' = m.a /\ cur' = Root
        /\ parentMap' = NoParents /\ astray' = Outstanding /\ UNCHANGED <<replies, loop>>
      BY DEF dashboard_Update, Update, netVars
  <2>2. \A v \in Devices, d \in Folders : ~UnderWay(v, d)
      BY <1>2, <2>1, OutstandingFacts
  <2>3. m \in Message /\ m.a \in Devices /\ Root \in Folders
      BY MessageFacts DEF Goroutines, Folders
  <2>4. {Tree(m.a, Root)} \in SUBSET Request /\ {} \in SUBSET Message
      BY <2>3, RequestsMade
  <2>5. /\ BagToSet(inbox') \subseteq BagToSet(inbox) \union {}
        /\ BagToSet(cmds') = BagToSet(cmds) \union {Tree(m.a, Root)}
      BY <2>1, <2>4, HandledFacts
  <2>6. Tree(m.a, Root) = Msg("tree", m.a, Root)
      BY DEF Tree
  <2>7. ASSUME NEW v \in Devices, NEW d \in Folders, UnderWay(v, d)'
        PROVE  v = device' /\ d = cur'
    <3>1. Msg("tree", v, d) = Msg("tree", m.a, Root)
        BY <2>1, <2>2, <2>5, <2>6, <2>7 DEF UnderWay
    <3>2. QED
        BY <2>1, <3>1 DEF Msg
  <2>8. UnderWay(device, cur)'
      BY <2>1, <2>5, <2>6 DEF UnderWay
  <2>9. WayUp'
      BY <2>1, ConsoleAssumption DEF WayUp, NoParents
  <2>10. QED
      BY <2>7, <2>8, <2>9 DEF TreeInv
<1>3. QED
    BY <1>1, <1>2

(* The detail screen takes a reply apart, or shows it.                       *)
LEMMA DetailTree ==
    ASSUME TypeInv, TreeInv, NEW m \in BagToSet(inbox), Update(m), detail_Update(m)
    PROVE  TreeInv'
<1> USE DEF TypeInv
<1>1. CASE m.op = "back"
    BY <1>1 DEF detail_Update, TreeInv
<1>2. CASE m.op # "back"
  <2> DEFINE msgs == IF m.op = "tree" THEN {Msg("loaded", m.a, m.b)} ELSE {}
  <2>1. /\ Handled(m, msgs, {}, Rearmed(m)) /\ screen' = screen /\ screen = "detail"
        /\ shown' \in (IF m.op = "loaded" THEN NodesShown(m) ELSE {shown})
        /\ UNCHANGED <<device, cur, parentMap, astray, replies, loop>>
      BY <1>2 DEF detail_Update, Update, netVars
  <2>2. m \in Message /\ (m.op \in {"tree", "loaded"} => m.a \in Devices /\ m.b \in Folders /\ m = Msg(m.op, m.a, m.b))
    <3>1. m \in Message
        BY DEF Goroutines
    <3>2. m = Msg(m.op, m.a, m.b)
        BY <3>1 DEF Message, Reply, Msg
    <3>3. QED
        BY <3>1, <3>2, MessageFacts
  <2>3. msgs \in SUBSET Message /\ {} \in SUBSET Request
    <3>1. m.op = "tree" => Msg("loaded", m.a, m.b) \in Message
        BY <2>2 DEF Msg, Message
    <3>2. QED
        BY <3>1
  <2>4. m.op # "tree" => msgs = {}
      OBVIOUS
  <2>5. m.op = "tree" => msgs = {Msg("loaded", m.a, m.b)}
      OBVIOUS
  <2> HIDE DEF msgs
  <2>6. /\ BagToSet(inbox') \subseteq BagToSet(inbox) \union msgs
        /\ BagToSet(inbox) \subseteq BagToSet(inbox') \union {m}
        /\ msgs \subseteq BagToSet(inbox') /\ BagToSet(cmds') = BagToSet(cmds) \union {}
      BY <2>1, <2>3, HandledFacts
  <2>7. WayUp' <=> WayUp
      BY <2>1 DEF WayUp
  <2>8. CASE m.op = "loaded" /\ ~astray
    <3>1. ASSUME NEW v \in Devices, NEW d \in Folders, UnderWay(v, d)'
          PROVE  UnderWay(v, d)
        BY <2>1, <2>4, <2>6, <2>8, <3>1 DEF UnderWay
    <3>2. UnderWay(m.a, m.b)
        BY <2>2, <2>8 DEF UnderWay
    <3>3. m.a = device /\ m.b = cur
        BY <2>1, <2>2, <2>8, <3>2 DEF TreeInv
    <3>4. ShowsCurrent'
      <4>1. shown'.nodes \in Listing(device, cur) /\ (shown'.up <=> cur # Root)
          BY <2>1, <2>8, <3>3, ShownOfListing
      <4>2. Listing(device, cur)' = Listing(device, cur)
          BY <2>1 DEF Listing, Children
      <4>3. QED
          BY <2>1, <4>1, <4>2 DEF ShowsCurrent
    <3>5. QED
        BY <2>1, <2>7, <2>8, <3>1, <3>4 DEF TreeInv
  <2>9. CASE m.op # "loaded"
    <3>1. \A v \in Devices, d \in Folders : UnderWay(v, d)' <=> UnderWay(v, d)
      <4> SUFFICES ASSUME NEW v \in Devices, NEW d \in Folders
                   PROVE  UnderWay(v, d)' <=> UnderWay(v, d)
          OBVIOUS
      <4> DEFINE t == Msg("tree", v, d)
                 l == Msg("loaded", v, d)
      <4>1. t.op = "tree" /\ l.op = "loaded" /\ t # Msg("loaded", m.a, m.b)
          BY DEF Msg
      <4>2. Msg("loaded", m.a, m.b) = l <=> Msg("tree", m.a, m.b) = t
          BY DEF Msg
      <4> HIDE DEF t, l
      <4>3. t \in BagToSet(inbox) \/ l \in BagToSet(inbox) <=> t \in BagToSet(inbox') \/ l \in BagToSet(inbox')
        <5>1. CASE m.op = "tree"
            BY <2>2, <2>5, <2>6, <4>1, <4>2, <5>1
        <5>2. CASE m.op # "tree"
          <6>1. m # t /\ m # l
              BY <2>9, <4>1, <5>2
          <6>2. QED
              BY <2>4, <2>6, <5>2, <6>1
        <5>3. QED
            BY <5>1, <5>2
      <4>4. QED
          BY <2>1, <2>6, <4>3 DEF UnderWay, t, l
    <3>2. UNCHANGED <<screen, treeVars>> /\ (astray => astray')
        BY <2>1, <2>9 DEF treeVars
    <3>3. QED
        BY <3>1, <3>2, TreeKept
  <2>10. CASE astray
      BY <2>1, <2>10 DEF TreeInv
  <2>11. QED
      BY <2>8, <2>9, <2>10
<1>3. QED
    BY <1>1, <1>2

(* Update: other screens and messages do not touch the tree.                 *)
LEMMA UpdateTree ==
    ASSUME TypeInv, TreeInv, NEW m \in BagToSet(inbox), Update(m)
    PROVE  TreeInv'
<1>1. CASE login_Update(m)
    BY <1>1 DEF login_Update, TreeInv
<1>2. CASE dashboard_Update(m)
  <2>1. CASE m.op # "selected"
      BY <1>2, <2>1 DEF dashboard_Update, TreeInv
  <2>2. QED
      BY <1>2, <2>1, SelectedTree
<1>3. QED
    BY <1>1, <1>2, DetailTree DEF Update

(* Enter and Backspace on the tree, when no listing was under way: the row   *)
(* is one of the directory the screen is in, or the way up is known.         *)
LEMMA TreeKeysTree ==
    ASSUME TypeInv, TreeInv, enter_up \/ backspace \/ \E d \in Dirs : enter_dir(d)
    PROVE  TreeInv'
<1> USE ConsoleAssumption DEF TypeInv
<1>1. OnTree
    BY DEF enter_up, backspace, enter_dir
<1>2. /\ UNCHANGED <<screen, device, shown, replies, loop, inbox>> /\ screen = "detail"
      /\ astray' = (astray \/ Outstanding) /\ device \in Devices /\ cur \in Folders
    BY <1>1 DEF OnTree, netVars, Screens
<1>3. CASE astray'
    BY <1>3 DEF TreeInv
<1>4. CASE ~astray'
  <2>1. ~astray /\ ~Outstanding
      BY <1>2, <1>4, Zenon
  <2>2. \A v \in Devices, d \in Folders : ~UnderWay(v, d)
      BY <2>1, OutstandingFacts
  <2>3. ShowsCurrent /\ WayUp
      BY <1>2, <2>1, <2>2 DEF TreeInv
  <2>4. shown.nodes \in Listing(device, cur) /\ (shown.up <=> cur # Root)
      BY <2>3 DEF ShowsCurrent
  <2>5. parentMap \in [Dirs \union {Up} -> Folders \union {None}]
      BY DEF Screens
  <2>6. cur # Root => cur \in Dirs /\ parentMap[cur] # None /\ ParentOf(parentMap, cur) = parentMap[cur]
      BY <1>2, <2>3 DEF WayUp, Folders, ParentOf
  <2>7. cmds' = Adds(cmds, {Tree(device, cur')}) /\ cur' \in Folders /\ WayUp'
    <3>1. CASE enter_up
      <4>1. shown.up /\ parentMap' = [parentMap EXCEPT ![Up] = cur]
            /\ (cur # Root => cur' = ParentOf(parentMap, cur) /\ cmds' = Adds(cmds, {Tree(device, cur')}))
          BY <3>1 DEF enter_up
      <4>2. cur # Root
          BY <2>4, <4>1
      <4>3. cur' = parentMap[cur] /\ cur' \in Folders
          BY <2>5, <2>6, <4>1, <4>2
      <4>4. \A d \in Dirs : parentMap'[d] = parentMap[d]
          BY <2>5, <4>1
      <4>5. cur' # Root => cur' \in Dirs
          BY <4>3 DEF Folders
      <4>6. WayUp'
          BY <2>3, <2>6, <4>2, <4>3, <4>4, <4>5 DEF WayUp
      <4>7. QED
          BY <4>1, <4>2, <4>3, <4>6
    <3>2. CASE backspace
      <4>1. cur # Root /\ cur' = ParentOf(parentMap, cur) /\ cmds' = Adds(cmds, {Tree(device, cur')})
            /\ parentMap' = parentMap
          BY <3>2 DEF backspace
      <4>2. cur' = parentMap[cur] /\ cur' \in Folders
          BY <2>5, <2>6, <4>1
      <4>3. cur' # Root => cur' \in Dirs
          BY <4>2 DEF Folders
      <4>4. WayUp'
          BY <2>3, <2>6, <4>1, <4>2, <4>3 DEF WayUp
      <4>5. QED
          BY <4>1, <4>2, <4>4
    <3>3. ASSUME NEW d \in Dirs, enter_dir(d)
          PROVE  cmds' = Adds(cmds, {Tree(device, cur')}) /\ cur' \in Folders /\ WayUp'
      <4>1. d \in shown.nodes /\ parentMap' = [parentMap EXCEPT ![d] = cur] /\ cur' = d
            /\ cmds' = Adds(cmds, {Tree(device, d)})
          BY <3>3 DEF enter_dir
      <4>2. Parent[d] = cur
          BY <2>4, <4>1, PageOfChildren
      <4>3. parentMap'[d] = cur /\ \A e \in Dirs : e # d => parentMap'[e] = parentMap[e]
          BY <2>5, <4>1
      <4>4. \A e \in Dirs : parentMap[e] # None => parentMap'[e] # None
          BY <1>2, <4>3 DEF Folders
      <4>5. cur \in Dirs => cur # Root
          OBVIOUS
      <4>6. WayUp'
        <5>1. \A e \in Dirs : parentMap'[e] \in {None, Parent[e]}
            BY <2>3, <4>2, <4>3 DEF WayUp
        <5>2. ASSUME NEW e \in Dirs, parentMap'[e] \in Dirs
              PROVE  parentMap'[parentMap'[e]] # None
          <6>1. CASE e = d
              BY <2>6, <4>3, <4>4, <4>5, <5>2, <6>1
          <6>2. CASE e # d
              BY <2>3, <4>3, <4>4, <5>2, <6>2 DEF WayUp
          <6>3. QED
              BY <6>1, <6>2
        <5>3. parentMap'[cur'] # None
            BY <1>2, <4>1, <4>3 DEF Folders
        <5>4. QED
            BY <5>1, <5>2, <5>3 DEF WayUp
      <4>7. QED
          BY <4>1, <4>6 DEF Folders
    <3>4. QED
        BY <3>1, <3>2, <3>3
  <2>8. BagToSet(cmds') = BagToSet(cmds) \union {Tree(device, cur')}
      BY <2>7, AddsFacts DEF Goroutines
  <2>9. ASSUME NEW v \in Devices, NEW d \in Folders, UnderWay(v, d)'
        PROVE  v = device' /\ d = cur'
    <3>1. Msg("tree", v, d) = Tree(device, cur')
        BY <1>2, <2>2, <2>8, <2>9 DEF UnderWay
    <3>2. QED
        BY <1>2, <3>1 DEF Tree, Msg
  <2>10. UnderWay(device, cur)'
      BY <1>2, <2>8 DEF UnderWay, Tree
  <2>11. QED
      BY <2>7, <2>9, <2>10 DEF TreeInv
<1>5. QED
    BY <1>3, <1>4

(* Other keys: no request for a listing, and the tree is as it was.          *)
LEMMA OtherKeysTree ==
    ASSUME TypeInv, TreeInv,
           \/ submit_login \/ dashboard_key \/ esc \/ change_focus
           \/ move_focus \/ enter_form \/ \E c \in DOMAIN Fields : select_command(c)
    PROVE  TreeInv'
<1>1. UNCHANGED <<screen, treeVars, astray, replies, loop>>
    BY DEF submit_login, dashboard_key, esc, change_focus, move_focus, enter_form, select_command, OnForm, netVars
<1> DEFINE reqs == {Online, submitCommand} \union {Msg("connect", a, None) : a \in {"token", "denied"}}
           msgs == {Msg("back", None, None)} \union {Msg("selected", d, None) : d \in Devices}
<1>2. cmds' = cmds \/ \E x \in reqs : cmds' = Adds(cmds, {x})
    BY DEF submit_login, dashboard_key, esc, change_focus, move_focus, enter_form, select_command, teaVars
<1>3. inbox' = inbox \/ \E x \in msgs : inbox' = Adds(inbox, {x})
    BY DEF submit_login, dashboard_key, esc, change_focus, move_focus, enter_form, select_command, OnForm, teaVars
<1>4. \A x \in reqs : x.op # "tree"
    BY DEF Online, submitCommand, Msg
<1>5. \A x \in msgs : x.op \notin {"tree", "loaded"}
    BY DEF Msg
<1> HIDE DEF reqs, msgs
<1>6. \A y : y.op = "tree" => (y \in BagToSet(cmds') <=> y \in BagToSet(cmds))
  <2>1. ASSUME NEW x \in reqs, cmds' = Adds(cmds, {x})
        PROVE  BagToSet(cmds') = BagToSet(cmds) \union {x}
      BY <2>1, AddsFacts DEF TypeInv, Goroutines
  <2>2. QED
      BY <1>2, <1>4, <2>1
<1>7. \A y : y.op \in {"tree", "loaded"} => (y \in BagToSet(inbox') <=> y \in BagToSet(inbox))
  <2>1. ASSUME NEW x \in msgs, inbox' = Adds(inbox, {x})
        PROVE  BagToSet(inbox') = BagToSet(inbox) \union {x}
      BY <2>1, AddsFacts DEF TypeInv, Goroutines
  <2>2. QED
      BY <1>3, <1>5, <2>1
<1>8. \A v \in Devices, d \in Folders : UnderWay(v, d)' <=> UnderWay(v, d)
  <2> SUFFICES ASSUME NEW v \in Devices, NEW d \in Folders
               PROVE  UnderWay(v, d)' <=> UnderWay(v, d)
      OBVIOUS
  <2>1. Msg("tree", v, d).op = "tree" /\ Msg("loaded", v, d).op = "loaded"
      BY DEF Msg
  <2>2. QED
      BY <1>1, <1>6, <1>7, <2>1 DEF UnderWay
<1>9. QED
    BY <1>1, <1>8, TreeKept

(* TreeInv holds at the start and every step keeps it.                       *)
LEMMA TreeStep == (Init => TreeInv) /\ (TypeInv /\ TreeInv /\ [Next]_vars => TreeInv')
<1>1. Init => TreeInv
    BY DEF Init, TreeInv
<1>2. ASSUME TypeInv, TreeInv, [Next]_vars
      PROVE  TreeInv'
  <2>1. CASE Pressed
      BY <1>2, <2>1, TreeKeysTree, OtherKeysTree DEF Pressed
  <2>2. CASE quit
      BY <2>2 DEF quit, TreeInv
  <2>3. CASE UNCHANGED vars
    <3>1. UNCHANGED <<screen, treeVars, astray, cmds, inbox, replies, loop>>
        BY <2>3 DEF vars, netVars, teaVars
    <3>2. \A v \in Devices, d \in Folders : UnderWay(v, d)' <=> UnderWay(v, d)
        BY <3>1 DEF UnderWay
    <3>3. QED
        BY <1>2, <3>1, <3>2, TreeKept
  <2>4. QED
      BY <1>2, <2>1, <2>2, <2>3, RunningTree, RunsTree, UpdateTree, BreaksTree DEF Next
<1>3. QED
    BY <1>1, <1>2

(* ListingIsCurrent: on any number of devices with any directories and pages  *)
(* of any size, once no listing is under way the tree shows a page of the     *)
(* directory the screen is in.                                                *)
THEOREM ListingsAreCurrent == Spec => []ListingIsCurrent
<1>1. ASSUME TypeInv, TreeInv
      PROVE  ListingIsCurrent
  <2> SUFFICES ASSUME screen = "detail", ~astray, ~Outstanding
               PROVE  shown.nodes \in Listing(device, cur) /\ (shown.up <=> cur # Root)
      BY DEF ListingIsCurrent
  <2>1. device \in Devices /\ cur \in Folders
      BY <1>1 DEF TypeInv, Screens
  <2>2. ~UnderWay(device, cur)
      BY <1>1, <2>1, OutstandingFacts
  <2>3. QED
      BY <1>1, <2>2 DEF TreeInv, ShowsCurrent
<1>2. QED
    BY <1>1, TypeInit, TypeStep, TreeStep, PTL DEF Spec

(* ParentsAreTrue: ParentMap, written one entry at a time while the screen    *)
(* goes down, leads back through the true parents, however deep the tree is.  *)
THEOREM WayUpIsTrue == Spec => []ParentsAreTrue
<1>1. TreeInv => ParentsAreTrue
    BY DEF TreeInv, WayUp, ParentsAreTrue
<1>2. QED
    BY <1>1, TypeInit, TypeStep, TreeStep, PTL DEF Spec

=============================================================================
