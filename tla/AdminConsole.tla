---------------------------- MODULE AdminConsole ----------------------------
(***************************************************************************)
(* The admin console, cmd/webui/ui: a Bubble Tea program with a login      *)
(* screen, a dashboard of devices and a detail screen (file tree, command  *)
(* form) over one Session with the backend.                                *)
(*                                                                         *)
(* Update handles one message at a time; every tea.Cmd runs in a goroutine *)
(* of its own, so requests are sent, and their messages come back, in any  *)
(* order.  Replies of one connection come in the order of the requests.    *)
(* One goroutine, receiveLoop, reads the connection and hands each message *)
(* over an unbuffered channel to a WaitForMsg.                             *)
(***************************************************************************)
EXTENDS Naturals, Sequences, FiniteSets, Bags

CONSTANTS
    Devices,
    Dirs,        \* directories of all devices, by id
    Owner,       \* Owner[d]: the device of d
    Parent,      \* Parent[d]: its parent, or Root
    PageSize,    \* nodes in a listing
    Fields,      \* Fields[c]: number of fields of the form of command c
    MaxLogins,   \* bound on submitted logins, and so on connections
    MaxEvents,   \* bound on logins, keys pressed and broken connections together
    Root,        \* the nil CurrentDirID
    None

\* The id of the ".." row.
Up == "UP"

ASSUME ConsoleAssumption ==
    /\ Owner \in [Dirs -> Devices] /\ Parent \in [Dirs -> Dirs \union {Root}]
    /\ \A d \in Dirs : Parent[d] # Root => Owner[Parent[d]] = Owner[d]
    /\ Root \notin Dirs /\ Up \notin Dirs /\ None \notin Dirs \union Devices \union {Root}
    /\ Fields \in [DOMAIN Fields -> Nat \ {0}] /\ DOMAIN Fields # {}
    /\ PageSize \in Nat /\ MaxLogins \in Nat /\ MaxEvents \in Nat

VARIABLES
    screen,     \* RootModel.State
    conn,       \* Session.Client, 0 for nil; connections are numbered
    broken,     \* connections that are gone
    replies,    \* replies[k]: what the backend has sent on connection k
    loop,       \* receiveLoop; it has been started unless it is "off" (loopRunning)
    waiters,    \* WaitForMsg commands waiting for a message
    cmds,       \* a bag of requests in goroutines that have not run yet
    inbox,      \* a bag of messages for Update
    logins, keys,
    listed,     \* the dashboard's table has the devices
    device,     \* DeviceDetailModel.DeviceID
    cur,        \* CurrentDirID
    parentMap,  \* ParentMap
    shown,      \* CurrentNodes: the directories among them, and the ".." row
    focus,      \* tree or command form
    form,       \* CommandFormModel
    astray      \* history: a key was pressed while a listing was under way, or
                \* a listing failed or was lost

netVars  == <<conn, broken, replies, loop>>
teaVars  == <<waiters, cmds, inbox>>
treeVars == <<device, cur, parentMap, shown>>
vars == <<screen, netVars, teaVars, logins, keys, listed, treeVars, focus, form, astray>>

-----------------------------------------------------------------------------
Msg(op, a, b) == [op |-> op, a |-> a, b |-> b]

Conns  == 1..MaxLogins
Server == {"token", "denied", "devices", "tree", "error", "ack", "lost"}
NoMsg  == Msg("none", None, None)

Children(dev, dir) == {d \in Dirs : Owner[d] = dev /\ Parent[d] = dir}

\* The first page, which is all that is ever asked for: directories come before
\* files, the latest updated first, so which of too many it holds is open.
Listing(dev, dir) ==
    {S \in SUBSET Children(dev, dir) :
        S = Children(dev, dir) \/ (Cardinality(S) = PageSize /\ Cardinality(Children(dev, dir)) > PageSize)}

Blank == [nodes |-> {}, up |-> FALSE]

TypeOK ==
    /\ screen \in {"login", "dashboard", "detail", "quit"}
    /\ conn \in {0} \union Conns /\ broken \subseteq Conns
    /\ \A k \in Conns : \A i \in DOMAIN replies[k] : replies[k][i].op \in Server
    /\ loop.st \in {"off", "next", "reading", "holding", "exited"} /\ loop.conn \in {0} \union Conns
    /\ waiters \in Nat /\ IsABag(cmds) /\ IsABag(inbox)
    /\ logins \in 0..MaxLogins /\ keys \in 0..MaxEvents
    /\ listed \in BOOLEAN
    /\ device \in Devices \union {None} /\ cur \in Dirs \union {Root}
    /\ parentMap \in [Dirs \union {Up} -> Dirs \union {Root, None}]
    /\ shown \in [nodes : SUBSET Dirs, up : BOOLEAN]
    /\ focus \in {"tree", "command"}
    /\ form.state \in {"selecting", "filling"} /\ form.cmd \in DOMAIN Fields
    /\ form.focused \in 0..(Fields[form.cmd] + 1)
    /\ astray \in BOOLEAN

NoLoop    == [st |-> "off", conn |-> 0, msg |-> NoMsg]
NoParents == [d \in Dirs \union {Up} |-> None]

NewForm == [state |-> "selecting", cmd |-> CHOOSE c \in DOMAIN Fields : TRUE, focused |-> 0]

Init ==
    /\ screen = "login"
    /\ conn = 0 /\ broken = {} /\ replies = [k \in Conns |-> <<>>]
    /\ loop = NoLoop
    /\ waiters = 0 /\ cmds = EmptyBag /\ inbox = EmptyBag
    /\ logins = 0 /\ keys = 0
    /\ listed = FALSE
    /\ device = None /\ cur = Root
    /\ parentMap = NoParents
    /\ shown = Blank
    /\ focus = "tree" /\ form = NewForm
    /\ astray = FALSE

Adds(bag, S) == bag (+) SetToBag(S)
Takes(bag, x) == bag (-) SetToBag({x})

-----------------------------------------------------------------------------
(* The connection and receiveLoop.                                         *)

MoreEvents == logins + keys + Cardinality(broken) < MaxEvents

breaks(k) ==
    /\ k \in 1..conn /\ k \notin broken /\ MoreEvents
    /\ broken' = broken \union {k}
    /\ replies' = [replies EXCEPT ![k] = <<>>]
    /\ astray' = (astray \/ \E i \in DOMAIN replies[k] : replies[k][i].op = "tree")
    /\ UNCHANGED <<screen, conn, loop, teaVars, logins, keys, listed, treeVars, focus, form>>

\* receiveLoop takes Session.Client as it is when the read starts.
loop_reads ==
    /\ loop.st = "next"
    /\ loop' = [loop EXCEPT !.st = "reading", !.conn = conn]
    /\ UNCHANGED <<screen, conn, broken, replies, teaVars, logins, keys, listed, treeVars, focus, form, astray>>

RecvProtocolMessage ==
    /\ loop.st = "reading"
    /\ LET k == loop.conn
       IN  \/ /\ replies[k] # <<>>
              /\ loop' = [loop EXCEPT !.st = "holding", !.msg = Head(replies[k])]
              /\ replies' = [replies EXCEPT ![k] = Tail(@)]
           \/ /\ k \in broken
              /\ loop' = [loop EXCEPT !.st = "holding", !.msg = Msg("lost", None, None)]
              /\ UNCHANGED replies
    /\ UNCHANGED <<screen, conn, broken, teaVars, logins, keys, listed, treeVars, focus, form, astray>>

\* The unbuffered channel: a WaitForMsg takes what the loop holds.  After an
\* error the loop ends and loopRunning stays set.
WaitForMsg ==
    /\ loop.st = "holding" /\ waiters > 0
    /\ waiters' = waiters - 1
    /\ inbox' = Adds(inbox, {loop.msg})
    /\ loop' = [loop EXCEPT !.st = IF loop.msg.op = "lost" THEN "exited" ELSE "next", !.msg = NoMsg]
    /\ UNCHANGED <<screen, conn, broken, replies, cmds, logins, keys, listed, treeVars, focus, form, astray>>

-----------------------------------------------------------------------------
(* Goroutines of commands.  LoginCmd has three steps: Connect, which        *)
(* replaces the session's client, Login and the login request, both on the  *)
(* client that the session then has.                                        *)

Connect(c) ==
    /\ c.op = "connect"
    /\ \/ /\ conn' = conn + 1
          /\ cmds' = Adds(Takes(cmds, c), {Msg("hello", c.a, None)})
       \/ cmds' = Takes(cmds, c) /\ UNCHANGED conn
    /\ UNCHANGED <<broken, replies, loop, inbox, astray>>

\* MSG_LOGIN, which the backend does not answer, and the start of receiveLoop.
\* Errors end LoginCmd with a message that no model handles.
Login(c) ==
    /\ c.op = "hello"
    /\ \/ /\ conn \notin broken
          /\ cmds' = Adds(Takes(cmds, c), {Msg("login", c.a, None)})
          /\ loop' = IF loop.st = "off" THEN [loop EXCEPT !.st = "next"] ELSE loop
       \/ conn \in broken /\ cmds' = Takes(cmds, c) /\ UNCHANGED loop
    /\ UNCHANGED <<conn, broken, replies, inbox, astray>>

\* What the backend answers; a list can be too large for a reply (sendAckJSON).
Answers(c) ==
    CASE c.op = "login" -> {Msg(c.a, None, None)}
      [] c.op = "list"  -> {Msg("devices", None, None), Msg("error", None, None)}
      [] c.op = "tree"  -> {Msg("tree", c.a, c.b), Msg("error", None, None)}
      [] c.op = "send"  -> {Msg("ack", None, None), Msg("error", None, None)}

\* SendCommand: a frame to the backend, which handles the frames of a
\* connection one by one.  Errors of the send are dropped by every caller but
\* LoginCmd, which is then not submitted.
SendCommand(c) ==
    /\ c.op \in {"login", "list", "tree", "send"}
    /\ cmds' = Takes(cmds, c)
    /\ \/ /\ conn \notin broken
          /\ \E r \in Answers(c) :
                /\ replies' = [replies EXCEPT ![conn] = Append(@, r)]
                /\ astray' = (astray \/ (c.op = "tree" /\ r.op = "error"))
       \/ conn \in broken /\ astray' = (astray \/ c.op = "tree") /\ UNCHANGED replies
    /\ IF c.op = "login" /\ conn \notin broken
       THEN inbox' = Adds(inbox, {Msg("submitted", None, None)})
       ELSE UNCHANGED inbox
    /\ UNCHANGED <<conn, broken, loop>>

Runs(c) ==
    /\ BagIn(c, cmds)
    /\ Connect(c) \/ Login(c) \/ SendCommand(c)
    /\ UNCHANGED <<screen, waiters, logins, keys, listed, treeVars, focus, form>>

-----------------------------------------------------------------------------
(* RootModel.Update for messages.                                          *)

\* m is handled; new messages and requests are returned as commands.
Handled(m, msgs, reqs, waits) ==
    /\ BagIn(m, inbox)
    /\ inbox' = Adds(Takes(inbox, m), msgs)
    /\ cmds' = Adds(cmds, reqs)
    /\ waiters' = waiters + waits

Online == Msg("list", None, None)
Tree(dev, dir) == Msg("tree", dev, dir)

Outstanding ==
    \/ \E c \in BagToSet(cmds) : c.op = "tree"
    \/ \E k \in Conns : \E i \in DOMAIN replies[k] : replies[k][i].op = "tree"
    \/ loop.msg.op = "tree"
    \/ \E m \in BagToSet(inbox) : m.op \in {"tree", "loaded"}

\* Mutant: the login screen does not wait for the answer.
LoginWaits_not(m) == 0

\* The login screen waits once for each login it has submitted.
LoginWaits(m) == IF m.op = "submitted" THEN 1 ELSE 0

login_Update(m) ==
    /\ screen = "login"
    /\ \/ /\ m.op = "token" /\ conn \notin broken
          /\ Handled(m, {}, {Online}, 1)
          /\ screen' = "dashboard"
       \/ /\ m.op # "token" \/ conn \in broken
          /\ Handled(m, {}, {}, LoginWaits(m))
          /\ UNCHANGED screen
    /\ UNCHANGED <<listed, treeVars, focus, form, astray>>

dashboard_Update(m) ==
    /\ screen = "dashboard"
    /\ IF m.op = "selected"
       THEN /\ Handled(m, {}, {Tree(m.a, Root)}, 0)
            /\ screen' = "detail"
            /\ device' = m.a /\ cur' = Root
            /\ parentMap' = NoParents
            /\ shown' = Blank /\ focus' = "tree" /\ form' = NewForm
            /\ astray' = Outstanding
            /\ UNCHANGED listed
       ELSE /\ Handled(m, {}, {}, IF m.op \in Server THEN 1 ELSE 0)
            /\ listed' = (listed \/ m.op = "devices")
            /\ UNCHANGED <<screen, treeVars, focus, form, astray>>

\* Mutant: the detail screen does not wait for the next message.
Rearmed_not(m) == 0

Rearmed(m) == IF m.op \in Server THEN 1 ELSE 0

\* Mutant: no ".." row.
NodesShown_no_up(m) == [nodes : Listing(m.a, m.b), up : {FALSE}]

\* fileLoadedMsg: the nodes of the reply, with ".." by the directory the screen
\* is in now.
NodesShown(m) == [nodes : Listing(m.a, m.b), up : {cur # Root}]

\* A tree reply comes back once more, as a fileLoadedMsg; a list of devices or
\* an answer to a command goes to the log.
detail_Update(m) ==
    /\ screen = "detail"
    /\ IF m.op = "back"
       THEN /\ Handled(m, {}, {Online}, 0)
            /\ screen' = "dashboard"
            /\ UNCHANGED shown
       ELSE /\ Handled(m, IF m.op = "tree" THEN {Msg("loaded", m.a, m.b)} ELSE {}, {}, Rearmed(m))
            /\ shown' \in IF m.op = "loaded" THEN NodesShown(m) ELSE {shown}
            /\ UNCHANGED screen
    /\ UNCHANGED <<listed, device, cur, parentMap, focus, form, astray>>

Update(m) ==
    /\ login_Update(m) \/ dashboard_Update(m) \/ detail_Update(m)
    /\ UNCHANGED <<netVars, logins, keys>>

-----------------------------------------------------------------------------
(* Keys.                                                                   *)

\* Enter in the last field: LoginCmd starts, as often as Enter is pressed.
submit_login ==
    /\ screen = "login" /\ logins < MaxLogins /\ MoreEvents
    /\ logins' = logins + 1
    /\ \E answer \in {"token", "denied"} : cmds' = Adds(cmds, {Msg("connect", answer, None)})
    /\ UNCHANGED <<screen, netVars, waiters, inbox, keys, listed, treeVars, focus, form, astray>>

Key == MoreEvents /\ keys' = keys + 1

dashboard_key ==
    /\ screen = "dashboard" /\ Key
    /\ \/ cmds' = Adds(cmds, {Online}) /\ UNCHANGED inbox
       \/ /\ listed
          /\ \E d \in Devices : inbox' = Adds(inbox, {Msg("selected", d, None)})
          /\ UNCHANGED cmds
    /\ UNCHANGED <<screen, netVars, waiters, logins, listed, treeVars, focus, form, astray>>

\* Esc is the detail screen's own, also while a form is filled.
esc ==
    /\ screen = "detail" /\ Key
    /\ inbox' = Adds(inbox, {Msg("back", None, None)})
    /\ UNCHANGED <<screen, netVars, waiters, cmds, logins, listed, treeVars, focus, form, astray>>

\* Tab, F1 and F2.
change_focus ==
    /\ screen = "detail" /\ Key
    /\ focus' = IF focus = "tree" THEN "command" ELSE "tree"
    /\ UNCHANGED <<screen, netVars, teaVars, logins, listed, treeVars, form, astray>>

OnTree ==
    /\ screen = "detail" /\ focus = "tree" /\ Key
    /\ astray' = (astray \/ Outstanding)
    /\ UNCHANGED <<screen, netVars, waiters, inbox, logins, listed, device, shown, focus, form>>

\* ParentMap of a directory without an entry is nil.
ParentOf(map, d) == IF map[d] = None THEN Root ELSE map[d]

\* Mutant: the parent is stored after the directory has been changed.
enter_dir_late(d) ==
    /\ OnTree
    /\ d \in shown.nodes
    /\ parentMap' = [parentMap EXCEPT ![d] = d]
    /\ cur' = d
    /\ cmds' = Adds(cmds, {Tree(device, d)})

enter_dir(d) ==
    /\ OnTree
    /\ d \in shown.nodes
    /\ parentMap' = [parentMap EXCEPT ![d] = cur]
    /\ cur' = d
    /\ cmds' = Adds(cmds, {Tree(device, d)})

\* Enter on "..", whose parent is stored as well.
enter_up ==
    /\ OnTree
    /\ shown.up
    /\ parentMap' = [parentMap EXCEPT ![Up] = cur]
    /\ cur' = IF cur = Root THEN Root ELSE ParentOf(parentMap, cur)
    /\ cmds' = IF cur = Root THEN cmds ELSE Adds(cmds, {Tree(device, cur')})

backspace ==
    /\ OnTree
    /\ cur # Root
    /\ cur' = ParentOf(parentMap, cur)
    /\ cmds' = Adds(cmds, {Tree(device, cur')})
    /\ UNCHANGED parentMap

\* Keys of the form do not count as events.
OnForm(state) ==
    /\ screen = "detail" /\ focus = "command" /\ form.state = state
    /\ UNCHANGED <<screen, netVars, waiters, inbox, logins, listed, treeVars, focus, astray>>

\* Mutant: the focus stays where the last form had it.
initInputs_focus_kept(c) == [form EXCEPT !.state = "filling", !.cmd = c]

initInputs(c) == [state |-> "filling", cmd |-> c, focused |-> 0]

select_command(c) ==
    /\ OnForm("selecting")
    /\ form' = initInputs(c)
    /\ UNCHANGED <<cmds, keys>>

\* The fields, then Submit, then Back, round and round.
Cycle(step) == (form.focused + step) % (Fields[form.cmd] + 2)

move_focus ==
    /\ OnForm("filling")
    /\ \E step \in {1, Fields[form.cmd] + 1} : form' = [form EXCEPT !.focused = Cycle(step)]
    /\ UNCHANGED <<cmds, keys>>

\* The request with the form's fields as its payload.
submitCommand == Msg("send", device, None)

\* Enter: on to the next field, submitCommand, or back to the list.
enter_form ==
    /\ OnForm("filling")
    /\ \/ form.focused < Fields[form.cmd] /\ form' = [form EXCEPT !.focused = Cycle(1)] /\ UNCHANGED <<cmds, keys>>
       \/ /\ form.focused = Fields[form.cmd] /\ Key
          /\ cmds' = Adds(cmds, {submitCommand})
          /\ UNCHANGED form
       \/ /\ form.focused = Fields[form.cmd] + 1
          /\ form' = [form EXCEPT !.state = "selecting"]
          /\ UNCHANGED <<cmds, keys>>

\* Ctrl-C anywhere, q on the dashboard: the process ends, and with it all its
\* state.
quit ==
    /\ screen # "quit"
    /\ screen' = "quit"
    /\ conn' = 0 /\ broken' = {} /\ replies' = [k \in Conns |-> <<>>] /\ loop' = NoLoop
    /\ waiters' = 0 /\ cmds' = EmptyBag /\ inbox' = EmptyBag
    /\ logins' = 0 /\ keys' = 0 /\ listed' = FALSE
    /\ device' = None /\ cur' = Root /\ parentMap' = NoParents /\ shown' = Blank
    /\ focus' = "tree" /\ form' = NewForm /\ astray' = FALSE

-----------------------------------------------------------------------------
Running == loop_reads \/ RecvProtocolMessage \/ WaitForMsg

Pressed ==
    \/ submit_login \/ dashboard_key \/ esc \/ change_focus
    \/ enter_up \/ backspace \/ \E d \in Dirs : enter_dir(d)
    \/ move_focus \/ enter_form \/ \E c \in DOMAIN Fields : select_command(c)

Next ==
    \/ /\ screen # "quit"
       /\ \/ Running
          \/ \E c \in BagToSet(cmds) : Runs(c)
          \/ \E m \in BagToSet(inbox) : Update(m)
          \/ \E k \in Conns : breaks(k)
          \/ Pressed
    \/ quit

Spec == Init /\ [][Next]_vars

\* Goroutines run and Update is called; nobody owes a key.
FairSpec ==
    /\ Spec
    /\ WF_vars(screen # "quit" /\ Running)
    /\ WF_vars(screen # "quit" /\ \E c \in BagToSet(cmds) : Runs(c))
    /\ WF_vars(screen # "quit" /\ \E m \in BagToSet(inbox) : Update(m))

-----------------------------------------------------------------------------
(* After the login the console always has a WaitForMsg, or a message of the   *)
(* server that will bring one when Update handles it, across every change of  *)
(* screens with messages of the old screen still under way: the receive loop  *)
(* never holds a message nobody will take.                                    *)
NeverDeaf ==
    screen \in {"dashboard", "detail"} =>
        waiters > 0 \/ \E m \in BagToSet(inbox) : m.op \in Server

(* With no listing under way, the rows of the tree are a page of the device   *)
(* and the directory the screen says it is in, and all of it if it fits on    *)
(* one, provided no key was pressed before the last listing had arrived and   *)
(* no listing failed.                                                         *)
ListingIsCurrent ==
    screen = "detail" /\ ~astray /\ ~Outstanding =>
        shown.nodes \in Listing(device, cur) /\ (shown.up <=> cur # Root)

(* Going back leads through the true parents to the root, under the same      *)
(* proviso: ParentMap is only ever written by going down.                     *)
ParentsAreTrue ==
    screen = "detail" /\ ~astray =>
        /\ \A d \in Dirs : parentMap[d] \in {None, Parent[d]}
        /\ cur # Root => parentMap[cur] # None

Unread   == conn # 0 /\ (replies[conn] # <<>> \/ (loop.conn = conn /\ loop.st = "holding"))
Attached == loop.conn = conn /\ loop.st \in {"reading", "holding"} /\ conn \notin broken

(* What the backend answers reaches the screen, as long as the receive loop    *)
(* reads the session's present connection and that holds: whatever is pressed, *)
(* no two goroutines wait for each other over the unbuffered channel.          *)
RepliesAreTaken ==
    (Attached /\ Unread) ~> (conn \in broken \/ ~Unread)

=============================================================================
