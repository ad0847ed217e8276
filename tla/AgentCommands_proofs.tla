------------------------ MODULE AgentCommands_proofs ------------------------
(***************************************************************************)
(* Theorems about AgentCommands for any sets of commands, domains and      *)
(* foreign lines, and any number of starts and attempts.                   *)
(*                                                                         *)
(* RunsUnderIssuedId alone is not inductive: what BootstrapDevice and      *)
(* Connect use was put on disk, in memory or in the backend's table by     *)
(* earlier steps, perhaps of an earlier process.  Identity says what those *)
(* steps leave.                                                            *)
(*                                                                         *)
(* The hosts file: a blocked domain stands after a start marker and before *)
(* the next end marker in every file a write can leave, cut short or not   *)
(* (BlocksMarked), so that removeBlockSection leaves foreign lines only.   *)
(* The lines that are not lost stand outside of sections, in the file and  *)
(* in what is going to be written (Holds), so that it leaves all of them.  *)
(* Orders says what a block_website command still has to do while it runs. *)
(***************************************************************************)
EXTENDS AgentCommands, Subsequence_proofs, FiniteSetTheorems

Identity ==
    /\ cached \subseteq issued
    /\ tokenFile \in issued \union {"none"}
    /\ proc \in {"off", "token"} => me = "none"
    /\ proc = "bootstrap" => token \in issued /\ me \in issued \union {"none"}
    /\ RunsUnderIssuedId

BlocksMarked(lines) == \A i \in 1..Len(lines) : lines[i] \in Domains => Inside(lines, i)

Outside(lines, S) == \A i \in 1..Len(lines) : lines[i] \in S => ~Inside(lines, i)

\* The lines have those of w that are in S, in the same order, outside of sections.
Holds(lines, w, S) == Subsequence(lines, S) = Subsequence(w, S) /\ Outside(lines, S)

Text ==
    /\ BlocksMarked(hosts) /\ BlocksMarked(content)
    /\ stage # "truncated" => Holds(hosts, written, Foreign \ lost)
    /\ stage # "idle" => Holds(content, written, Foreign \ lost)

Process ==
    /\ ~Alive => failed /\ mutex = Nobody /\ loop = "recv"
    /\ loop # "block" => calls["loop"] = <<>>
    /\ proc # "stopping" => calls["main"] = <<>>
    /\ mutex # Nobody => calls[mutex] # <<>>

\* The file blocks exactly ds, in one section.
Shows(lines, ds) ==
    /\ Blocked(lines) = ds
    /\ Count(lines, Start) = Count(lines, End)
    /\ Count(lines, Start) = IF ds = {} THEN 0 ELSE 1

Enable  == [m |-> "enable"]
Disable == [m |-> "disable"]
SetTo(ds) == [m |-> "set", ds |-> ds]

Orders ==
    proc = "up" /\ ~failed =>
        \/ calls["loop"] = <<>> /\ Shows(hosts, block)
        \/ /\ calls["loop"] = <<SetTo(block), Enable>>
           /\ stage # "idle" => domains = block
        \/ /\ calls["loop"] = <<Enable>> /\ domains = block
           /\ stage # "idle" => Shows(content, block)
        \/ /\ calls["loop"] = <<Disable>> /\ block = {}
           /\ stage # "idle" => Shows(content, block)

AgentInv == CommandsTypeOK /\ Text /\ Process /\ Orders

-----------------------------------------------------------------------------
(* A login leaves the token, the id and the token file at one identity.     *)
LEMMA LoginKeepsIdentity ==
    ASSUME Identity, NEW id, Login(id)
    PROVE  Identity'
BY DEF Login, Issue, Identity, RunsUnderIssuedId

(* The end of the process leaves a state without identity.                  *)
LEMMA StopKeepsIdentity ==
    ASSUME Identity, Stop, tokenFile' \in {"none", tokenFile},
           UNCHANGED <<cached, issued>> \/ \E id : Issue(id)
    PROVE  Identity'
BY DEF Stop, Issue, Identity, RunsUnderIssuedId

(* A prompt for a login, with or without success.                           *)
LEMMA PromptKeepsIdentity == Identity /\ promptLogin => Identity'
<1> SUFFICES ASSUME Identity, NEW known \in Known, NEW id \in LoginIds(known),
                    Login(id) \/ Login_fails(id)
             PROVE  Identity'
    BY DEF promptLogin
<1>1. CASE Login(id)
    BY <1>1, LoginKeepsIdentity
<1>2. CASE Login_fails(id)
    BY <1>2, StopKeepsIdentity DEF Login_fails
<1>3. QED
    BY <1>1, <1>2

(* Every step of the start of the agent keeps Identity.                     *)
LEMMA StartingKeepsIdentity == Identity /\ Starting => Identity'
<1> SUFFICES ASSUME Identity, Starting
             PROVE  Identity'
    OBVIOUS
<1>1. CASE main_start
    BY <1>1 DEF main_start, Identity, RunsUnderIssuedId
<1>2. CASE LoadToken
  <2>1. token' \in issued /\ me' = me /\ proc' = "bootstrap" /\ UNCHANGED <<cached, issued, tokenFile>>
      BY <1>2 DEF LoadToken, Identity
  <2>2. me \in issued \union {"none"}
      BY <1>2 DEF LoadToken, Identity
  <2>3. QED
      BY <2>1, <2>2 DEF Identity, RunsUnderIssuedId
<1>3. CASE prompt_token
    BY <1>3, PromptKeepsIdentity DEF prompt_token
<1>4. ASSUME NEW id, BootstrapDevice_ok(id)
      PROVE  Identity'
    BY <1>4 DEF BootstrapDevice_ok, Identity, RunsUnderIssuedId
<1>5. ASSUME NEW id, BootstrapDevice_unauthorized(id)
      PROVE  Identity'
    BY <1>5, PromptKeepsIdentity DEF BootstrapDevice_unauthorized
<1>6. CASE BootstrapDevice_error
    BY <1>6, StopKeepsIdentity DEF BootstrapDevice_error
<1>7. CASE Connect
    BY <1>7 DEF Connect, Identity, RunsUnderIssuedId
<1>8. CASE Connect_fails
  <2>1. CASE Stop
      BY <1>8, <2>1, StopKeepsIdentity DEF Connect_fails
  <2>2. CASE UNCHANGED <<proc, me, token>>
      BY <1>8, <2>2 DEF Connect_fails, Identity, RunsUnderIssuedId
  <2>3. QED
      BY <1>8, <2>1, <2>2 DEF Connect_fails
<1>9. ASSUME NEW id, token_dropped(id)
      PROVE  Identity'
    BY <1>9 DEF token_dropped, Identity, RunsUnderIssuedId
<1>10. QED
    BY <1>1, <1>2, <1>3, <1>4, <1>5, <1>6, <1>7, <1>8, <1>9 DEF Starting

(* The end of the process by a kill, a panic or the return of main.         *)
LEMMA ExitKeepsIdentity == Identity /\ Exit => Identity'
BY StopKeepsIdentity DEF Exit

(* Commands leave the identity alone, or end the process.                   *)
LEMMA DispatchKeepsIdentity ==
    ASSUME Identity, NEW c \in Commands, Dispatch(c)
    PROVE  Identity'
<1>1. CASE UNCHANGED startVars
    BY <1>1 DEF startVars, Identity, RunsUnderIssuedId
<1>2. CASE Exit
    BY <1>2, ExitKeepsIdentity
<1>3. QED
    BY <1>1, <1>2 DEF Dispatch, dispatch_refused, backup_once, backup_stream, other_stream,
       get_logs_once, block_once, restore_once

-----------------------------------------------------------------------------
(* RunsUnderIssuedId: in every run, with any number of restarts, logins and  *)
(* answers of osquery, the agent serves under a device id that the backend   *)
(* has issued a token for, with a token that the backend has issued.         *)
THEOREM AgentRunsAsLoggedIn == Spec => []RunsUnderIssuedId
<1>1. Init => Identity
    BY DEF Init, StartInit, Identity, RunsUnderIssuedId
<1>2. Identity /\ [Next]_vars => Identity'
  <2> SUFFICES ASSUME Identity, [Next]_vars
               PROVE  Identity'
      OBVIOUS
  <2>1. CASE UNCHANGED startVars
      BY <2>1 DEF startVars, Identity, RunsUnderIssuedId
  <2>2. CASE Starting
      BY <2>2, StartingKeepsIdentity
  <2>3. CASE link_lost \/ shutdown_signal \/ IsEnabled
      BY <2>3 DEF link_lost, shutdown_signal, IsEnabled, Identity, RunsUnderIssuedId
  <2>4. CASE Killed \/ main_returns
      BY <2>4, ExitKeepsIdentity DEF Killed, main_returns
  <2>5. ASSUME NEW c \in Commands, Dispatch(c)
        PROVE  Identity'
      BY <2>5, DispatchKeepsIdentity
  <2>6. QED
      BY <2>1, <2>2, <2>3, <2>4, <2>5
      DEF Next, vars, Environment, HostsStep, Handler, HandleOnce_returns, DownloadFile
<1>3. Identity => RunsUnderIssuedId
    BY DEF Identity
<1>4. QED
    BY <1>1, <1>2, <1>3, PTL DEF Spec

(* BackupOffStaysOff: for any sequence of backup_auto commands, as once or   *)
(* as stream, with or without an argument, and any restarts in between, the  *)
(* scheduler's flag is on only if the last explicit order of this process    *)
(* was on, or there was none.                                                *)
THEOREM OffStaysOff == Spec => []BackupOffStaysOff
<1> DEFINE Inv == auto \in BOOLEAN /\ order \in BOOLEAN /\ BackupOffStaysOff
<1>1. Init => Inv
    BY DEF Init, BackupOffStaysOff
<1>2. Inv /\ [Next]_vars => Inv'
  <2> SUFFICES ASSUME Inv, [Next]_vars
               PROVE  Inv'
      OBVIOUS
  <2>1. CASE UNCHANGED <<auto, order>>
      BY <2>1 DEF BackupOffStaysOff
  <2>2. CASE Exit
      BY <2>2 DEF Exit, BackupOffStaysOff
  <2>3. ASSUME NEW c \in Commands, backup_once(c)
        PROVE  Inv'
      BY <2>3 DEF backup_once, SetBackup, Ordered, Typed, BackupOffStaysOff
  <2>4. ASSUME NEW c \in Commands, backup_stream(c)
        PROVE  Inv'
      BY <2>4 DEF backup_stream, SetBackup, Ordered, Typed, Decodes, BackupOffStaysOff
  <2>5. QED
      BY <2>1, <2>2, <2>3, <2>4
      DEF Next, vars, cmdVars, Environment, Starting, Killed, shutdown_signal, IsEnabled, main_returns, HostsStep,
          Handler, HandleOnce_returns, DownloadFile, Dispatch, dispatch_refused, other_stream,
          get_logs_once, block_once, restore_once
<1>3. Inv => BackupOffStaysOff
    OBVIOUS
<1>4. QED
    BY <1>1, <1>2, <1>3, PTL DEF Spec

-----------------------------------------------------------------------------
(* The text of the file.                                                     *)
First == [inBlock |-> FALSE, result |-> <<>>]

(* The loop of removeBlockSection has a result.                              *)
LEMMA ScanDefined ==
    ASSUME NEW lines \in Seq(Lines)
    PROVE  \E f : /\ \A i \in 0..Len(lines) : f[i] = IF i = 0 THEN First ELSE scanLine(f[i - 1], lines[i])
                  /\ removeBlockSection(lines) = f[Len(lines)].result
<1> DEFINE N == Len(lines)
           Step(f, i) == IF i = 0 THEN First ELSE scanLine(f[i - 1], lines[i])
           Up(f, n) == f = [i \in 0..n |-> Step(f, i)]
           G == {n \in 0..N : \E f : Up(f, n)}
<1>1. N \in Nat
    BY LenProperties
<1>2. 0 \in G
  <2>1. Up([i \in 0..0 |-> First], 0)
      OBVIOUS
  <2>2. 0 \in 0..N
      BY <1>1
  <2> HIDE DEF Up
  <2>3. QED
      BY <2>1, <2>2
<1>3. ASSUME NEW n \in 1..N, n - 1 \in G
      PROVE  n \in G
  <2>1. PICK f : Up(f, n - 1)
      BY <1>3
  <2> DEFINE g == [i \in 0..n |-> IF i = n THEN Step(f, n) ELSE f[i]]
  <2>2. \A i \in 0..(n - 1) : f[i] = Step(f, i)
      BY <2>1
  <2>3. n \in Nat /\ n # 0 /\ n \in 0..N
      BY <1>1, <1>3
  <2>4. \A i \in 0..n : Step(g, i) = Step(f, i)
      BY <2>3
  <2>5. \A i \in 0..n : g[i] = Step(g, i)
    <3> HIDE DEF Step
    <3>1. \A i \in 0..n : i # n => i \in 0..(n - 1)
        BY <2>3
    <3>2. QED
        BY <2>2, <2>4, <3>1
  <2>6. Up(g, n)
    <3> HIDE DEF Step
    <3> QED BY <2>5
  <2>7. QED
      BY <2>3, <2>6
<1>4. \A n \in 0..N : n \in G
  <2> HIDE DEF G
  <2> QED BY <1>1, <1>2, <1>3, InductionUpTo
<1>5. N \in 0..N
    BY <1>1
<1>6. \E f : Up(f, N)
    BY <1>4, <1>5
<1>7. Up((CHOOSE f : Up(f, N)), N)
    BY <1>6
<1>8. removeBlockSection(lines) = (CHOOSE f : Up(f, N))[N].result
    BY DEF removeBlockSection, First
<1>9. QED
  <2> DEFINE h == CHOOSE f : Up(f, N)
  <2>1. h = [i \in 0..N |-> Step(h, i)]
      BY <1>7
  <2>2. removeBlockSection(lines) = h[N].result
      BY <1>8
  <2> HIDE DEF h
  <2>3. \A i \in 0..N : h[i] = Step(h, i)
    <3> HIDE DEF Step
    <3> QED BY <2>1
  <2>4. QED
      BY <2>2, <2>3

(* How a line changes whether the text is inside a section.                   *)
LEMMA InsideStep ==
    ASSUME NEW lines, NEW n \in Nat, n # 0
    PROVE  /\ lines[n] = Start => Inside(lines, n)
           /\ lines[n] = End => ~Inside(lines, n)
           /\ lines[n] \notin {Start, End} => (Inside(lines, n) <=> Inside(lines, n - 1))
<1>1. Start # End
    BY HostsAssumption
<1>2. \A j : j \in 1..n <=> j \in 1..(n - 1) \/ j = n
    OBVIOUS
<1>3. n \in 1..n /\ (n + 1)..n = {}
    OBVIOUS
<1>4. \A j \in 1..(n - 1) : n \in (j + 1)..n /\ \A k : k \in (j + 1)..n <=> k \in (j + 1)..(n - 1) \/ k = n
    OBVIOUS
<1>5. lines[n] = Start => Inside(lines, n)
    BY <1>3 DEF Inside
<1>6. lines[n] = End => ~Inside(lines, n)
    BY <1>1, <1>2, <1>4 DEF Inside
<1>7. ASSUME lines[n] \notin {Start, End}
      PROVE  Inside(lines, n) <=> Inside(lines, n - 1)
  <2>1. Inside(lines, n) => Inside(lines, n - 1)
      BY <1>2, <1>4, <1>7 DEF Inside
  <2>2. Inside(lines, n - 1) => Inside(lines, n)
      BY <1>2, <1>4, <1>7 DEF Inside
  <2>3. QED
      BY <2>1, <2>2
<1>8. QED
    BY <1>5, <1>6, <1>7

(* Nothing comes before the first line.                                      *)
LEMMA NotInsideAtStart == \A lines : ~Inside(lines, 0)
BY DEF Inside

(* From a file whose blocked domains are in sections, removeBlockSection      *)
(* leaves foreign lines only, and all that are outside of sections.           *)
LEMMA SectionRemoved ==
    ASSUME NEW lines \in Seq(Lines), BlocksMarked(lines), NEW S \in SUBSET Foreign
    PROVE  /\ removeBlockSection(lines) \in Seq(Foreign)
           /\ Outside(lines, S) => Subsequence(removeBlockSection(lines), S) = Subsequence(lines, S)
<1> DEFINE N == Len(lines)
           T == [inBlock : BOOLEAN, result : Seq(Foreign)]
<1>1. N \in Nat /\ \A i \in 1..N : lines[i] \in Lines
    BY LenProperties, ElementOfSeq
<1>2. PICK f : /\ \A i \in 0..N : f[i] = IF i = 0 THEN First ELSE scanLine(f[i - 1], lines[i])
               /\ removeBlockSection(lines) = f[N].result
    BY ScanDefined
<1>3. PICK g : /\ g = [i \in 0..N |-> IF i = 0 THEN <<>>
                                      ELSE IF lines[i] \in S THEN Append(g[i - 1], lines[i])
                                      ELSE g[i - 1]]
               /\ Subsequence(lines, S) = g[N]
    BY SubsequenceDefined
<1>4. \A i \in 0..N : g[i] = IF i = 0 THEN <<>>
                             ELSE IF lines[i] \in S THEN Append(g[i - 1], lines[i])
                             ELSE g[i - 1]
    BY <1>3
<1> HIDE DEF N
<1> DEFINE Good(r, n) == /\ r \in T
                         /\ r.inBlock <=> Inside(lines, n)
                         /\ Outside(lines, S) => Subsequence(r.result, S) = g[n]
           G == {n \in 0..N : Good(f[n], n)}
<1>5. 0 \in G
  <2>1. 0 \in 0..N
      BY <1>1
  <2>2. f[0] = First /\ g[0] = <<>>
      BY <1>2, <1>4, <2>1
  <2>3. First \in T /\ First.inBlock = FALSE /\ First.result = <<>>
    <3>1. <<>> \in Seq(Foreign)
        BY EmptySeq
    <3>2. QED
        BY <3>1 DEF First
  <2>4. Subsequence(<<>>, S) = <<>>
      BY EmptySeq, SubsequenceAll
  <2>6. Good(f[0], 0)
      BY <2>2, <2>3, <2>4, NotInsideAtStart, Zenon
  <2>7. QED
      BY <2>1, <2>6, Zenon
<1>6. ASSUME NEW n \in 1..N, n - 1 \in G
      PROVE  n \in G
  <2> DEFINE r == f[n - 1]
             line == lines[n]
  <2>1. n \in 0..N /\ n \in Nat /\ n # 0 /\ Good(r, n - 1) /\ line \in Lines
      BY <1>1, <1>6
  <2>2. f[n] = scanLine(r, line)
      BY <1>2, <2>1
  <2>3. g[n] = IF line \in S THEN Append(g[n - 1], line) ELSE g[n - 1]
      BY <1>4, <2>1
  <2>4. /\ line = Start => Inside(lines, n)
        /\ line = End => ~Inside(lines, n)
        /\ line \notin {Start, End} => (Inside(lines, n) <=> Inside(lines, n - 1))
      BY <2>1, InsideStep
  <2>5. /\ r \in T
        /\ r.inBlock <=> Inside(lines, n - 1)
        /\ Outside(lines, S) => Subsequence(r.result, S) = g[n - 1]
      BY <2>1
  <2>6. /\ line \in Domains => Inside(lines, n)
        /\ Outside(lines, S) /\ line \in S => ~Inside(lines, n)
      BY DEF BlocksMarked, Outside, N
  <2> HIDE DEF r, line, Good
  <2>7. CASE line = Start
    <3>1. f[n] = [r EXCEPT !.inBlock = TRUE]
        BY <2>2, <2>7, HostsAssumption DEF scanLine
    <3>2. f[n] \in T /\ f[n].inBlock = TRUE /\ f[n].result = r.result
        BY <2>5, <3>1
    <3>3. g[n] = g[n - 1]
        BY <2>3, <2>7, HostsAssumption
    <3>4. Good(f[n], n)
        BY <2>4, <2>5, <2>7, <3>2, <3>3, Zenon DEF Good
    <3>5. QED
        BY <2>1, <3>4, Zenon
  <2>8. CASE line = End
    <3>1. f[n] = [r EXCEPT !.inBlock = FALSE]
        BY <2>2, <2>8, HostsAssumption DEF scanLine
    <3>2. f[n] \in T /\ f[n].inBlock = FALSE /\ f[n].result = r.result
        BY <2>5, <3>1
    <3>3. g[n] = g[n - 1]
        BY <2>3, <2>8, HostsAssumption
    <3>4. Good(f[n], n)
        BY <2>4, <2>5, <2>8, <3>2, <3>3, Zenon DEF Good
    <3>5. QED
        BY <2>1, <3>4, Zenon
  <2>9. CASE line \notin {Start, End} /\ r.inBlock
    <3>1. f[n] = r
        BY <2>2, <2>9 DEF scanLine
    <3>2. Outside(lines, S) => g[n] = g[n - 1]
        BY <2>3, <2>4, <2>5, <2>6, <2>9
    <3>3. Good(f[n], n)
        BY <2>4, <2>5, <2>9, <3>1, <3>2, Zenon DEF Good
    <3>4. QED
        BY <2>1, <3>3, Zenon
  <2>10. CASE line \notin {Start, End} /\ ~r.inBlock
    <3>1. line \in Foreign
        BY <2>1, <2>4, <2>5, <2>6, <2>10 DEF Lines
    <3>2. f[n] = [r EXCEPT !.result = Append(r.result, line)]
        BY <2>2, <2>10 DEF scanLine
    <3>3. Append(r.result, line) \in Seq(Foreign)
        BY <2>5, <3>1, AppendElems
    <3>4. f[n] \in T /\ f[n].inBlock = r.inBlock /\ f[n].result = Append(r.result, line)
        BY <2>5, <3>2, <3>3
    <3>5. Outside(lines, S) => Subsequence(Append(r.result, line), S) = g[n]
      <4>1. r.result \in Seq(Foreign)
          BY <2>5
      <4>2. CASE line \in S
        <5>1. Subsequence(Append(r.result, line), S) = Append(Subsequence(r.result, S), line)
            BY <3>1, <4>1, <4>2, SubsequenceAppend
        <5>2. QED
            BY <2>3, <2>5, <4>2, <5>1
      <4>3. CASE line \notin S
        <5>1. Subsequence(Append(r.result, line), S) = Subsequence(r.result, S)
            BY <3>1, <4>1, <4>3, SubsequenceSkip
        <5>2. QED
            BY <2>3, <2>5, <4>3, <5>1
      <4>4. QED
          BY <4>2, <4>3
    <3>6. Good(f[n], n)
        BY <2>4, <2>5, <2>10, <3>4, <3>5, Zenon DEF Good
    <3>7. QED
        BY <2>1, <3>6, Zenon
  <2>11. QED
      BY <2>7, <2>8, <2>9, <2>10
<1>7. \A n \in 0..N : n \in G
  <2> HIDE DEF G
  <2> QED BY <1>1, <1>5, <1>6, InductionUpTo
<1>8. Good(f[N], N)
    BY <1>1, <1>7
<1>9. QED
    BY <1>2, <1>3, <1>8

-----------------------------------------------------------------------------
(* Being in a section depends on the lines up to there only.                 *)
LEMMA InsideSame ==
    ASSUME NEW t, NEW u, NEW n \in Nat, \A i \in 1..n : u[i] = t[i], NEW m \in 0..n
    PROVE  Inside(u, m) <=> Inside(t, m)
<1>1. \A j \in 1..m : j \in 1..n /\ \A k \in (j + 1)..m : k \in 1..n
    OBVIOUS
<1>2. QED
    BY <1>1 DEF Inside

(* An empty file has every shape.                                            *)
LEMMA EmptyText ==
    /\ <<>> \in Seq(Lines) /\ BlocksMarked(<<>>) /\ \A S : Holds(<<>>, <<>>, S)
<1>1. <<>> \in Seq(Lines) /\ Len(<<>>) = 0
    BY EmptySeq
<1>2. BlocksMarked(<<>>) /\ \A S : Outside(<<>>, S)
    BY <1>1 DEF BlocksMarked, Outside
<1>3. QED
    BY <1>1, <1>2 DEF Holds

(* Of the lines that a text holds, it also holds any part.                    *)
LEMMA HoldsFewer ==
    ASSUME NEW t \in Seq(Lines), NEW w \in Seq(Foreign), NEW S, NEW T, T \subseteq S, Holds(t, w, S)
    PROVE  Holds(t, w, T)
<1>1. Subsequence(Subsequence(t, S), T) = Subsequence(t, T)
    BY SubsequenceTwice
<1>2. Subsequence(Subsequence(w, S), T) = Subsequence(w, T)
    BY SubsequenceTwice
<1>3. QED
    BY <1>1, <1>2 DEF Holds, Outside

(* A file that is cut off keeps its blocked domains in sections, and holds    *)
(* the lines that were not behind the cut.                                    *)
LEMMA CutText ==
    ASSUME NEW t \in Seq(Lines), BlocksMarked(t), NEW k \in 0..Len(t)
    PROVE  /\ SubSeq(t, 1, k) \in Seq(Lines) /\ BlocksMarked(SubSeq(t, 1, k))
           /\ \A w, S : Holds(t, w, S) /\ (\A i \in (k + 1)..Len(t) : t[i] \notin S)
                            => Holds(SubSeq(t, 1, k), w, S)
<1> DEFINE u == SubSeq(t, 1, k)
<1>1. Len(t) \in Nat /\ k \in Int /\ k \in Nat
    BY LenProperties
<1>2. \A i \in 1..k : t[i] \in Lines
    BY <1>1, ElementOfSeq
<1>3. u \in Seq(Lines) /\ Len(u) = k /\ \A i \in 1..k : u[i] = t[i]
  <2>1. /\ u \in Seq(Lines)
        /\ Len(u) = IF 1 <= k THEN k - 1 + 1 ELSE 0
        /\ \A i \in 1..(k - 1 + 1) : u[i] = t[1 + i - 1]
      BY <1>1, <1>2, SubSeqProperties
  <2> HIDE DEF u
  <2>2. QED
      BY <1>1, <2>1
<1> HIDE DEF u
<1>4. \A i \in 1..k : i \in 1..Len(t) /\ (Inside(u, i) <=> Inside(t, i))
  <2>1. \A i \in 1..k : i \in 0..k /\ i \in 1..Len(t)
      BY <1>1
  <2>2. QED
      BY <1>1, <1>3, <2>1, InsideSame
<1>5. BlocksMarked(u)
    BY <1>3, <1>4 DEF BlocksMarked
<1>6. ASSUME NEW w, NEW S, Holds(t, w, S), \A i \in (k + 1)..Len(t) : t[i] \notin S
      PROVE  Holds(u, w, S)
  <2>1. Outside(u, S)
      BY <1>3, <1>4, <1>6 DEF Holds, Outside
  <2>2. Len(u) <= Len(t) /\ \A i \in 1..Len(t) : i > Len(u) => i \in (k + 1)..Len(t)
      BY <1>1, <1>3
  <2>3. \A i \in 1..Len(t) : i > Len(u) => t[i] \notin S
      BY <1>6, <2>2
  <2>4. \A i \in 1..Len(u) : t[i] = u[i]
      BY <1>3
  <2>5. Subsequence(t, S) = Subsequence(u, S)
      BY <1>3, <2>2, <2>3, <2>4, SubsequenceExtended
  <2>6. QED
      BY <1>6, <2>1, <2>5 DEF Holds
<1>7. QED
    BY <1>3, <1>5, <1>6 DEF u

(* A foreign line at the end changes nothing of the sections, and is held if   *)
(* the last section is closed.                                                *)
LEMMA AppendText ==
    ASSUME NEW t \in Seq(Lines), NEW l \in Foreign, BlocksMarked(t)
    PROVE  /\ Append(t, l) \in Seq(Lines) /\ BlocksMarked(Append(t, l))
           /\ \A w \in Seq(Foreign) : \A S :
                 Holds(t, w, S) /\ (l \in S => ~Inside(t, Len(t))) => Holds(Append(t, l), Append(w, l), S)
           /\ \A ds : Shows(t, ds) => Shows(Append(t, l), ds)
<1> DEFINE u == Append(t, l)
           n == Len(t)
<1>1. l \in Lines /\ l \notin Domains /\ l # Start /\ l # End
    BY HostsAssumption DEF Lines
<1>2. u \in Seq(Lines) /\ Len(u) = n + 1 /\ n \in Nat /\ u[n + 1] = l /\ \A i \in 1..n : u[i] = t[i]
    BY <1>1, AppendElems
<1>3. ASSUME NEW w \in Seq(Foreign), NEW S, Subsequence(t, S) = Subsequence(w, S)
      PROVE  Subsequence(u, S) = Subsequence(Append(w, l), S)
  <2>1. CASE l \in S
    <3>1. Subsequence(u, S) = Append(Subsequence(t, S), l)
        BY <1>1, <2>1, SubsequenceAppend
    <3>2. Subsequence(Append(w, l), S) = Append(Subsequence(w, S), l)
        BY <2>1, SubsequenceAppend
    <3>3. QED
        BY <1>3, <3>1, <3>2
  <2>2. CASE l \notin S
    <3>1. Subsequence(u, S) = Subsequence(t, S)
        BY <1>1, <2>2, SubsequenceSkip
    <3>2. Subsequence(Append(w, l), S) = Subsequence(w, S)
        BY <2>2, SubsequenceSkip
    <3>3. QED
        BY <1>3, <3>1, <3>2
  <2>3. QED
      BY <2>1, <2>2
<1>4. DOMAIN t = 1..n /\ DOMAIN u = 1..(n + 1)
    BY <1>2, LenProperties
<1> HIDE DEF u, n
<1>5. \A i : i \in 1..(n + 1) <=> i \in 1..n \/ i = n + 1
    BY <1>2
<1>6. \A i \in 0..n : Inside(u, i) <=> Inside(t, i)
    BY <1>2, InsideSame
<1>7. Inside(u, n + 1) <=> Inside(u, n)
  <2>1. n + 1 \in Nat /\ n + 1 # 0 /\ (n + 1) - 1 = n
      BY <1>2
  <2>2. u[n + 1] \notin {Start, End}
      BY <1>1, <1>2
  <2>3. QED
      BY <2>1, <2>2, InsideStep
<1>8. n \in 0..n /\ \A i \in 1..n : i \in 0..n
    BY <1>2
<1>9. BlocksMarked(u)
    BY <1>1, <1>2, <1>5, <1>6, <1>8 DEF BlocksMarked, n
<1>10. ASSUME NEW w \in Seq(Foreign), NEW S, Holds(t, w, S), l \in S => ~Inside(t, n)
       PROVE  Holds(u, Append(w, l), S)
  <2>1. Outside(u, S)
      BY <1>2, <1>5, <1>6, <1>7, <1>8, <1>10 DEF Holds, Outside, n
  <2>2. QED
      BY <1>3, <1>10, <2>1 DEF Holds
<1>11. \A i \in 1..(n + 1) : u[i] \in Domains \union {Start, End} => i \in 1..n
    BY <1>1, <1>2, <1>5
<1>12. {i \in DOMAIN u : u[i] = Start} = {i \in DOMAIN t : t[i] = Start}
    BY <1>2, <1>4, <1>5, <1>11
<1>13. {i \in DOMAIN u : u[i] = End} = {i \in DOMAIN t : t[i] = End}
    BY <1>2, <1>4, <1>5, <1>11
<1>14. Blocked(u) = Blocked(t)
    BY <1>2, <1>4, <1>5, <1>11 DEF Blocked
<1>15. \A ds : Shows(t, ds) => Shows(u, ds)
    BY <1>12, <1>13, <1>14, Zenon DEF Shows, Count
<1>16. QED
    BY <1>2, <1>9, <1>10, <1>15 DEF u, n

(* The domains of a section, each once.                                       *)
LEMMA SetToSeqFacts ==
    ASSUME NEW ds \in SUBSET Domains
    PROVE  /\ SetToSeq(ds) \in Seq(Domains) /\ Len(SetToSeq(ds)) \in Nat
           /\ \A i \in 1..Len(SetToSeq(ds)) : SetToSeq(ds)[i] \in ds
           /\ \A x \in ds : \E i \in 1..Len(SetToSeq(ds)) : SetToSeq(ds)[i] = x
<1> DEFINE n == Cardinality(ds)
           q == SetToSeq(ds)
<1>1. IsFiniteSet(ds)
    BY HostsAssumption, FS_Subset
<1>2. n \in Nat /\ ExistsBijection(1..n, ds)
    BY <1>1, FS_CardinalityType
<1> HIDE DEF n
<1>3. \E f \in [1..n -> ds] : IsInjective(f)
    BY <1>2 DEF ExistsBijection, Bijection, Injection
<1>4. q \in [1..n -> ds] /\ IsInjective(q)
    BY <1>3, Zenon DEF SetToSeq, n
<1> HIDE DEF q
<1>5. q \in Injection(1..n, ds)
    BY <1>4, Zenon DEF Injection
<1>6. Cardinality(1..n) = n
    BY <1>2, FS_Interval
<1>7. q \in Surjection(1..n, ds)
    BY <1>1, <1>5, <1>6, FS_Injection DEF n
<1>8. Len(q) = n /\ q \in Seq(Domains)
    BY <1>2, <1>4
<1>9. QED
    BY <1>2, <1>4, <1>7, <1>8 DEF Surjection, q

(* Foreign lines and one section after them.                                  *)
LEMMA SectionText ==
    ASSUME NEW R \in Seq(Foreign), NEW ds \in SUBSET Domains, NEW S \in SUBSET Foreign
    PROVE  LET t == R \o (IF ds = {} THEN <<>> ELSE <<Start>> \o SetToSeq(ds) \o <<End>>)
           IN  /\ t \in Seq(Lines) /\ BlocksMarked(t) /\ Outside(t, S)
               /\ Subsequence(t, S) = Subsequence(R, S) /\ Shows(t, ds)
<1> DEFINE t == R \o (IF ds = {} THEN <<>> ELSE <<Start>> \o SetToSeq(ds) \o <<End>>)
           a == Len(R)
<1>1. R \in Seq(Lines) /\ a \in Nat /\ \A i \in 1..a : R[i] \in Foreign
    BY SeqMonotonic, LenProperties, ElementOfSeq DEF Lines
<1>2. /\ Start # End /\ Start \notin Foreign /\ End \notin Foreign
      /\ Start \notin Domains /\ End \notin Domains
      /\ \A x \in Domains : x \notin Foreign
    BY HostsAssumption
<1>3. \A x \in S : x \in Foreign
    OBVIOUS
<1>4. CASE ds = {}
  <2>1. t = R
      BY <1>4, ConcatEmptySeq
  <2>2. DOMAIN R = 1..a
      BY LenProperties
  <2> HIDE DEF t
  <2>3. \A i \in 1..a : R[i] \notin Domains /\ R[i] # Start /\ R[i] # End
      BY <1>1, <1>2
  <2>4. \A m \in 0..a : ~Inside(R, m)
      BY <1>1, <2>3 DEF Inside
  <2> HIDE DEF a
  <2>5. BlocksMarked(R)
      BY <2>3 DEF BlocksMarked, a
  <2>6. Outside(R, S)
    <3>1. \A i \in 1..a : i \in 0..a
        BY <1>1
    <3>2. QED
        BY <2>4, <3>1 DEF Outside, a
  <2>7. {i \in DOMAIN R : R[i] = Start} = {} /\ {i \in DOMAIN R : R[i] = End} = {}
      BY <2>2, <2>3
  <2>8. Blocked(R) = {}
      BY <2>2, <2>3 DEF Blocked
  <2>9. Shows(R, ds)
      BY <1>4, <2>7, <2>8, FS_EmptySet DEF Shows, Count
  <2>10. QED
      BY <1>1, <2>1, <2>5, <2>6, <2>9 DEF t
<1>5. CASE ds # {}
  <2> DEFINE q == SetToSeq(ds)
             b == Len(q)
             s1 == <<Start>> \o q
             s2 == s1 \o <<End>>
  <2>1. /\ q \in Seq(Domains) /\ b \in Nat
        /\ \A i \in 1..b : q[i] \in ds
        /\ \A x \in ds : \E i \in 1..b : q[i] = x
      BY SetToSeqFacts
  <2>2. t = R \o s2
      BY <1>5
  <2> HIDE DEF q, t
  <2>3. /\ <<Start>> \in Seq(Lines) /\ <<End>> \in Seq(Lines) /\ q \in Seq(Lines)
        /\ Len(<<Start>>) = 1 /\ Len(<<End>>) = 1 /\ <<Start>>[1] = Start /\ <<End>>[1] = End
    <3>1. q \in Seq(Lines)
        BY <2>1, SeqMonotonic DEF Lines
    <3>2. Start \in Lines /\ End \in Lines
        BY DEF Lines
    <3>3. QED
        BY <3>1, <3>2
  <2>4. /\ s1 \in Seq(Lines) /\ Len(s1) = 1 + b
        /\ s1[1] = Start /\ \A i \in 2..(1 + b) : s1[i] = q[i - 1]
    <3>1. /\ s1 \in Seq(Lines) /\ Len(s1) = 1 + b
          /\ \A i \in 1..(1 + b) : s1[i] = IF i <= 1 THEN <<Start>>[i] ELSE q[i - 1]
        BY <2>3, ConcatProperties
    <3> HIDE DEF s1, b
    <3>2. QED
        BY <2>1, <2>3, <3>1
  <2> HIDE DEF s1, b
  <2>5. /\ s2 \in Seq(Lines) /\ Len(s2) = b + 2
        /\ s2[1] = Start /\ \A i \in 2..(1 + b) : s2[i] = q[i - 1]
        /\ s2[b + 2] = End
    <3>1. /\ s2 \in Seq(Lines) /\ Len(s2) = (1 + b) + 1
          /\ \A i \in 1..((1 + b) + 1) : s2[i] = IF i <= 1 + b THEN s1[i] ELSE <<End>>[i - (1 + b)]
        BY <2>3, <2>4, ConcatProperties
    <3> HIDE DEF s2
    <3>2. s2[b + 2] = <<End>>[1]
      <4>1. b + 2 \in 1..((1 + b) + 1) /\ ~(b + 2 <= 1 + b) /\ (b + 2) - (1 + b) = 1
          BY <2>1
      <4>2. QED
          BY <3>1, <4>1
    <3>3. s2[1] = Start /\ \A i \in 2..(1 + b) : s2[i] = q[i - 1]
        BY <2>1, <2>4, <3>1
    <3>4. QED
        BY <2>1, <2>3, <3>1, <3>2, <3>3
  <2> HIDE DEF s2
  <2> DEFINE e == a + b + 2
  <2>6. /\ t \in Seq(Lines) /\ Len(t) = e
        /\ \A i \in 1..e : t[i] = IF i <= a THEN R[i] ELSE s2[i - a]
    <3>1. /\ t \in Seq(Lines) /\ Len(t) = a + Len(s2)
          /\ \A i \in 1..(a + Len(s2)) : t[i] = IF i <= a THEN R[i] ELSE s2[i - a]
        BY <1>1, <2>2, <2>5, ConcatProperties
    <3>2. a + Len(s2) = e
        BY <1>1, <2>1, <2>5
    <3>3. QED
        BY <3>1, <3>2
  <2>7. DOMAIN t = 1..e
      BY <2>6, LenProperties
  <2> HIDE DEF a
  <2>8. \A i \in 1..a : t[i] = R[i] /\ t[i] \in Foreign
    <3>1. \A i \in 1..a : i \in 1..e /\ i <= a
        BY <1>1, <2>1
    <3>2. QED
        BY <1>1, <2>6, <3>1
  <2>9. t[a + 1] = Start /\ t[e] = End
    <3>1. /\ a + 1 \in 1..e /\ ~(a + 1 <= a) /\ (a + 1) - a = 1
          /\ e \in 1..e /\ ~(e <= a) /\ e - a = b + 2
        BY <1>1, <2>1
    <3>2. QED
        BY <2>5, <2>6, <3>1
  <2>10. \A i \in (a + 2)..(a + b + 1) : t[i] \in ds
    <3>1. \A i \in (a + 2)..(a + b + 1) :
             i \in 1..e /\ ~(i <= a) /\ i - a \in 2..(1 + b) /\ (i - a) - 1 \in 1..b
        BY <1>1, <2>1
    <3>2. QED
        BY <2>1, <2>5, <2>6, <3>1
  <2>11. ASSUME NEW x \in ds
         PROVE  \E i \in 1..e : t[i] = x
    <3>1. PICK j \in 1..b : q[j] = x
        BY <2>1
    <3>2. /\ a + 1 + j \in 1..e /\ ~(a + 1 + j <= a) /\ (a + 1 + j) - a = j + 1
          /\ j + 1 \in 2..(1 + b) /\ (j + 1) - 1 = j
        BY <1>1, <2>1
    <3>3. t[a + 1 + j] = q[j]
        BY <2>5, <2>6, <3>2
    <3>4. QED
        BY <3>1, <3>2, <3>3
  <2>12. \A i \in 1..e : i \in 1..a \/ i = a + 1 \/ i \in (a + 2)..(a + b + 1) \/ i = e
      BY <1>1, <2>1
  <2>13. a + 1 # e /\ a + 1 \in 1..e /\ e \in 1..e /\ e \in Nat
      BY <1>1, <2>1
  <2>14. /\ \A i \in 1..e : t[i] = Start <=> i = a + 1
         /\ \A i \in 1..e : t[i] = End <=> i = e
         /\ \A i \in 1..e : t[i] \in Domains => i \in (a + 2)..(a + b + 1)
         /\ \A i \in 1..e : t[i] \in Foreign => i \in 1..a
    <3> HIDE DEF e
    <3> QED BY <1>2, <2>8, <2>9, <2>10, <2>12, <2>13
  <2>15. BlocksMarked(t)
    <3>1. ASSUME NEW i \in 1..e, t[i] \in Domains
          PROVE  Inside(t, i)
      <4>1. i \in (a + 2)..(a + b + 1)
          BY <2>14, <3>1
      <4>2. a + 1 \in 1..i /\ \A k \in ((a + 1) + 1)..i : k \in 1..e /\ k # e
          BY <1>1, <2>1, <4>1
      <4>3. \A k \in ((a + 1) + 1)..i : t[k] # End
          BY <2>14, <4>2
      <4>4. QED
          BY <2>9, <4>2, <4>3 DEF Inside
    <3>2. QED
        BY <2>6, <3>1 DEF BlocksMarked
  <2>16. Outside(t, S)
    <3>1. ASSUME NEW i \in 1..e, t[i] \in S
          PROVE  ~Inside(t, i)
      <4>1. i \in 1..a
          BY <1>3, <2>14, <3>1
      <4>2. \A j \in 1..i : j \in 1..e /\ j # a + 1
          BY <1>1, <2>1, <4>1
      <4>3. QED
          BY <2>14, <4>2 DEF Inside
    <3>2. QED
        BY <2>6, <3>1 DEF Outside
  <2>17. Subsequence(t, S) = Subsequence(R, S)
    <3>1. a <= e /\ \A i \in 1..e : i > a => i \notin 1..a
        BY <1>1, <2>1
    <3>2. \A i \in 1..e : i > a => t[i] \notin S
        BY <1>3, <2>14, <3>1
    <3> HIDE DEF e
    <3>3. Len(R) <= Len(t) /\ \A i \in 1..Len(R) : t[i] = R[i]
        BY <2>6, <2>8, <3>1 DEF a
    <3>4. \A i \in 1..Len(t) : i > Len(R) => t[i] \notin S
        BY <2>6, <3>2 DEF a
    <3>5. QED
        BY <1>1, <2>6, <3>3, <3>4, SubsequenceExtended
  <2>18. Shows(t, ds)
    <3> HIDE DEF e
    <3>1. {i \in DOMAIN t : t[i] = Start} = {a + 1} /\ {i \in DOMAIN t : t[i] = End} = {e}
        BY <2>7, <2>13, <2>14
    <3>2. Count(t, Start) = 1 /\ Count(t, End) = 1
        BY <3>1, FS_Singleton DEF Count
    <3>3. \A x : x \in Blocked(t) <=> x \in ds
      <4>1. \A i \in 1..e : t[i] \in Domains => t[i] \in ds
          BY <2>10, <2>14
      <4>2. QED
          BY <2>7, <2>11, <4>1 DEF Blocked
    <3>4. Blocked(t) = ds
        BY <3>3
    <3>5. QED
        BY <1>5, <3>2, <3>4 DEF Shows
  <2>19. QED
      BY <2>6, <2>15, <2>16, <2>17, <2>18 DEF t
<1>6. QED
    BY <1>4, <1>5

(* What a method is about to write: it blocks what was asked for, and holds    *)
(* what the file holds.                                                       *)
LEMMA NewText ==
    ASSUME NEW lines \in Seq(Lines), BlocksMarked(lines), NEW on \in BOOLEAN, NEW ds \in SUBSET Domains,
           NEW w, NEW S \in SUBSET Foreign, Holds(lines, w, S)
    PROVE  LET t == IF on THEN applyBlocks(lines, ds) ELSE removeBlocks(lines)
           IN  /\ t \in Seq(Lines) /\ BlocksMarked(t) /\ Holds(t, w, S)
               /\ Shows(t, IF on THEN ds ELSE {})
<1> DEFINE R == removeBlockSection(lines)
           d == IF on THEN ds ELSE {}
           t == IF on THEN applyBlocks(lines, ds) ELSE removeBlocks(lines)
           u == R \o (IF d = {} THEN <<>> ELSE <<Start>> \o SetToSeq(d) \o <<End>>)
<1>1. R \in Seq(Foreign) /\ Subsequence(R, S) = Subsequence(lines, S)
    BY SectionRemoved DEF Holds
<1>2. t = u
  <2>1. CASE on
      BY <2>1 DEF applyBlocks
  <2>2. CASE ~on
    <3>1. t = R /\ d = {}
        BY <2>2 DEF removeBlocks
    <3>2. R \o <<>> = R
        BY <1>1, ConcatEmptySeq
    <3>3. QED
        BY <3>1, <3>2
  <2>3. QED
      BY <2>1, <2>2
<1>3. d \in SUBSET Domains
    OBVIOUS
<1> HIDE DEF d, R, t
<1>4. /\ u \in Seq(Lines) /\ BlocksMarked(u) /\ Outside(u, S)
      /\ Subsequence(u, S) = Subsequence(R, S) /\ Shows(u, d)
    BY <1>1, <1>3, SectionText
<1> HIDE DEF u
<1>5. QED
    BY <1>1, <1>2, <1>4 DEF t, d, Holds

-----------------------------------------------------------------------------
(* Types of the start, of the commands and of the handlers.                   *)
LEMMA StopTypes ==
    ASSUME StartTypeOK, Stop, tokenFile' \in MaybeId, idFile' \in MaybeId,
           cached' \in SUBSET Ids, issued' \in SUBSET Ids
    PROVE  StartTypeOK'
BY StartAssumption DEF Stop, StartTypeOK, MaybeId

(* A prompt for a login leaves known identities.                             *)
LEMMA PromptTypes == StartTypeOK /\ promptLogin => StartTypeOK'
<1> SUFFICES ASSUME StartTypeOK, NEW known \in Known, NEW id \in LoginIds(known),
                    Login(id) \/ Login_fails(id)
             PROVE  StartTypeOK'
    BY DEF promptLogin
<1>1. id \in Ids /\ id \in MaybeId
    BY DEF LoginIds, StartTypeOK, MaybeId, Ids
<1>2. CASE Login(id)
  <2>1. cached' \in SUBSET Ids /\ issued' \in SUBSET Ids
      BY <1>1, <1>2 DEF Login, Issue, StartTypeOK
  <2>2. QED
      BY <1>1, <1>2, <2>1 DEF Login, StartTypeOK
<1>3. CASE Login_fails(id)
  <2>1. cached' \in SUBSET Ids /\ issued' \in SUBSET Ids
      BY <1>1, <1>3 DEF Login_fails, Issue, StartTypeOK
  <2>2. tokenFile' \in MaybeId /\ idFile' \in MaybeId /\ Stop
      BY <1>3 DEF Login_fails, StartTypeOK, MaybeId
  <2>3. QED
      BY <2>1, <2>2, StopTypes
<1>4. QED
    BY <1>2, <1>3

(* Every step of the start, and a lost link, keeps the types.                *)
LEMMA StartTypes ==
    ASSUME StartTypeOK, Starting \/ link_lost
    PROVE  StartTypeOK'
<1>1. CASE main_start
    BY <1>1 DEF main_start, StartTypeOK
<1>2. CASE LoadToken
    BY <1>2 DEF LoadToken, StartTypeOK
<1>3. CASE prompt_token
    BY <1>3, PromptTypes DEF prompt_token
<1>4. ASSUME NEW known \in Known, BootstrapDevice_ok(BootstrapId(known))
      PROVE  StartTypeOK'
  <2> DEFINE id == BootstrapId(known)
  <2>1. id \in MaybeId
      BY DEF BootstrapId, Known, StartTypeOK, MaybeId, Ids
  <2>2. id \in Ids
      BY <1>4, <2>1 DEF BootstrapDevice_ok, StartTypeOK, MaybeId
  <2> HIDE DEF id
  <2>3. QED
      BY <1>4, <2>1, <2>2, StartAssumption DEF BootstrapDevice_ok, StartTypeOK, id
<1>5. ASSUME NEW id, BootstrapDevice_unauthorized(id)
      PROVE  StartTypeOK'
    BY <1>5, PromptTypes DEF BootstrapDevice_unauthorized
<1>6. CASE BootstrapDevice_error
  <2>1. /\ tokenFile' \in MaybeId /\ idFile' \in MaybeId /\ Stop
        /\ cached' \in SUBSET Ids /\ issued' \in SUBSET Ids
      BY <1>6 DEF BootstrapDevice_error, StartTypeOK
  <2>2. QED
      BY <2>1, StopTypes
<1>7. CASE Connect
    BY <1>7, StartAssumption DEF Connect, StartTypeOK, MaybeId
<1>8. CASE Connect_fails
  <2>1. /\ tokenFile' \in MaybeId /\ idFile' \in MaybeId
        /\ cached' \in SUBSET Ids /\ issued' \in SUBSET Ids
      BY <1>8 DEF Connect_fails, StartTypeOK
  <2>2. CASE Stop
      BY <2>1, <2>2, StopTypes
  <2>3. CASE ~Stop
      BY <1>8, <2>1, <2>3, StartAssumption DEF Connect_fails, StartTypeOK
  <2>4. QED
      BY <2>2, <2>3
<1>9. CASE link_lost
    BY <1>9 DEF link_lost, StartTypeOK
<1>10. ASSUME NEW id, token_dropped(id)
       PROVE  StartTypeOK'
    BY <1>10 DEF token_dropped, StartTypeOK
<1>11. QED
    BY <1>1, <1>2, <1>3, <1>4, <1>5, <1>6, <1>7, <1>8, <1>9, <1>10 DEF Starting

(* Text after a step, from the new values of the variables.                  *)
LEMMA PrimedText ==
    ASSUME BlocksMarked(hosts'), BlocksMarked(content'),
           stage' # "truncated" => Holds(hosts', written', Foreign \ lost'),
           stage' # "idle" => Holds(content', written', Foreign \ lost')
    PROVE  Text'
<1>1. (BlocksMarked(hosts))' = BlocksMarked(hosts') /\ (BlocksMarked(content))' = BlocksMarked(content')
    BY Zenon DEF BlocksMarked, Inside
<1>2. (Holds(hosts, written, Foreign \ lost))' = Holds(hosts', written', Foreign \ lost')
    BY Zenon DEF Holds, Outside, Inside, Subsequence
<1>3. (Holds(content, written, Foreign \ lost))' = Holds(content', written', Foreign \ lost')
    BY Zenon DEF Holds, Outside, Inside, Subsequence
<1>4. QED
    BY <1>1, <1>2, <1>3, Zenon DEF Text

(* Nothing of the hosts file or of its manager changes.                       *)
LEMMA Quiet ==
    ASSUME AgentInv, UNCHANGED <<hostVars, block>>, proc' = proc,
           loop' # "block" => calls["loop"] = <<>>, ~Alive => loop' = "recv"
    PROVE  HostsTypeOK' /\ Text' /\ Process' /\ Orders'
<1>1. UNCHANGED <<hosts, enabled, domains, mutex, stage, content, calls, written, lost, failed, block, proc>>
    BY DEF hostVars
<1>2. HostsTypeOK'
    BY <1>1 DEF AgentInv, CommandsTypeOK, HostsTypeOK
<1>3. Text'
    BY <1>1, PrimedText DEF AgentInv, Text
<1>4. Process'
    BY <1>1 DEF AgentInv, Process, Alive
<1>5. Orders'
    BY <1>1 DEF AgentInv, Orders, Shows, Blocked, Count, SetTo, Enable, Disable
<1>6. QED
    BY <1>2, <1>3, <1>4, <1>5

(* A step that leaves the file and the new text alone keeps Text.            *)
LEMMA TextKept ==
    ASSUME Text, UNCHANGED <<hosts, content, written, lost>>, stage' \in {stage, "idle"},
           stage # "truncated"
    PROVE  Text'
BY PrimedText DEF Text

(* Orders after a step, from the new values of the variables.                *)
LEMMA PrimedOrders ==
    ASSUME proc' = "up" /\ ~failed' =>
              \/ calls'["loop"] = <<>> /\ Shows(hosts', block')
              \/ /\ calls'["loop"] = <<SetTo(block'), Enable>>
                 /\ stage' # "idle" => domains' = block'
              \/ /\ calls'["loop"] = <<Enable>> /\ domains' = block'
                 /\ stage' # "idle" => Shows(content', block')
              \/ /\ calls'["loop"] = <<Disable>> /\ block' = {}
                 /\ stage' # "idle" => Shows(content', block')
    PROVE  Orders'
BY DEF Orders, Shows, Blocked, Count, SetTo, Enable, Disable

(* The lists of calls that a command makes.                                   *)
LEMMA CallLists ==
    /\ Enable \in Call /\ Disable \in Call /\ \A ds \in SUBSET Domains : SetTo(ds) \in Call
    /\ Enable.m = "enable" /\ Disable.m = "disable"
    /\ \A ds : SetTo(ds).m = "set" /\ SetTo(ds).ds = ds
    /\ \A c \in Call : c.m \in {"enable", "disable", "set"} /\ (c.m = "set" => c.ds \in SUBSET Domains)
    /\ \A x : Head(<<x>>) = x /\ Tail(<<x>>) = <<>> /\ <<x>> # <<>>
    /\ \A x, y : Head(<<x, y>>) = x /\ Tail(<<x, y>>) = <<y>> /\ <<x, y>> # <<>>
<1>1. Enable \in Call /\ Disable \in Call /\ \A ds \in SUBSET Domains : SetTo(ds) \in Call
    BY DEF Enable, Disable, SetTo, Call
<1>2. Enable.m = "enable" /\ Disable.m = "disable" /\ \A ds : SetTo(ds).m = "set" /\ SetTo(ds).ds = ds
    BY DEF Enable, Disable, SetTo
<1>3. \A c \in Call : c.m \in {"enable", "disable", "set"} /\ (c.m = "set" => c.ds \in SUBSET Domains)
    BY DEF Call
<1>4. \A x : Head(<<x>>) = x /\ Tail(<<x>>) = <<>> /\ <<x>> # <<>>
    OBVIOUS
<1>5. \A x, y : Head(<<x, y>>) = x /\ Tail(<<x, y>>) = <<y>> /\ <<x, y>> # <<>>
    OBVIOUS
<1>6. QED
    BY <1>1, <1>2, <1>3, <1>4, <1>5

(* While the process is up only the receive loop is in a method.              *)
LEMMA LoopCalls ==
    ASSUME AgentInv, proc = "up", NEW p \in Callers, calls[p] # <<>> \/ mutex = p
    PROVE  p = "loop" /\ calls["loop"] # <<>>
BY CommandsAssumption, HostsAssumption DEF AgentInv, Process

(* Another program appends a line.                                           *)
LEMMA ForeignStep ==
    ASSUME AgentInv, NEW l \in Foreign, ForeignAppend(l), UNCHANGED <<startVars, received, cmdVars>>
    PROVE  HostsTypeOK' /\ Text' /\ Process' /\ Orders'
<1>1. /\ UNCHANGED <<enabled, domains, mutex, stage, content, calls, failed, proc, loop, block>>
      /\ hosts' = Append(hosts, l) /\ written' = Append(written, l) /\ stage # "truncated"
      /\ lost' = IF stage = "idle" /\ ~Inside(hosts, Len(hosts)) THEN lost ELSE lost \union {l}
    BY DEF ForeignAppend, startVars, cmdVars
<1>2. HostsTypeOK
    BY DEF AgentInv, CommandsTypeOK
<1>3. /\ hosts \in Seq(Lines) /\ BlocksMarked(hosts) /\ content \in Seq(Lines) /\ BlocksMarked(content)
      /\ written \in Seq(Foreign) /\ lost \in SUBSET Foreign
    BY <1>2 DEF HostsTypeOK, AgentInv, Text
<1>4. /\ hosts' \in Seq(Lines) /\ BlocksMarked(hosts')
      /\ \A S : Holds(hosts, written, S) /\ (l \in S => ~Inside(hosts, Len(hosts))) => Holds(hosts', written', S)
      /\ \A ds : Shows(hosts, ds) => Shows(hosts', ds)
    BY <1>1, <1>3, AppendText
<1>5. written' \in Seq(Foreign)
    BY <1>1, <1>3, AppendElems
<1>6. lost' \in SUBSET Foreign
    BY <1>1, <1>3
<1>7. HostsTypeOK'
    BY <1>1, <1>2, <1>4, <1>5, <1>6 DEF HostsTypeOK
<1>8. Text'
  <2> DEFINE K == Foreign \ lost
             L == Foreign \ lost'
  <2>1. L \subseteq K /\ (l \in L => stage = "idle" /\ ~Inside(hosts, Len(hosts)))
      BY <1>1
  <2>2. Holds(hosts, written, K) /\ (stage # "idle" => Holds(content, written, K))
      BY <1>1 DEF AgentInv, Text
  <2> HIDE DEF K, L
  <2>3. Holds(hosts, written, L) /\ (stage # "idle" => Holds(content, written, L))
      BY <1>3, <2>1, <2>2, HoldsFewer
  <2>4. Holds(hosts', written', L)
      BY <1>4, <2>1, <2>3
  <2>5. ASSUME stage # "idle"
        PROVE  Holds(content, written', L)
    <3>1. l \notin L
        BY <2>1, <2>5
    <3>2. Subsequence(written', L) = Subsequence(written, L)
        BY <1>1, <1>3, <3>1, SubsequenceSkip
    <3>3. QED
        BY <2>3, <2>5, <3>2 DEF Holds
  <2>6. QED
      BY <1>1, <1>3, <1>4, <2>4, <2>5, PrimedText DEF L
<1>9. Process'
    BY <1>1 DEF AgentInv, Process, Alive
<1>10. Orders'
    BY <1>1, <1>4, PrimedOrders DEF AgentInv, Orders
<1>11. QED
    BY <1>7, <1>8, <1>9, <1>10

(* What reaches the file of a write that stops keeps its shape.              *)
LEMMA CutKeeps ==
    ASSUME AgentInv, stage = "truncated", NEW k \in 0..Len(content), CutOff(k)
    PROVE  /\ hosts' \in Seq(Lines) /\ BlocksMarked(hosts') /\ lost' \in SUBSET Foreign
           /\ Holds(hosts', written, Foreign \ lost')
<1> DEFINE L == Foreign \ lost'
<1>1. HostsTypeOK /\ Text
    BY DEF AgentInv, CommandsTypeOK
<1>2. /\ content \in Seq(Lines) /\ BlocksMarked(content) /\ written \in Seq(Foreign)
      /\ lost \in SUBSET Foreign /\ Holds(content, written, Foreign \ lost)
    BY <1>1 DEF HostsTypeOK, Text
<1>3. /\ hosts' = SubSeq(content, 1, k)
      /\ lost' = lost \union ({content[i] : i \in (k + 1)..Len(content)} \intersect Foreign)
    BY DEF CutOff
<1>4. lost' \in SUBSET Foreign /\ L \subseteq Foreign \ lost
    BY <1>2, <1>3
<1>5. \A i \in (k + 1)..Len(content) : content[i] \notin L
    BY <1>3
<1> HIDE DEF L
<1>6. Holds(content, written, L)
    BY <1>2, <1>4, HoldsFewer
<1>7. QED
    BY <1>2, <1>3, <1>4, <1>5, <1>6, CutText DEF L

(* The process ends: what reached the file keeps its shape.                   *)
LEMMA ExitStep ==
    ASSUME AgentInv, Exit, block' = block
    PROVE  HostsTypeOK' /\ Text' /\ Process' /\ Orders' /\ StartTypeOK'
<1>1. /\ enabled' = FALSE /\ domains' = {} /\ mutex' = Nobody /\ stage' = "idle" /\ content' = <<>>
      /\ calls' = [p \in Callers |-> <<>>] /\ failed' = TRUE /\ written' = written
      /\ proc' = "off" /\ loop' = "recv"
    BY DEF Exit, ProcessEnds, Stop
<1>2. HostsTypeOK /\ StartTypeOK
    BY DEF AgentInv, CommandsTypeOK
<1>3. /\ hosts \in Seq(Lines) /\ content \in Seq(Lines) /\ BlocksMarked(hosts) /\ BlocksMarked(content)
      /\ lost \in SUBSET Foreign
    BY <1>2 DEF HostsTypeOK, AgentInv, Text
<1>4. /\ hosts' \in Seq(Lines) /\ BlocksMarked(hosts') /\ lost' \in SUBSET Foreign
      /\ Holds(hosts', written, Foreign \ lost')
  <2>1. CASE stage # "truncated"
    <3>1. hosts' = hosts /\ lost' = lost
        BY <2>1 DEF Exit, ProcessEnds
    <3>2. Holds(hosts, written, Foreign \ lost)
        BY <2>1 DEF AgentInv, Text
    <3>3. QED
        BY <1>3, <3>1, <3>2
  <2>2. CASE stage = "truncated"
    <3>1. PICK k \in 0..Len(content) : CutOff(k)
        BY <2>2 DEF Exit, ProcessEnds
    <3>2. QED
        BY <2>2, <3>1, CutKeeps
  <2>3. QED
      BY <2>1, <2>2
<1>5. HostsTypeOK'
  <2>1. calls' \in [Callers -> Seq(Call)] /\ content' \in Seq(Lines)
      BY <1>1, EmptySeq
  <2>2. QED
      BY <1>1, <1>2, <1>4, <2>1 DEF HostsTypeOK
<1>6. Text'
    BY <1>1, <1>4, EmptyText, PrimedText
<1>7. Process'
    BY <1>1, CommandsAssumption DEF Process, Alive
<1>8. Orders'
    BY <1>1 DEF Orders
<1>9. StartTypeOK'
  <2>1. /\ tokenFile' \in MaybeId /\ idFile' \in MaybeId /\ Stop
        /\ cached' \in SUBSET Ids /\ issued' \in SUBSET Ids
      BY <1>2 DEF Exit, StartTypeOK
  <2>2. QED
      BY <1>2, <2>1, StopTypes
<1>10. QED
    BY <1>5, <1>6, <1>7, <1>8, <1>9

-----------------------------------------------------------------------------
(* The steps of a method.  Afterwards, of the lists of calls, at most the one *)
(* of p is another.                                                           *)
LEMMA CallsStep ==
    ASSUME HostsTypeOK, NEW p \in Callers, NEW q \in Seq(Call), calls' = [calls EXCEPT ![p] = q]
    PROVE  /\ calls' \in [Callers -> Seq(Call)]
           /\ calls'[p] = q /\ \A r \in Callers \ {p} : calls'[r] = calls[r]
<1> DEFINE T == Seq(Call)
<1>1. calls \in [Callers -> T] /\ q \in T
    BY DEF HostsTypeOK
<1> HIDE DEF T
<1>2. calls' \in [Callers -> T]
    BY <1>1
<1>3. calls'[p] = q /\ \A r \in Callers \ {p} : calls'[r] = calls[r]
    BY <1>1
<1>4. QED
    BY <1>2, <1>3 DEF T

(* A method gives the mutex back, having dropped its call or the whole list.  *)
LEMMA ReturnProcess ==
    ASSUME AgentInv, Alive, NEW p \in Callers, NEW q \in Seq(Call),
           calls' = [calls EXCEPT ![p] = q], mutex' = Nobody, UNCHANGED <<loop, proc>>,
           calls[p] # <<>>
    PROVE  Process'
<1>1. HostsTypeOK /\ Process
    BY DEF AgentInv, CommandsTypeOK
<1>2. calls'[p] = q /\ \A r \in Callers \ {p} : calls'[r] = calls[r]
    BY <1>1, CallsStep
<1>3. p = "loop" => loop = "block"
    BY <1>1 DEF Process
<1>4. p = "main" => proc = "stopping"
    BY <1>1 DEF Process
<1>5. Alive'
    BY DEF Alive
<1>6. p = "loop" \/ p = "main"
    BY CommandsAssumption
<1>7. "loop" \in Callers /\ "main" \in Callers
    BY CommandsAssumption
<1>8. QED
    BY <1>1, <1>2, <1>3, <1>4, <1>5, <1>6, <1>7 DEF Process

(* An error: the rest of the list is given up, and the file is as it was.     *)
LEMMA FailStep ==
    ASSUME AgentInv, Alive, NEW p \in Callers, Fails(p), calls[p] # <<>>,
           hosts' \in Seq(Lines), enabled' \in BOOLEAN, domains' \in SUBSET Domains,
           lost' \in SUBSET Foreign, UNCHANGED <<written, proc, loop>>
    PROVE  HostsTypeOK' /\ Process' /\ Orders'
<1>1. HostsTypeOK
    BY DEF AgentInv, CommandsTypeOK
<1>2. /\ mutex' = Nobody /\ stage' = "idle" /\ content' = <<>> /\ failed' = TRUE
      /\ calls' = [calls EXCEPT ![p] = <<>>]
    BY DEF Fails
<1>3. <<>> \in Seq(Call) /\ <<>> \in Seq(Lines)
    BY EmptySeq
<1>4. calls' \in [Callers -> Seq(Call)]
    BY <1>1, <1>2, <1>3, CallsStep
<1>5. HostsTypeOK'
    BY <1>1, <1>2, <1>3, <1>4 DEF HostsTypeOK
<1>6. Process'
    BY <1>2, <1>3, ReturnProcess
<1>7. Orders'
    BY <1>2 DEF Orders
<1>8. QED
    BY <1>5, <1>6, <1>7

(* The list of calls behind the first one.                                    *)
LEMMA TailCalls ==
    ASSUME HostsTypeOK, NEW p \in Callers, calls[p] # <<>>
    PROVE  Tail(calls[p]) \in Seq(Call) /\ Head(calls[p]) \in Call
<1> DEFINE T == Seq(Call)
<1>1. calls \in [Callers -> T]
    BY DEF HostsTypeOK
<1> HIDE DEF T
<1>2. calls[p] \in T
    BY <1>1
<1>3. QED
    BY <1>2, HeadTailElems DEF T

(* While the process is up a method that is to return Tail leaves an order    *)
(* carried out as far as the calls of the list say.                           *)
LEMMA OrderOf ==
    ASSUME AgentInv, proc = "up", ~failed, NEW p \in Callers, calls[p] # <<>>
    PROVE  /\ p = "loop"
           /\ \/ /\ calls["loop"] = <<SetTo(block), Enable>>
                 /\ stage # "idle" => domains = block
              \/ /\ calls["loop"] = <<Enable>> /\ domains = block
                 /\ stage # "idle" => Shows(content, block)
              \/ /\ calls["loop"] = <<Disable>> /\ block = {}
                 /\ stage # "idle" => Shows(content, block)
<1>1. p = "loop" /\ calls["loop"] # <<>>
    BY LoopCalls
<1>2. QED
    BY <1>1 DEF AgentInv, Orders

(* SetEnabled and SetDomains up to the read of the file.                      *)
LEMMA EnterStep ==
    ASSUME AgentInv, Alive, NEW p \in Callers, EnterMethod(p), UNCHANGED <<proc, loop, block>>
    PROVE  HostsTypeOK' /\ Text' /\ Process' /\ Orders'
<1> DEFINE c == Head(calls[p])
           on == IF c.m = "set" THEN enabled ELSE c.m = "enable"
           ds == IF c.m = "set" THEN c.ds ELSE domains
           t == IF on THEN applyBlocks(hosts, ds) ELSE removeBlocks(hosts)
<1>1. /\ mutex = Nobody /\ calls[p] # <<>> /\ enabled' = on /\ domains' = ds
      /\ UNCHANGED <<hosts, written, lost>>
      /\ \/ c.m = "set" /\ ~on /\ Returns(p)
         \/ /\ c.m # "set" \/ on
            /\ mutex' = p /\ stage' = "read" /\ content' = t /\ UNCHANGED <<calls, failed>>
         \/ Fails(p)
    BY DEF EnterMethod
<1>2. HostsTypeOK /\ Text
    BY DEF AgentInv, CommandsTypeOK
<1>3. stage = "idle"
    BY <1>1, <1>2 DEF HostsTypeOK
<1>4. Tail(calls[p]) \in Seq(Call) /\ c \in Call
    BY <1>1, <1>2, TailCalls
<1>5. /\ enabled \in BOOLEAN /\ domains \in SUBSET Domains /\ lost \in SUBSET Foreign /\ hosts \in Seq(Lines)
      /\ BlocksMarked(hosts)
    BY <1>2 DEF HostsTypeOK, Text
<1>6. on \in BOOLEAN /\ ds \in SUBSET Domains
  <2>1. on \in BOOLEAN
      BY <1>5, Zenon
  <2>2. ds \in SUBSET Domains
      BY <1>4, <1>5, CallLists
  <2>3. QED
      BY <2>1, <2>2
<1>7. Holds(hosts, written, Foreign \ lost) /\ Foreign \ lost \in SUBSET Foreign
    BY <1>2, <1>3 DEF Text
<1>8. proc = "up" /\ ~failed =>
        /\ p = "loop"
        /\ \/ calls["loop"] = <<SetTo(block), Enable>> /\ c.m = "set" /\ ds = block
           \/ calls["loop"] = <<Enable>> /\ domains = block /\ c.m = "enable" /\ on /\ ds = block
           \/ calls["loop"] = <<Disable>> /\ block = {} /\ c.m = "disable" /\ ~on
  <2>1. SUFFICES ASSUME proc = "up", ~failed
                 PROVE  /\ p = "loop"
                        /\ \/ calls["loop"] = <<SetTo(block), Enable>> /\ c.m = "set" /\ ds = block
                           \/ calls["loop"] = <<Enable>> /\ domains = block /\ c.m = "enable" /\ on /\ ds = block
                           \/ calls["loop"] = <<Disable>> /\ block = {} /\ c.m = "disable" /\ ~on
      OBVIOUS
  <2>2. /\ p = "loop"
        /\ \/ calls["loop"] = <<SetTo(block), Enable>>
           \/ calls["loop"] = <<Enable>> /\ domains = block
           \/ calls["loop"] = <<Disable>> /\ block = {}
      BY <1>1, <2>1, OrderOf
  <2>3. QED
      BY <2>2, CallLists
<1>9. CASE c.m = "set" /\ ~on /\ Returns(p)
  <2>1. /\ mutex' = Nobody /\ stage' = "idle" /\ content' = <<>> /\ failed' = failed
        /\ calls' = [calls EXCEPT ![p] = Tail(calls[p])]
      BY <1>9 DEF Returns
  <2>2. calls' \in [Callers -> Seq(Call)] /\ calls'[p] = Tail(calls[p])
      BY <1>2, <1>4, <2>1, CallsStep
  <2>3. HostsTypeOK'
      BY <1>1, <1>2, <1>6, <2>1, <2>2, EmptyText DEF HostsTypeOK
  <2>4. Text'
      BY <1>1, <1>5, <1>7, <2>1, EmptyText, PrimedText
  <2>5. Process'
      BY <1>1, <1>4, <2>1, ReturnProcess
  <2>6. proc' = "up" /\ ~failed' => calls'["loop"] = <<Enable>> /\ domains' = block'
    <3>1. Tail(<<SetTo(block), Enable>>) = <<Enable>>
        BY CallLists, Zenon
    <3>2. SUFFICES ASSUME proc = "up", ~failed
                   PROVE  calls'["loop"] = <<Enable>> /\ ds = block
        BY <1>1, <2>1
    <3>3. p = "loop" /\ calls["loop"] = <<SetTo(block), Enable>> /\ ds = block
        BY <1>8, <1>9, <3>2
    <3> HIDE DEF ds
    <3>4. QED
        BY <2>2, <3>1, <3>3, Zenon
  <2>7. Orders'
      BY <2>1, <2>6, PrimedOrders
  <2>8. QED
      BY <2>3, <2>4, <2>5, <2>7
<1>10. CASE /\ c.m # "set" \/ on
            /\ mutex' = p /\ stage' = "read" /\ content' = t /\ UNCHANGED <<calls, failed>>
  <2>1. /\ t \in Seq(Lines) /\ BlocksMarked(t) /\ Holds(t, written, Foreign \ lost)
        /\ Shows(t, IF on THEN ds ELSE {})
      BY <1>5, <1>6, <1>7, NewText
  <2> HIDE DEF t, on, ds, c
  <2>2. p # Nobody /\ p \in Callers \union {Nobody}
      BY HostsAssumption
  <2>3. HostsTypeOK'
      BY <1>1, <1>2, <1>6, <1>10, <2>1, <2>2 DEF HostsTypeOK
  <2>4. Text'
      BY <1>1, <1>5, <1>7, <1>10, <2>1, PrimedText
  <2>5. Process'
      BY <1>1, <1>10 DEF AgentInv, Process, Alive
  <2>6. proc' = "up" /\ ~failed' =>
              \/ /\ calls'["loop"] = <<SetTo(block'), Enable>>
                 /\ stage' # "idle" => domains' = block'
              \/ /\ calls'["loop"] = <<Enable>> /\ domains' = block'
                 /\ stage' # "idle" => Shows(content', block')
              \/ /\ calls'["loop"] = <<Disable>> /\ block' = {}
                 /\ stage' # "idle" => Shows(content', block')
      BY <1>1, <1>8, <1>10, <2>1
  <2>7. Orders'
      BY <2>6, PrimedOrders
  <2>8. QED
      BY <2>3, <2>4, <2>5, <2>7
<1>11. CASE Fails(p)
  <2>1. Text'
      BY <1>1, <1>5, <1>7, <1>11, EmptyText, PrimedText DEF Fails
  <2>2. HostsTypeOK' /\ Process' /\ Orders'
      BY <1>1, <1>5, <1>6, <1>11, FailStep
  <2>3. QED
      BY <2>1, <2>2
<1>12. QED
    BY <1>1, <1>9, <1>10, <1>11

(* The steps of a method that holds the mutex.                                *)
LEMMA WriteStep ==
    ASSUME AgentInv, Alive, NEW p \in Callers, UNCHANGED <<proc, loop, block>>,
           backupHostsFile(p) \/ open_truncate(p) \/ open_fails(p) \/ flush(p) \/ flush_fails(p)
    PROVE  HostsTypeOK' /\ Text' /\ Process' /\ Orders'
<1>1. HostsTypeOK /\ Text /\ Process
    BY DEF AgentInv, CommandsTypeOK
<1>2. mutex = p /\ p # Nobody /\ calls[p] # <<>> /\ stage # "idle"
  <2>1. mutex = p /\ p # Nobody
      BY HostsAssumption DEF backupHostsFile, open_truncate, open_fails, flush, flush_fails
  <2>2. QED
      BY <1>1, <2>1 DEF HostsTypeOK, Process
<1>3. /\ enabled \in BOOLEAN /\ domains \in SUBSET Domains /\ lost \in SUBSET Foreign /\ hosts \in Seq(Lines)
      /\ BlocksMarked(hosts) /\ content \in Seq(Lines) /\ BlocksMarked(content)
    BY <1>1 DEF HostsTypeOK, Text
<1>4. Holds(content, written, Foreign \ lost)
    BY <1>1, <1>2 DEF Text
<1>5. CASE backupHostsFile(p) \/ open_truncate(p)
  <2>1. /\ stage' \in {"saved", "truncated"}
        /\ UNCHANGED <<enabled, domains, mutex, content, calls, written, lost, failed>>
      BY <1>5 DEF backupHostsFile, open_truncate
  <2>2. /\ hosts' \in Seq(Lines) /\ BlocksMarked(hosts')
        /\ stage' # "truncated" => Holds(hosts', written, Foreign \ lost)
    <3>1. CASE backupHostsFile(p)
      <4>1. hosts' = hosts /\ stage = "read"
          BY <3>1 DEF backupHostsFile
      <4>2. Holds(hosts, written, Foreign \ lost)
          BY <1>1, <4>1 DEF Text
      <4>3. QED
          BY <1>3, <1>4, <4>1, <4>2
    <3>2. CASE open_truncate(p)
        BY <3>2, EmptyText DEF open_truncate
    <3>3. QED
        BY <1>5, <3>1, <3>2
  <2>3. HostsTypeOK'
      BY <1>1, <1>2, <2>1, <2>2 DEF HostsTypeOK
  <2>4. Text'
      BY <1>3, <1>4, <2>1, <2>2, PrimedText
  <2>5. Process'
      BY <1>1, <2>1 DEF Process, Alive
  <2>6. proc' = "up" /\ ~failed' =>
              \/ /\ calls'["loop"] = <<SetTo(block'), Enable>>
                 /\ stage' # "idle" => domains' = block'
              \/ /\ calls'["loop"] = <<Enable>> /\ domains' = block'
                 /\ stage' # "idle" => Shows(content', block')
              \/ /\ calls'["loop"] = <<Disable>> /\ block' = {}
                 /\ stage' # "idle" => Shows(content', block')
      BY <1>2, <2>1, OrderOf
  <2>7. Orders'
      BY <2>6, PrimedOrders
  <2>8. QED
      BY <2>3, <2>4, <2>5, <2>7
<1>6. CASE open_fails(p)
  <2>1. Fails(p) /\ stage = "saved" /\ UNCHANGED <<hosts, enabled, domains, written, lost>>
      BY <1>6 DEF open_fails
  <2>2. Holds(hosts, written, Foreign \ lost)
      BY <1>1, <2>1 DEF Text
  <2>3. Text'
      BY <1>3, <1>4, <2>1, <2>2, EmptyText, PrimedText DEF Fails
  <2>4. HostsTypeOK' /\ Process' /\ Orders'
      BY <1>2, <1>3, <2>1, FailStep
  <2>5. QED
      BY <2>3, <2>4
<1>7. CASE flush(p)
  <2>1. /\ hosts' = content /\ UNCHANGED <<enabled, domains, written, lost, failed>>
        /\ mutex' = Nobody /\ stage' = "idle" /\ content' = <<>>
        /\ calls' = [calls EXCEPT ![p] = Tail(calls[p])]
      BY <1>7 DEF flush, Returns
  <2>2. Tail(calls[p]) \in Seq(Call)
      BY <1>1, <1>2, TailCalls
  <2>3. calls' \in [Callers -> Seq(Call)] /\ calls'[p] = Tail(calls[p])
      BY <1>1, <2>1, <2>2, CallsStep
  <2>4. HostsTypeOK'
      BY <1>1, <1>3, <2>1, <2>3, EmptyText DEF HostsTypeOK
  <2>5. Text'
      BY <1>3, <1>4, <2>1, EmptyText, PrimedText
  <2>6. Process'
      BY <1>2, <2>1, <2>2, ReturnProcess
  <2>7. proc' = "up" /\ ~failed' =>
              \/ calls'["loop"] = <<>> /\ Shows(hosts', block')
              \/ calls'["loop"] = <<Enable>> /\ domains' = block'
    <3>1. SUFFICES ASSUME proc = "up", ~failed
                   PROVE  \/ calls'["loop"] = <<>> /\ Shows(content, block)
                          \/ calls'["loop"] = <<Enable>> /\ domains = block
        BY <2>1
    <3>2. /\ p = "loop"
          /\ \/ calls["loop"] = <<SetTo(block), Enable>> /\ domains = block
             \/ calls["loop"] = <<Enable>> /\ Shows(content, block)
             \/ calls["loop"] = <<Disable>> /\ Shows(content, block)
        BY <1>2, <3>1, OrderOf
    <3>3. /\ Tail(<<SetTo(block), Enable>>) = <<Enable>>
          /\ Tail(<<Enable>>) = <<>> /\ Tail(<<Disable>>) = <<>>
        BY CallLists, Zenon
    <3>4. QED
        BY <2>3, <3>2, <3>3, Zenon
  <2>8. Orders'
      BY <2>1, <2>7, PrimedOrders
  <2>9. QED
      BY <2>4, <2>5, <2>6, <2>8
<1>8. CASE flush_fails(p)
  <2>1. PICK k \in 0..(Len(content) - 1) : CutOff(k)
      BY <1>8 DEF flush_fails
  <2>2. k \in 0..Len(content)
      BY <1>3, LenProperties
  <2>3. Fails(p) /\ stage = "truncated" /\ UNCHANGED <<enabled, domains, written>>
      BY <1>8 DEF flush_fails
  <2>4. /\ hosts' \in Seq(Lines) /\ BlocksMarked(hosts') /\ lost' \in SUBSET Foreign
        /\ Holds(hosts', written, Foreign \ lost')
      BY <2>1, <2>2, <2>3, CutKeeps
  <2>5. Text'
      BY <2>3, <2>4, EmptyText, PrimedText DEF Fails
  <2>6. HostsTypeOK' /\ Process' /\ Orders'
      BY <1>2, <1>3, <2>3, <2>4, FailStep
  <2>7. QED
      BY <2>5, <2>6
<1>9. QED
    BY <1>5, <1>6, <1>7, <1>8

-----------------------------------------------------------------------------
(* The steps of the process and of the dispatcher that touch the manager.     *)
LEMMA SignalStep ==
    ASSUME AgentInv, shutdown_signal
    PROVE  HostsTypeOK' /\ Text' /\ Process' /\ Orders' /\ StartTypeOK'
<1>1. /\ proc = "up" /\ proc' = "signalled"
      /\ UNCHANGED <<hosts, enabled, domains, mutex, stage, content, calls, written, lost, failed,
                     retries, link, me, token, tokenFile, idFile, cached, issued, loop>>
    BY DEF shutdown_signal, hostVars, cmdVars
<1>2. HostsTypeOK /\ StartTypeOK /\ Text /\ Process
    BY DEF AgentInv, CommandsTypeOK
<1>3. HostsTypeOK'
    BY <1>1, <1>2 DEF HostsTypeOK
<1>4. Text'
    BY <1>1, <1>2, PrimedText DEF Text
<1>5. Process'
    BY <1>1, <1>2 DEF Process, Alive
<1>6. Orders'
    BY <1>1 DEF Orders
<1>7. StartTypeOK'
    BY <1>1, <1>2 DEF StartTypeOK
<1>8. QED
    BY <1>3, <1>4, <1>5, <1>6, <1>7

(* The main goroutine asks whether blocking is on.                            *)
LEMMA IsEnabledStep ==
    ASSUME AgentInv, IsEnabled
    PROVE  HostsTypeOK' /\ Text' /\ Process' /\ Orders' /\ StartTypeOK'
<1> DEFINE q == IF enabled THEN <<[m |-> "disable"]>> ELSE <<>>
<1>1. /\ proc = "signalled" /\ mutex = Nobody /\ proc' = "stopping"
      /\ calls' = [calls EXCEPT !["main"] = q]
      /\ UNCHANGED <<hosts, enabled, domains, mutex, stage, content, written, lost, failed,
                     retries, link, me, token, tokenFile, idFile, cached, issued, loop>>
    BY DEF IsEnabled, cmdVars
<1>2. HostsTypeOK /\ StartTypeOK /\ Text /\ Process
    BY DEF AgentInv, CommandsTypeOK
<1>3. "main" \in Callers /\ "loop" \in Callers /\ "main" # "loop"
    BY CommandsAssumption
<1>4. q \in Seq(Call)
  <2>1. Disable \in Call
      BY CallLists
  <2>2. <<Disable>> \in Seq(Call) /\ <<>> \in Seq(Call)
      BY <2>1, EmptySeq
  <2>3. QED
      BY <2>2 DEF Disable
<1> HIDE DEF q
<1>5. calls' \in [Callers -> Seq(Call)] /\ calls'["loop"] = calls["loop"]
    BY <1>1, <1>2, <1>3, <1>4, CallsStep
<1>6. HostsTypeOK'
    BY <1>1, <1>2, <1>5 DEF HostsTypeOK
<1>7. stage = "idle"
    BY <1>1, <1>2 DEF HostsTypeOK
<1>8. Text'
    BY <1>1, <1>2, <1>7, TextKept
<1>9. Process'
    BY <1>1, <1>2, <1>5 DEF Process, Alive
<1>10. Orders'
    BY <1>1 DEF Orders
<1>11. StartTypeOK'
    BY <1>1, <1>2 DEF StartTypeOK
<1>12. QED
    BY <1>6, <1>8, <1>9, <1>10, <1>11

(* A block_website command arrives.                                          *)
LEMMA BlockStep ==
    ASSUME AgentInv, NEW c \in Commands, block_once(c)
    PROVE  HostsTypeOK' /\ Text' /\ Process' /\ Orders' /\ block' \in SUBSET Domains
<1>1. /\ Alive /\ loop = "recv" /\ loop' = "block" /\ failed' = FALSE
      /\ calls' = [calls EXCEPT !["loop"] = BlockCalls(c)]
      /\ block' = IF Unblocks(c) THEN {} ELSE c.ds
      /\ UNCHANGED <<hosts, enabled, domains, mutex, stage, content, written, lost, proc>>
    BY DEF block_once, Received, startVars
<1>2. HostsTypeOK /\ Text /\ Process
    BY DEF AgentInv, CommandsTypeOK
<1>3. "main" \in Callers /\ "loop" \in Callers /\ "main" # "loop" /\ c.ds \in SUBSET Domains
    BY CommandsAssumption
<1>4. /\ block' \in SUBSET Domains
      /\ \/ BlockCalls(c) = <<SetTo(block'), Enable>>
         \/ BlockCalls(c) = <<Disable>> /\ block' = {}
    BY <1>1, <1>3 DEF BlockCalls, SetTo, Enable, Disable
<1>5. BlockCalls(c) \in Seq(Call)
  <2>1. Disable \in Call /\ Enable \in Call /\ SetTo(block') \in Call
      BY <1>4, CallLists
  <2>2. <<Disable>> \in Seq(Call) /\ <<SetTo(block'), Enable>> \in Seq(Call)
      BY <2>1
  <2>3. QED
      BY <1>4, <2>2
<1>6. /\ calls' \in [Callers -> Seq(Call)] /\ calls'["loop"] = BlockCalls(c)
      /\ calls'["main"] = calls["main"]
    BY <1>1, <1>2, <1>3, <1>5, CallsStep
<1>7. HostsTypeOK'
    BY <1>1, <1>2, <1>6 DEF HostsTypeOK
<1>8. Text'
    BY <1>1, <1>2, PrimedText DEF Text
<1>9. Process'
  <2>1. calls["loop"] = <<>> /\ mutex # "loop"
      BY <1>1, <1>2, <1>3, HostsAssumption DEF Process
  <2>2. mutex # Nobody => mutex = "main"
      BY <1>2, <2>1, CommandsAssumption DEF HostsTypeOK
  <2>3. QED
      BY <1>1, <1>2, <1>6, <2>2 DEF Process, Alive
<1>10. Orders'
  <2>1. proc = "up" => stage = "idle"
    <3>1. proc = "up" => mutex = Nobody
        BY <1>1, <1>2, CommandsAssumption DEF Process, HostsTypeOK
    <3>2. QED
        BY <1>2, <3>1 DEF HostsTypeOK
  <2>2. proc' = "up" /\ ~failed' =>
              \/ /\ calls'["loop"] = <<SetTo(block'), Enable>>
                 /\ stage' # "idle" => domains' = block'
              \/ /\ calls'["loop"] = <<Disable>> /\ block' = {}
                 /\ stage' # "idle" => Shows(content', block')
      BY <1>1, <1>4, <1>6, <2>1
  <2>3. QED
      BY <2>2, PrimedOrders
<1>11. QED
    BY <1>4, <1>7, <1>8, <1>9, <1>10

(* The start of the agent: it is not serving yet, so nothing is ordered.      *)
LEMMA StartStep ==
    ASSUME AgentInv, Starting \/ link_lost, UNCHANGED <<hostVars, received, cmdVars>>
    PROVE  HostsTypeOK' /\ Text' /\ Process' /\ Orders'
<1>1. UNCHANGED <<hosts, enabled, domains, mutex, stage, content, calls, written, lost, failed, block, loop>>
    BY DEF hostVars, cmdVars
<1>2. HostsTypeOK /\ Text /\ Process
    BY DEF AgentInv, CommandsTypeOK
<1>3. HostsTypeOK'
    BY <1>1, <1>2 DEF HostsTypeOK
<1>4. Text'
    BY <1>1, <1>2, PrimedText DEF Text
<1>5. CASE link_lost
  <2>1. proc' = proc
      BY <1>5 DEF link_lost
  <2>2. Process'
      BY <1>1, <1>2, <2>1 DEF Process, Alive
  <2>3. Orders'
      BY <1>1, <2>1, PrimedOrders DEF AgentInv, Orders
  <2>4. QED
      BY <1>3, <1>4, <2>2, <2>3
<1>6. CASE Starting
  <2>1. ~Alive /\ proc' # "stopping"
      BY <1>6 DEF Starting, main_start, LoadToken, prompt_token, BootstrapDevice_ok,
         BootstrapDevice_unauthorized, BootstrapDevice_error, token_dropped, Connect, Connect_fails,
         promptLogin, Login, Login_fails, Stop, Alive
  <2>2. failed /\ mutex = Nobody /\ loop = "recv" /\ calls["loop"] = <<>> /\ calls["main"] = <<>>
      BY <1>2, <2>1 DEF Process, Alive
  <2>3. Process'
      BY <1>1, <2>1, <2>2 DEF Process
  <2>4. Orders'
      BY <1>1, <2>2 DEF Orders
  <2>5. QED
      BY <1>3, <1>4, <2>3, <2>4
<1>7. QED
    BY <1>5, <1>6

(* What the commands leave of their own variables.                            *)
LEMMA CommandTypes ==
    ASSUME CommandsTypeOK, [Next]_vars
    PROVE  /\ received' \in 0..MaxCommands
           /\ loop' \in {"recv", "block", "download"}
           /\ active' \in [Names -> {"none", "stop", "nil"}]
           /\ auto' \in BOOLEAN /\ order' \in BOOLEAN
           /\ file' \in {"unread", "absent", "empty", "user", "version"}
<1>1. /\ received \in 0..MaxCommands /\ MaxCommands \in Nat
      /\ loop \in {"recv", "block", "download"}
      /\ active \in [Names -> {"none", "stop", "nil"}]
      /\ auto \in BOOLEAN /\ order \in BOOLEAN
      /\ file \in {"unread", "absent", "empty", "user", "version"}
    BY CommandsAssumption DEF CommandsTypeOK
<1>2. CASE UNCHANGED <<received, cmdVars>>
    BY <1>1, <1>2 DEF cmdVars
<1>3. ASSUME Exit, UNCHANGED file,
             received' = received \/ (received < MaxCommands /\ received' = received + 1)
      PROVE  /\ received' \in 0..MaxCommands
             /\ loop' = "recv"
             /\ active' \in [Names -> {"none", "stop", "nil"}]
             /\ auto' \in BOOLEAN /\ order' \in BOOLEAN
             /\ file' \in {"unread", "absent", "empty", "user", "version"}
    BY <1>1, <1>3 DEF Exit
<1>4. CASE Killed \/ main_returns
    BY <1>3, <1>4 DEF Killed, main_returns
<1>5. ASSUME NEW c \in Commands, Dispatch(c)
      PROVE  /\ received' \in 0..MaxCommands
             /\ loop' \in {"recv", "block", "download"}
             /\ active' \in [Names -> {"none", "stop", "nil"}]
             /\ auto' \in BOOLEAN /\ order' \in BOOLEAN
             /\ file' \in {"unread", "absent", "empty", "user", "version"}
  <2>1. received < MaxCommands /\ received' = received + 1
      BY <1>5 DEF Dispatch, dispatch_refused, backup_once, backup_stream, other_stream, get_logs_once,
         block_once, restore_once, Received
  <2>2. received' \in 0..MaxCommands
      BY <1>1, <2>1
  <2>3. CASE Exit /\ UNCHANGED file
      BY <1>3, <2>1, <2>3
  <2>4. CASE UNCHANGED cmdVars
      BY <1>1, <2>2, <2>4 DEF cmdVars
  <2>5. CASE backup_once(c) \/ backup_stream(c)
    <3>1. auto' \in BOOLEAN /\ order' \in BOOLEAN
      <4>1. auto \in BOOLEAN /\ order \in BOOLEAN
          BY <1>1
      <4>2. QED
          BY <2>5, <4>1, Zenon DEF backup_once, backup_stream, SetBackup, Ordered
    <3>2. active' \in [Names -> {"none", "stop", "nil"}]
        BY <1>1, <2>5 DEF backup_once, backup_stream
    <3>3. UNCHANGED <<loop, file>>
        BY <2>5 DEF backup_once, backup_stream
    <3>4. QED
        BY <1>1, <2>2, <3>1, <3>2, <3>3
  <2>6. CASE other_stream(c) /\ ~Exit
      BY <1>1, <2>2, <2>6 DEF other_stream
  <2>7. CASE block_once(c) \/ restore_once(c)
    <3>1. UNCHANGED <<active, auto, order>> /\ loop' \in {"recv", "block", "download"}
        BY <2>7 DEF block_once, restore_once
    <3>2. file' \in {"unread", "absent", "empty", "user", "version"}
        BY <1>1, <2>7 DEF block_once, restore_once, Existing
    <3>3. QED
        BY <1>1, <2>2, <3>1, <3>2
  <2>8. QED
      BY <1>5, <2>3, <2>4, <2>5, <2>6, <2>7
      DEF Dispatch, dispatch_refused, other_stream, get_logs_once
<1>6. CASE Handler
  <2>1. UNCHANGED <<received, active, auto, order>> /\ loop' = "recv"
      BY <1>6 DEF Handler, HandleOnce_returns, DownloadFile
  <2>2. file' \in {"unread", "absent", "empty", "user", "version"}
      BY <1>1, <1>6 DEF Handler, HandleOnce_returns, DownloadFile
  <2>3. QED
      BY <1>1, <2>1, <2>2
<1>7. CASE UNCHANGED vars \/ shutdown_signal \/ IsEnabled
    BY <1>2, <1>7 DEF vars, shutdown_signal, IsEnabled
<1>8. CASE \E p \in Callers : HostsStep(p)
    BY <1>2, <1>8 DEF HostsStep
<1>9. CASE Environment
    BY <1>2, <1>4, <1>7, <1>9 DEF Environment
<1>10. QED
    BY <1>4, <1>5, <1>6, <1>7, <1>8, <1>9 DEF Next

(* Every step keeps AgentInv.                                                 *)
LEMMA AgentInvStep == AgentInv /\ [Next]_vars => AgentInv'
<1> SUFFICES ASSUME AgentInv, [Next]_vars
             PROVE  AgentInv'
    OBVIOUS
<1>1. CommandsTypeOK /\ HostsTypeOK /\ StartTypeOK /\ Process /\ block \in SUBSET Domains
    BY DEF AgentInv, CommandsTypeOK
<1> DEFINE Kept == HostsTypeOK' /\ StartTypeOK' /\ Text' /\ Process' /\ Orders' /\ block' \in SUBSET Domains
<1> SUFFICES Kept
    BY <1>1, CommandTypes DEF AgentInv, CommandsTypeOK
<1>2. ASSUME UNCHANGED <<hostVars, startVars, block>>,
             loop' # "block" => calls["loop"] = <<>>, ~Alive => loop' = "recv"
      PROVE  Kept
  <2>1. StartTypeOK' /\ proc' = proc
      BY <1>1, <1>2 DEF startVars, StartTypeOK
  <2>2. HostsTypeOK' /\ Text' /\ Process' /\ Orders'
      BY <1>2, <2>1, Quiet
  <2>3. QED
      BY <1>1, <1>2, <2>1, <2>2
<1>3. CASE UNCHANGED vars
    BY <1>1, <1>2, <1>3 DEF vars, cmdVars, Process
<1>4. ASSUME Exit, block' = block
      PROVE  Kept
    BY <1>1, <1>4, ExitStep
<1>5. CASE Environment
  <2>1. ASSUME NEW l \in Foreign, ForeignAppend(l), UNCHANGED <<startVars, received, cmdVars>>
        PROVE  Kept
    <3>1. HostsTypeOK' /\ Text' /\ Process' /\ Orders'
        BY <2>1, ForeignStep
    <3>2. StartTypeOK' /\ block' = block
        BY <1>1, <2>1 DEF startVars, cmdVars, StartTypeOK
    <3>3. QED
        BY <1>1, <3>1, <3>2
  <2>2. ASSUME Starting \/ link_lost, UNCHANGED <<hostVars, received, cmdVars>>
        PROVE  Kept
    <3>1. HostsTypeOK' /\ Text' /\ Process' /\ Orders'
        BY <2>2, StartStep
    <3>2. StartTypeOK'
        BY <1>1, <2>2, StartTypes
    <3>3. QED
        BY <1>1, <2>2, <3>1, <3>2 DEF cmdVars
  <2>3. CASE Killed
      BY <1>4, <2>3 DEF Killed
  <2>4. CASE shutdown_signal
    <3>1. block' = block
        BY <2>4 DEF shutdown_signal, cmdVars
    <3>2. QED
        BY <1>1, <2>4, <3>1, SignalStep
  <2>5. QED
      BY <1>5, <2>1, <2>2, <2>3, <2>4 DEF Environment
<1>6. CASE main_returns \/ IsEnabled
  <2>1. CASE main_returns
      BY <1>4, <2>1 DEF main_returns
  <2>2. CASE IsEnabled
    <3>1. block' = block
        BY <2>2 DEF IsEnabled, cmdVars
    <3>2. QED
        BY <1>1, <2>2, <3>1, IsEnabledStep
  <2>3. QED
      BY <1>6, <2>1, <2>2
<1>7. ASSUME NEW c \in Commands, Dispatch(c)
      PROVE  Kept
  <2>1. Alive /\ loop = "recv" /\ calls["loop"] = <<>>
    <3>1. Received(c)
        BY <1>7 DEF Dispatch, dispatch_refused, backup_once, backup_stream, other_stream, get_logs_once,
           block_once, restore_once
    <3>2. QED
        BY <1>1, <3>1 DEF Received, Process
  <2>2. CASE block_once(c)
    <3>1. StartTypeOK'
        BY <1>1, <2>2 DEF block_once, startVars, StartTypeOK
    <3>2. QED
        BY <2>2, <3>1, BlockStep
  <2>3. CASE Exit /\ UNCHANGED block
      BY <1>4, <2>3
  <2>4. CASE UNCHANGED <<hostVars, startVars, block>>
      BY <1>2, <2>1, <2>4
  <2>5. QED
      BY <1>7, <2>2, <2>3, <2>4 DEF Dispatch, dispatch_refused, backup_once, backup_stream, other_stream,
         get_logs_once, restore_once, cmdVars
<1>8. ASSUME NEW p \in Callers, HostsStep(p)
      PROVE  Kept
  <2>1. Alive /\ Method(p) /\ UNCHANGED <<proc, loop, block>> /\ StartTypeOK'
      BY <1>1, <1>8 DEF HostsStep, startVars, cmdVars, StartTypeOK
  <2>2. HostsTypeOK' /\ Text' /\ Process' /\ Orders'
      BY <2>1, EnterStep, WriteStep DEF Method
  <2>3. QED
      BY <1>1, <2>1, <2>2
<1>9. CASE Handler
  <2>1. /\ Alive /\ loop' = "recv" /\ UNCHANGED <<hostVars, startVars, block>>
        /\ calls["loop"] = <<>> \/ loop = "download"
      BY <1>9 DEF Handler, HandleOnce_returns, DownloadFile
  <2>2. calls["loop"] = <<>>
      BY <1>1, <2>1 DEF Process
  <2>3. QED
      BY <1>2, <2>1, <2>2
<1>10. QED
    BY <1>3, <1>5, <1>6, <1>7, <1>8, <1>9 DEF Next

(* A machine without hosts lines and without a process.                      *)
LEMMA AgentInvInit == Init => AgentInv
<1> SUFFICES ASSUME Init
             PROVE  AgentInv
    OBVIOUS
<1>1. /\ hosts = <<>> /\ content = <<>> /\ enabled = FALSE /\ domains = {} /\ mutex = Nobody
      /\ stage = "idle" /\ calls = [p \in Callers |-> <<>>] /\ written = <<>>
      /\ lost = {} /\ failed = TRUE
    BY DEF Init, HostsInit
<1>2. /\ proc = "off" /\ StartTypeOK
    BY StartAssumption DEF Init, StartInit, StartTypeOK, MaybeId
<1>3. HostsTypeOK
    BY <1>1, EmptySeq DEF HostsTypeOK
<1>4. CommandsTypeOK
    BY <1>2, <1>3, CommandsAssumption DEF Init, CommandsTypeOK
<1>5. Text
    BY <1>1, EmptyText DEF Text
<1>6. Process
    BY <1>1, <1>2, CommandsAssumption, HostsAssumption DEF Init, Process, Alive
<1>7. Orders
    BY <1>1 DEF Orders
<1>8. QED
    BY <1>4, <1>5, <1>6, <1>7 DEF AgentInv

-----------------------------------------------------------------------------
(* CommandsTypeOK: what the manager, the dispatcher and the start of the     *)
(* agent keep is well-typed, and the mutex is taken exactly while a method   *)
(* is at work.                                                               *)
THEOREM AgentTypeCorrect == Spec => []CommandsTypeOK
<1>1. AgentInv => CommandsTypeOK
    BY DEF AgentInv
<1>2. QED
    BY <1>1, AgentInvInit, AgentInvStep, PTL DEF Spec

(* ForeignLinesKept: for any domains, commands and lines of other programs,  *)
(* and through any number of failing and cut-off writes and restarts, the    *)
(* hosts file keeps the foreign lines in their order, except those that a    *)
(* cut-off write did not reach and those added during a write or behind a    *)
(* section left open.                                                        *)
THEOREM ForeignLinesSurvive == Spec => []ForeignLinesKept
<1>1. AgentInv => ForeignLinesKept
    BY DEF AgentInv, Text, Holds, ForeignLinesKept
<1>2. QED
    BY <1>1, AgentInvInit, AgentInvStep, PTL DEF Spec

(* BlockingAsOrdered: after a block_website command without an error the     *)
(* file blocks exactly the domains of that command, in one section, whatever *)
(* the file held before.                                                     *)
THEOREM FileBlocksAsOrdered == Spec => []BlockingAsOrdered
<1>1. AgentInv => BlockingAsOrdered
  <2> SUFFICES ASSUME AgentInv, ~failed, proc = "up", loop = "recv"
               PROVE  Shows(hosts, block)
      BY DEF BlockingAsOrdered, Shows
  <2>1. calls["loop"] = <<>>
      BY DEF AgentInv, Process
  <2>2. QED
      BY <2>1, CallLists DEF AgentInv, Orders
<1>2. QED
    BY <1>1, AgentInvInit, AgentInvStep, PTL DEF Spec

(* RestoreKeepsFile: no step of the agent empties or removes the file that a *)
(* restore is to replace; DownloadFile, whose connection has not logged in,  *)
(* is refused and leaves it alone.                                           *)
THEOREM RestoreIsHarmless == Spec => RestoreKeepsFile
<1>1. [Next]_vars => [file = "user" => file' \in {"user", "version"}]_vars
  <2> SUFFICES ASSUME Next, file = "user"
               PROVE  file' \in {"user", "version"}
      OBVIOUS
  <2>1. CASE DownloadFile
      BY <2>1 DEF DownloadFile
  <2>2. CASE file' = file
      BY <2>2
  <2>3. ASSUME NEW c \in Commands, restore_once(c)
        PROVE  file' = file
      BY <2>3 DEF restore_once, Existing
  <2>4. QED
      BY <2>1, <2>2, <2>3 DEF Next, cmdVars, Environment, Killed, shutdown_signal, IsEnabled, main_returns,
         HostsStep, Handler, HandleOnce_returns, Dispatch, dispatch_refused, backup_once, backup_stream,
         other_stream, get_logs_once, block_once
<1>2. QED
    BY <1>1, PTL DEF Spec, RestoreKeepsFile

=============================================================================
