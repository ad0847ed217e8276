----------------------------- MODULE HostsFile ------------------------------
(***************************************************************************)
(* Website blocking: the HostsManager of agent/internal/firewall/hosts.go  *)
(* and the hosts file it rewrites.                                         *)
(*                                                                         *)
(* The manager's mutex is held over a whole method, but the file belongs   *)
(* to everybody: other programs append lines to it, and the process can    *)
(* end between the truncation of the file and the flush of its new         *)
(* content.  A method is therefore four steps: change the flag or the list *)
(* and read the file, copy it to .sagiri-backup, truncate it, write it.    *)
(*                                                                         *)
(* A line of the file is a marker, a foreign line, or a blocked domain     *)
(* (which stands for its own line and the one of its www. name).           *)
(***************************************************************************)
EXTENDS Naturals, Sequences, SequencesExt, FiniteSets, Subsequence

CONSTANTS
    Domains,    \* domains that rules can block
    Foreign,    \* lines of other programs
    Callers,    \* goroutines that call the manager
    Start, End, \* blockMarkerStart, blockMarkerEnd
    Nobody

ASSUME HostsAssumption ==
    /\ IsFiniteSet(Domains) /\ Domains \intersect Foreign = {}
    /\ Start # End
    /\ {Start, End} \intersect (Domains \union Foreign) = {}
    /\ Nobody \notin Callers

VARIABLES
    hosts,      \* lines of the hosts file
    enabled,    \* HostsManager.enabled
    domains,    \* HostsManager.domains
    mutex,      \* who is inside a method
    stage,      \* how far that method is
    content,    \* the lines it is about to write
    calls,      \* calls[p]: the methods p still has to call
    written,    \* history: the foreign lines in the order they were added
    lost,       \* history: the foreign lines that were added while a method was
                \* between its read and its write, or behind a section that a cut-off
                \* write had left open, and those that a cut-off write did not reach
    failed      \* history: no method has been called yet, or one has failed since
                \* the last command

hostVars == <<hosts, enabled, domains, mutex, stage, content, calls, written, lost, failed>>

Lines == Domains \union Foreign \union {Start, End}

\* A method call: SetEnabled(TRUE), SetEnabled(FALSE) or SetDomains(ds).
Call == [m : {"enable", "disable"}] \union [m : {"set"}, ds : SUBSET Domains]

HostsTypeOK ==
    /\ hosts \in Seq(Lines) /\ content \in Seq(Lines)
    /\ enabled \in BOOLEAN /\ domains \in SUBSET Domains
    /\ mutex \in Callers \union {Nobody}
    /\ stage \in {"idle", "read", "saved", "truncated"}
    /\ mutex = Nobody <=> stage = "idle"
    /\ calls \in [Callers -> Seq(Call)]
    /\ written \in Seq(Foreign)
    /\ lost \in SUBSET Foreign
    /\ failed \in BOOLEAN

HostsInit ==
    /\ hosts = <<>> /\ content = <<>>
    /\ enabled = FALSE /\ domains = {}
    /\ mutex = Nobody /\ stage = "idle"
    /\ calls = [p \in Callers |-> <<>>]
    /\ written = <<>>
    /\ lost = {} /\ failed = TRUE

-----------------------------------------------------------------------------
(* The file's text.                                                        *)
\* Mutant: the end marker does not end the section.
scanLine_to_eof(acc, line) ==
    CASE line = Start -> [acc EXCEPT !.inBlock = TRUE]
      [] line = End   -> acc
      [] OTHER        -> IF acc.inBlock THEN acc ELSE [acc EXCEPT !.result = Append(@, line)]

\* The body of the loop over the lines.
scanLine(acc, line) ==
    CASE line = Start -> [acc EXCEPT !.inBlock = TRUE]
      [] line = End   -> [acc EXCEPT !.inBlock = FALSE]
      [] OTHER        -> IF acc.inBlock THEN acc ELSE [acc EXCEPT !.result = Append(@, line)]

removeBlockSection(lines) ==
    LET after[i \in 0..Len(lines)] ==
            IF i = 0 THEN [inBlock |-> FALSE, result |-> <<>>]
            ELSE scanLine(after[i - 1], lines[i])
    IN  after[Len(lines)].result

\* Mutant: the old section is kept and a new one added.
applyBlocks_added(lines, ds) ==
    IF ds = {} THEN removeBlockSection(lines)
    ELSE lines \o <<Start>> \o SetToSeq(ds) \o <<End>>

\* The new text when blocking is on.  (The order of the domains is the
\* iteration order of a map; nothing depends on it.)
applyBlocks(lines, ds) ==
    removeBlockSection(lines) \o
        (IF ds = {} THEN <<>> ELSE <<Start>> \o SetToSeq(ds) \o <<End>>)

removeBlocks(lines) == removeBlockSection(lines)

\* Up to its line i the text has a section that is not closed.
Inside(lines, i) ==
    \E j \in 1..i : lines[j] = Start /\ \A k \in (j + 1)..i : lines[k] # End

\* What resolvers see of the file: the domains it redirects.
Blocked(lines) == {lines[i] : i \in DOMAIN lines} \intersect Domains

-----------------------------------------------------------------------------
(* The methods.  A call that needs no write ends at once; any error ends   *)
(* the whole list of calls, since the handler returns it.                  *)
Returns(p) ==
    /\ mutex' = Nobody /\ stage' = "idle" /\ content' = <<>>
    /\ calls' = [calls EXCEPT ![p] = Tail(@)]
    /\ UNCHANGED failed

\* Mutant: an error path returns without unlocking.
Fails_locked(p) ==
    /\ mutex' = p /\ stage' = "locked" /\ content' = <<>>
    /\ calls' = [calls EXCEPT ![p] = <<>>]
    /\ failed' = TRUE

Fails(p) ==
    /\ mutex' = Nobody /\ stage' = "idle" /\ content' = <<>>
    /\ calls' = [calls EXCEPT ![p] = <<>>]
    /\ failed' = TRUE

\* SetEnabled and SetDomains up to readHostsFile, which may fail.
EnterMethod(p) ==
    LET c == Head(calls[p])
        on == IF c.m = "set" THEN enabled ELSE c.m = "enable"
        ds == IF c.m = "set" THEN c.ds ELSE domains
    IN  /\ mutex = Nobody /\ calls[p] # <<>>
        /\ enabled' = on /\ domains' = ds
        /\ \/ /\ c.m = "set" /\ ~on
              /\ Returns(p)
           \/ /\ c.m # "set" \/ on
              /\ mutex' = p /\ stage' = "read"
              /\ content' = IF on THEN applyBlocks(hosts, ds) ELSE removeBlocks(hosts)
              /\ UNCHANGED <<calls, failed>>
           \/ /\ c.m # "set" \/ on
              /\ Fails(p)
        /\ UNCHANGED <<hosts, written, lost>>

\* The copy to .sagiri-backup, which nothing ever reads; an error of it is only
\* logged.
backupHostsFile(p) ==
    /\ mutex = p /\ stage = "read"
    /\ stage' = "saved"
    /\ UNCHANGED <<hosts, enabled, domains, mutex, content, calls, written, lost, failed>>

open_truncate(p) ==
    /\ mutex = p /\ stage = "saved"
    /\ stage' = "truncated"
    /\ hosts' = <<>>
    /\ UNCHANGED <<enabled, domains, mutex, content, calls, written, lost, failed>>

\* Without the privilege to write the file.
open_fails(p) ==
    /\ mutex = p /\ stage = "saved"
    /\ Fails(p)
    /\ UNCHANGED <<hosts, enabled, domains, written, lost>>

flush(p) ==
    /\ mutex = p /\ stage = "truncated"
    /\ hosts' = content
    /\ Returns(p)
    /\ UNCHANGED <<enabled, domains, written, lost>>

\* Only the first k lines reach the file.
CutOff(k) ==
    /\ hosts' = SubSeq(content, 1, k)
    /\ lost' = lost \union ({content[i] : i \in (k + 1)..Len(content)} \intersect Foreign)

\* The write stops somewhere: the disk is full.
flush_fails(p) ==
    /\ mutex = p /\ stage = "truncated"
    /\ \E k \in 0..(Len(content) - 1) : CutOff(k)
    /\ Fails(p)
    /\ UNCHANGED <<enabled, domains, written>>

Method(p) ==
    \/ EnterMethod(p) \/ backupHostsFile(p) \/ open_truncate(p)
    \/ open_fails(p) \/ flush(p) \/ flush_fails(p)

\* Another program appends a line of its own.  Between the read and the write
\* of a method the line is going to be overwritten; behind an open section it
\* counts as one of that section.
ForeignAppend(l) ==
    /\ stage # "truncated"
    /\ \A i \in DOMAIN written : written[i] # l
    /\ hosts' = Append(hosts, l)
    /\ written' = Append(written, l)
    /\ lost' = IF stage = "idle" /\ ~Inside(hosts, Len(hosts)) THEN lost ELSE lost \union {l}
    /\ UNCHANGED <<enabled, domains, mutex, stage, content, calls, failed>>

\* The process ends here, with what has reached the file so far, and nothing
\* of the manager survives.
ProcessEnds ==
    /\ \/ stage # "truncated" /\ UNCHANGED <<hosts, lost>>
       \/ stage = "truncated" /\ \E k \in 0..Len(content) : CutOff(k)
    /\ enabled' = FALSE /\ domains' = {}
    /\ mutex' = Nobody /\ stage' = "idle" /\ content' = <<>>
    /\ calls' = [p \in Callers |-> <<>>]
    /\ failed' = TRUE
    /\ UNCHANGED written
=============================================================================
