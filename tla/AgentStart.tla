----------------------------- MODULE AgentStart -----------------------------
(***************************************************************************)
(* How the agent starts: the token and the device id it takes from disk,   *)
(* from osquery or from a login (agent/main.go, internal/auth,             *)
(* BootstrapDevice), and the attempts of the connection manager.           *)
(*                                                                         *)
(* A token is named by the device id it was issued for.  What osquery      *)
(* reports may be another each time: the UUID, only a host name, or        *)
(* neither.  The backend accepts a device if it holds a token under that   *)
(* id, whichever token the agent has sent.                                 *)
(***************************************************************************)
EXTENDS Naturals

CONSTANTS
    RandomIds,  \* what uuid.NewString gives
    MaxRetries  \* the flag -max-retries

ASSUME StartAssumption ==
    /\ RandomIds \intersect {"uuid", "hostname", "none"} = {}
    /\ MaxRetries \in Nat \ {0}

VARIABLES
    proc,       \* the process: "off", "token", "bootstrap", "connect", "up",
                \* "signalled" (SIGTERM), "stopping" (the deferred cleanup runs)
    retries,    \* failed attempts of Connect
    link,       \* the persistent connection
    me,         \* state.DeviceID, and the deviceID handed to BootstrapDevice
    token,      \* the token in use
    tokenFile,  \* the token file
    idFile,     \* the file device.id
    cached,     \* the backend: the ids that deviceTokens has an entry for
    issued      \* history: the ids that the backend has issued a token for

startVars == <<proc, retries, link, me, token, tokenFile, idFile, cached, issued>>

Ids == {"uuid", "hostname"} \union RandomIds
MaybeId == Ids \union {"none"}

StartTypeOK ==
    /\ proc \in {"off", "token", "bootstrap", "connect", "up", "signalled", "stopping"}
    /\ retries \in 0..MaxRetries
    /\ link \in {"up", "lost"}
    /\ me \in MaybeId /\ token \in MaybeId
    /\ tokenFile \in MaybeId /\ idFile \in MaybeId
    /\ cached \in SUBSET Ids /\ issued \in SUBSET Ids

StartInit ==
    /\ proc = "off" /\ retries = 0 /\ link = "lost"
    /\ me = "none" /\ token = "none"
    /\ tokenFile = "none" /\ idFile = "none"
    /\ cached = {} /\ issued = {}

Alive == proc \in {"up", "signalled", "stopping"}

\* What a call of osquery (or of os.Hostname) tells.
Known == {"uuid", "hostname", "neither"}

-----------------------------------------------------------------------------
\* The process ends: files stay.
Stop ==
    /\ proc' = "off" /\ link' = "lost" /\ retries' = 0
    /\ me' = "none" /\ token' = "none"

\* Up to the token; a start that ends before (no root, no database) changes
\* nothing.
main_start ==
    /\ proc = "off"
    /\ proc' = "token"
    /\ UNCHANGED <<retries, link, me, token, tokenFile, idFile, cached, issued>>

\* loadOrPromptToken with a token file.
LoadToken ==
    /\ proc = "token" /\ tokenFile # "none"
    /\ token' = tokenFile
    /\ proc' = "bootstrap"
    /\ UNCHANGED <<retries, link, me, tokenFile, idFile, cached, issued>>

\* auth.Login: osquery's UUID, else the cached id, else the host name, else a
\* new UUID.
LoginIds(known) ==
    IF known = "uuid" THEN {"uuid"}
    ELSE IF idFile # "none" THEN {idFile}
    ELSE IF known = "hostname" THEN {"hostname"} ELSE RandomIds \ issued

\* handleLogin of the backend issues a token for the id and keeps it under that
\* id; a connection that has sent no MSG_LOGIN does not take it away again.
Issue(id) == cached' = cached \union {id} /\ issued' = issued \union {id}

\* auth.Login returns: the token is written to disk, and the id unless that
\* fails.
Login(id) ==
    /\ Issue(id)
    /\ token' = id /\ tokenFile' = id /\ me' = id
    /\ idFile' \in {id, idFile}
    /\ proc' = "bootstrap"
    /\ UNCHANGED <<retries, link>>

\* main ends: no credentials, no connection, a refusal, or, with the token
\* already issued, no way to write it to disk.
Login_fails(id) ==
    /\ Stop
    /\ Issue(id) \/ UNCHANGED <<cached, issued>>
    /\ tokenFile' \in {"none", tokenFile}
    /\ UNCHANGED idFile

promptLogin == \E known \in Known : \E id \in LoginIds(known) : Login(id) \/ Login_fails(id)

prompt_token == proc = "token" /\ tokenFile = "none" /\ promptLogin

\* The id BootstrapDevice registers, "none" if there is none.
BootstrapId(known) ==
    IF me # "none" THEN me ELSE IF known # "neither" THEN known ELSE "none"

\* Mutant: the backend does not look for a token of the id.
BootstrapDevice_ok_open(id) ==
    /\ proc = "bootstrap"
    /\ me' = id
    /\ proc' = "connect" /\ retries' = 0
    /\ UNCHANGED <<link, token, tokenFile, idFile, cached, issued>>

\* device_register is accepted if the backend has a token of that id: the one
\* just sent in MSG_LOGIN, if it was issued for the id, or an earlier one.
BootstrapDevice_ok(id) ==
    /\ proc = "bootstrap"
    /\ id # "none"
    /\ id = token \/ id \in cached
    /\ me' = id
    /\ cached' = cached \union {id}
    /\ proc' = "connect" /\ retries' = 0
    /\ UNCHANGED <<link, token, tokenFile, idFile, issued>>

\* 401, also for the very id of a token that has expired: the token file is
\* removed (or that fails) and the user asked to log in again.
BootstrapDevice_unauthorized(id) == proc = "bootstrap" /\ id \notin cached /\ promptLogin

\* osquery fails, or the backend answers with another error or not at all.
BootstrapDevice_error ==
    /\ proc = "bootstrap"
    /\ Stop
    /\ UNCHANGED <<tokenFile, idFile, cached, issued>>

\* Connect: dial and send MSG_LOGIN for me with the token, which the backend
\* keeps if it was issued for me.
Connect ==
    /\ proc = "connect"
    /\ proc' = "up" /\ link' = "up" /\ retries' = 0
    /\ cached' \in {cached, cached \union ({me} \intersect {token})}
    /\ UNCHANGED <<me, token, tokenFile, idFile, issued>>

\* A failed attempt; after the last one main returns.
Connect_fails ==
    /\ proc = "connect"
    /\ \/ /\ retries + 1 < MaxRetries
          /\ retries' = retries + 1
          /\ UNCHANGED <<proc, link, me, token>>
       \/ /\ retries + 1 >= MaxRetries
          /\ Stop
    /\ UNCHANGED <<tokenFile, idFile, cached, issued>>

\* recv fails from now on; the receive loop only logs it and tries again.
link_lost ==
    /\ Alive /\ link = "up"
    /\ link' = "lost"
    /\ UNCHANGED <<proc, retries, me, token, tokenFile, idFile, cached, issued>>

\* HandleDisconnect of a connection that had sent MSG_LOGIN for the id, at any
\* time before the table is read.
token_dropped(id) ==
    /\ proc = "bootstrap"
    /\ cached' = cached \ {id}
    /\ UNCHANGED <<proc, retries, link, me, token, tokenFile, idFile, issued>>

Starting ==
    \/ main_start \/ LoadToken \/ prompt_token
    \/ \E known \in Known :
          BootstrapDevice_ok(BootstrapId(known)) \/ BootstrapDevice_unauthorized(BootstrapId(known))
    \/ BootstrapDevice_error
    \/ \E id \in cached : token_dropped(id)
    \/ Connect \/ Connect_fails

-----------------------------------------------------------------------------
(* The agent runs under a device id that a login on this machine was given a  *)
(* token for, with a token that a login was given: after any number of starts *)
(* with the token on disk, of 401 answers and of new logins, whatever osquery *)
(* reports each time.  (The token need not be the one of that id.)            *)
RunsUnderIssuedId ==
    proc \in {"connect", "up", "signalled", "stopping"} => me \in issued /\ token \in issued

=============================================================================
