---------------------------- MODULE Registration ----------------------------
(***************************************************************************)
(* How a host becomes the agent of a node: the one-time registration       *)
(* tokens of the control plane (agent-register.service.ts), the host's     *)
(* identity files (credentials.go, durable.go) and the state database that *)
(* belongs to one node (main.go, store.go).                                *)
(*                                                                         *)
(* A file is what the running system sees and, apart from it, what the     *)
(* disk would show after a power loss: they agree again once the file's    *)
(* directory is synced.  The database's -shm goes with its -wal.           *)
(***************************************************************************)
EXTENDS Naturals, Sequences

CONSTANTS RegNodes,       \* nodes
          MaxRegTokens,   \* registration tokens issued
          MaxSecrets,     \* agent secrets generated
          MaxEras,        \* times the operator changes the host's environment
          MaxHostFaults,  \* crashes, lost answers and power losses
          MaxAdminActs,   \* revocations, manual credentials, deleted files
          NoFile          \* a model value: no file, token or identity

ASSUME RegAssumption ==
    /\ {MaxRegTokens, MaxSecrets, MaxEras, MaxHostFaults, MaxAdminActs} \subseteq Nat \ {0}
    /\ NoFile \notin RegNodes \cup Nat

RegTokens == 1..MaxRegTokens
Secrets == 1..MaxSecrets
IdentityFiles == {"credentials", "pending"}
StateFiles == {"db", "wal"}
Files == IdentityFiles \cup StateFiles \cup {"journal"}

(* What an identity in use, the identity files and a reset's journal hold. *)
Identities == [node : RegNodes, secret : Secrets]
Credentials == [node : RegNodes, secret : Secrets, token : RegTokens]
PendingSecrets == [secret : Secrets, token : RegTokens]
Journals == {IdentityFiles \cup StateFiles, StateFiles}

ASSUME NoFileAssumption ==
    NoFile \notin Identities \cup Credentials \cup PendingSecrets \cup Journals

VARIABLES
    regStatus,  \* Node.registrationStatus, "none" before the node exists
    regTokens,  \* AgentRegisterToken rows, in the order they were issued
    agents,     \* NodeAgent rows
    manual,     \* a createCredential transaction and the agents it revokes
    requests,   \* registration requests on their way
    generated,  \* secrets generated so far
    env,        \* the host's environment, and how often it was changed
    seen,       \* the files as the host sees them
    safe,       \* the files as a power loss leaves them
    pc,         \* where the agent process is
    mem,        \* what the process has in memory
    undone,     \* history: a power loss took back a journal, not its renames
    hostFaults, adminActs

regVars == <<regStatus, regTokens, agents, manual, requests, generated, env,
             seen, safe, pc, mem, undone, hostFaults, adminActs>>
serverVars == <<regStatus, regTokens, agents, manual>>
hostVars == <<env, seen, safe, pc, mem, undone>>

NoMem == [secret |-> NoFile, id |-> NoFile, left |-> {}, covers |-> {}, after |-> "off"]

RegInit ==
    /\ regStatus = [n \in RegNodes |-> "none"] /\ regTokens = <<>> /\ agents = {}
    /\ manual = [node |-> NoFile, revokes |-> {}]
    /\ requests = {} /\ generated = 0
    /\ env = [token |-> NoFile, reset |-> FALSE, explicit |-> NoFile, era |-> 0]
    /\ seen = [f \in Files |-> NoFile] /\ safe = seen
    /\ pc = "off" /\ mem = NoMem /\ undone = FALSE
    /\ hostFaults = 0 /\ adminActs = 0

LiveAgents(n) == {a \in agents : a.node = n /\ a.live}
AdminAct == adminActs < MaxAdminActs /\ adminActs' = adminActs + 1

-----------------------------------------------------------------------------
(* The control plane.                                                      *)

NewToken(n) == [node |-> n, used |-> FALSE, expired |-> FALSE]

CreatePendingNode(n) ==
    /\ regStatus[n] = "none" /\ Len(regTokens) < MaxRegTokens
    /\ regStatus' = [regStatus EXCEPT ![n] = "pending_register"]
    /\ regTokens' = Append(regTokens, NewToken(n))
    /\ UNCHANGED <<agents, manual, requests, generated, env, seen, safe, pc, mem,
                   undone, hostFaults, adminActs>>

(* The open tokens of the node are closed: only the newest install command *)
(* works.                                                                  *)
(* Fault: they stay open.                                                  *)
CloseNoTokens(n) == regTokens

CloseTokens(n) ==
    [t \in DOMAIN regTokens |->
        IF regTokens[t].node = n THEN [regTokens[t] EXCEPT !.used = TRUE] ELSE regTokens[t]]

IssueRegisterToken(n) ==
    /\ regStatus[n] = "pending_register" /\ LiveAgents(n) = {}
    /\ Len(regTokens) < MaxRegTokens
    /\ regTokens' = Append(CloseTokens(n), NewToken(n))
    /\ UNCHANGED <<regStatus, agents, manual, requests, generated, env, seen, safe,
                   pc, mem, undone, hostFaults, adminActs>>

ExpireToken(t) ==
    /\ ~regTokens[t].expired /\ regTokens' = [regTokens EXCEPT ![t].expired = TRUE]
    /\ UNCHANGED <<regStatus, agents, manual, requests, generated, env, seen, safe,
                   pc, mem, undone, hostFaults, adminActs>>

(* registerOnce, one serializable transaction.                             *)
BoundElsewhere(r, n) == \E a \in agents : a.secret = r.secret /\ a.node # n
Replayed(r, n) == \E a \in LiveAgents(n) : a.secret = r.secret
Mints(r, n) ==
    /\ ~regTokens[r.token].expired /\ LiveAgents(n) = {}
    /\ ~regTokens[r.token].used /\ regStatus[n] = "pending_register"

RegisterOnce(r, outcome) ==
    LET n == regTokens[r.token].node
        replay == regTokens[r.token].used /\ Replayed(r, n) IN
    \/ /\ ~BoundElsewhere(r, n) /\ ~replay /\ Mints(r, n) /\ outcome = "accepted"
       /\ agents' = agents \cup {[node |-> n, secret |-> r.secret, token |-> r.token,
                                  era |-> r.era, live |-> TRUE]}
       /\ regTokens' = [regTokens EXCEPT ![r.token].used = TRUE]
       /\ regStatus' = [regStatus EXCEPT ![n] = "agent_ready"]
       /\ UNCHANGED manual
    \/ /\ ~BoundElsewhere(r, n) /\ replay /\ outcome = "accepted"
       /\ UNCHANGED serverVars
    \/ /\ BoundElsewhere(r, n) \/ ~(replay \/ Mints(r, n))
       /\ outcome = "refused" /\ UNCHANGED serverVars

(* The same install command, run on another host.                          *)
RegisterElsewhere(t) ==
    /\ AdminAct /\ generated < MaxSecrets /\ generated' = generated + 1
    /\ \E outcome \in {"accepted", "refused"} :
           RegisterOnce([token |-> t, secret |-> generated', era |-> NoFile], outcome)
    /\ UNCHANGED <<requests, env, seen, safe, pc, mem, undone, hostFaults>>

RevokeCredential(a) ==
    /\ AdminAct /\ a.live
    /\ agents' = (agents \ {a}) \cup {[a EXCEPT !.live = FALSE]}
    /\ UNCHANGED <<regStatus, regTokens, manual, requests, generated, env, seen, safe,
                   pc, mem, undone, hostFaults>>

(* createCredential, read committed: it revokes the agents its update      *)
(* finds, and what is registered before it commits stays live.             *)
CreateCredential(n) ==
    /\ AdminAct /\ regStatus[n] # "none" /\ manual.node = NoFile
    /\ manual' = [node |-> n, revokes |-> LiveAgents(n)]
    /\ UNCHANGED <<regStatus, regTokens, agents, requests, generated, env, seen, safe,
                   pc, mem, undone, hostFaults>>

CommitCredential ==
    /\ manual.node # NoFile /\ generated < MaxSecrets /\ generated' = generated + 1
    /\ agents' = {IF a \in manual.revokes THEN [a EXCEPT !.live = FALSE] ELSE a : a \in agents}
                 \cup {[node |-> manual.node, secret |-> generated', token |-> NoFile,
                        era |-> NoFile, live |-> TRUE]}
    /\ manual' = [node |-> NoFile, revokes |-> {}]
    /\ UNCHANGED <<regStatus, regTokens, requests, env, seen, safe, pc, mem,
                   undone, hostFaults, adminActs>>

-----------------------------------------------------------------------------
(* The agent process.                                                      *)

Sees(f, content) == seen' = [seen EXCEPT ![f] = content]
SyncDir(files) == safe' = [f \in Files |-> IF f \in files THEN seen'[f] ELSE safe[f]]
IdentityDir == IdentityFiles \cup {"journal"}
HostStep == UNCHANGED <<serverVars, env, undone, hostFaults, adminActs>>
Exit == pc' = "off" /\ mem' = NoMem

(* The directories a reset's files live in.                                *)
DirsOf(files) == (IF files \cap IdentityFiles # {} THEN IdentityDir ELSE {}) \cup StateFiles

(* main: a reset that was interrupted is finished before any identity.     *)
(* Fault: the journal is not looked at.                                    *)
StartBlind ==
    /\ pc = "off" /\ pc' = "resolve" /\ mem' = NoMem
    /\ UNCHANGED <<seen, safe, requests, generated>> /\ HostStep

Start ==
    /\ pc = "off"
    /\ \/ seen["journal"] = NoFile /\ pc' = "resolve" /\ mem' = NoMem
       \/ /\ seen["journal"] # NoFile /\ pc' = "archive"
          /\ mem' = [NoMem EXCEPT !.left = seen["journal"], !.covers = seen["journal"],
                                  !.after = "resolve"]
    /\ UNCHANGED <<seen, safe, requests, generated>> /\ HostStep

(* archiveFiles writes the journal before the first rename.                *)
BeginArchive(files, after) ==
    /\ Sees("journal", files) /\ pc' = "journal"
    /\ mem' = [mem EXCEPT !.left = files, !.covers = files, !.after = after]
    /\ UNCHANGED safe

SyncJournal ==
    /\ pc = "journal" /\ pc' = "archive" /\ UNCHANGED <<seen, mem, requests, generated>>
    /\ SyncDir(IdentityDir) /\ HostStep

(* archiveWithStamp renames the files one after the other.                 *)
Rank == [credentials |-> 1, pending |-> 2, db |-> 3, wal |-> 4]
RenameNext ==
    /\ pc = "archive" /\ mem.left # {}
    /\ LET f == CHOOSE f \in mem.left : \A g \in mem.left : Rank[f] <= Rank[g] IN
           Sees(f, NoFile) /\ mem' = [mem EXCEPT !.left = @ \ {f}]
    /\ UNCHANGED <<pc, safe, requests, generated>> /\ HostStep

(* It syncs every directory the reset covers, also of the files an earlier *)
(* attempt renamed.                                                        *)
SyncArchive ==
    /\ pc = "archive" /\ mem.left = {} /\ pc' = "clear"
    /\ UNCHANGED <<seen, mem, requests, generated>>
    /\ SyncDir(DirsOf(mem.covers)) /\ HostStep

RemoveJournal ==
    /\ pc = "clear" /\ pc' = "cleared" /\ Sees("journal", NoFile)
    /\ UNCHANGED <<safe, mem, requests, generated>> /\ HostStep

SyncClear ==
    /\ pc = "cleared" /\ pc' = mem.after /\ UNCHANGED <<seen, requests, generated>>
    /\ mem' = [NoMem EXCEPT !.id = mem.id] /\ SyncDir(IdentityDir) /\ HostStep

(* Resolve: the operator's identity, or the saved one if the token in the  *)
(* environment produced it; a reset needs consent; else register.          *)
Identity(c) == [node |-> c.node, secret |-> c.secret]
Resolve ==
    LET saved == seen["credentials"]
        mine == saved # NoFile /\ env.token \in {NoFile, saved.token} IN
    /\ pc = "resolve"
    /\ \/ /\ env.explicit # NoFile /\ pc' = "open" /\ UNCHANGED <<seen, safe>>
          /\ mem' = [mem EXCEPT !.id = env.explicit]
       \/ /\ env.explicit = NoFile /\ mine /\ pc' = "open" /\ UNCHANGED <<seen, safe>>
          /\ mem' = [mem EXCEPT !.id = Identity(saved)]
       \/ /\ env.explicit = NoFile /\ saved # NoFile /\ ~mine /\ env.reset
          /\ BeginArchive(IdentityFiles \cup StateFiles, "register")
       \/ /\ env.explicit = NoFile /\ saved = NoFile /\ env.token # NoFile
          /\ pc' = "register" /\ UNCHANGED <<mem, seen, safe>>
       \/ /\ env.explicit = NoFile
          /\ \/ saved # NoFile /\ ~mine /\ ~env.reset
             \/ saved = NoFile /\ env.token = NoFile
          /\ Exit /\ UNCHANGED <<seen, safe>>
    /\ UNCHANGED <<requests, generated>> /\ HostStep

(* register: only a retry of the same token reuses the pending secret, and *)
(* every attempt persists it again before the request.                     *)
(* Fault: a pending secret is reused whatever token it was made for.       *)
ReusableForAny(p) == p # NoFile

(* Fault: every attempt generates a new secret.                            *)
NeverReusable(p) == FALSE

Reusable(p) == p # NoFile /\ p.token = env.token

PersistPending ==
    LET pending == seen["pending"] IN
    /\ pc = "register" /\ pc' = "pending"
    /\ \/ /\ Reusable(pending) /\ mem' = [mem EXCEPT !.secret = pending.secret]
          /\ UNCHANGED generated
       \/ /\ ~Reusable(pending) /\ generated < MaxSecrets /\ generated' = generated + 1
          /\ mem' = [mem EXCEPT !.secret = generated']
    /\ Sees("pending", [secret |-> mem'.secret, token |-> env.token])
    /\ UNCHANGED <<safe, requests>> /\ HostStep

SendRegister ==
    /\ pc = "pending" /\ pc' = "sent"
    /\ requests' = requests \cup {[token |-> env.token, secret |-> mem.secret, era |-> env.era]}
    /\ UNCHANGED <<seen, mem, generated>> /\ SyncDir(IdentityDir) /\ HostStep

(* The control plane answers a request, perhaps after its sender is gone,  *)
(* or the answer is lost; an error ends the process.                       *)
Answer(r) ==
    LET waits == pc = "sent" /\ r.secret = mem.secret /\ r.token = env.token
        n == regTokens[r.token].node IN
    /\ requests' = requests \ {r}
    /\ \E outcome \in {"accepted", "refused"} :
        /\ RegisterOnce(r, outcome)
        /\ \/ /\ waits /\ outcome = "accepted" /\ pc' = "granted" /\ UNCHANGED hostFaults
              /\ mem' = [mem EXCEPT !.id = [node |-> n, secret |-> r.secret]]
           \/ waits /\ outcome = "refused" /\ Exit /\ UNCHANGED hostFaults
           \/ /\ waits /\ hostFaults < MaxHostFaults /\ hostFaults' = hostFaults + 1 /\ Exit
           \/ ~waits /\ UNCHANGED <<pc, mem, hostFaults>>
    /\ UNCHANGED <<generated, env, seen, safe, undone, adminActs>>

SaveCredentials ==
    /\ pc = "granted" /\ pc' = "saved"
    /\ Sees("credentials", [node |-> mem.id.node, secret |-> mem.id.secret, token |-> env.token])
    /\ UNCHANGED <<safe, mem, requests, generated>> /\ HostStep

SyncCredentials ==
    /\ pc = "saved" /\ pc' = "open" /\ UNCHANGED <<seen, mem, requests, generated>>
    /\ SyncDir(IdentityDir) /\ HostStep

(* openStore and assertOwnIdentity: a database of another node is refused, *)
(* or with consent archived without the identity; a write-ahead log that   *)
(* lies beside the database is read with it.                               *)
OpenStore ==
    LET foreign == seen["db"] \notin {NoFile, mem.id.node} IN
    /\ pc = "open"
    /\ \/ /\ ~foreign /\ pc' = "running" /\ UNCHANGED mem
          /\ seen' = [seen EXCEPT !["db"] = mem.id.node,
                                  !["wal"] = IF @ = NoFile THEN mem.id.node ELSE @]
          /\ SyncDir(StateFiles)
       \/ foreign /\ env.reset /\ BeginArchive(StateFiles, "open")
       \/ foreign /\ ~env.reset /\ Exit /\ UNCHANGED <<seen, safe>>
    /\ UNCHANGED <<requests, generated>> /\ HostStep

-----------------------------------------------------------------------------
(* The process stops or dies, the host loses power, the operator changes   *)
(* the environment or deletes the credentials file alone.                  *)

HostFault == hostFaults < MaxHostFaults /\ hostFaults' = hostFaults + 1

Crash ==
    /\ pc # "off" /\ Exit
    /\ IF pc = "running" THEN UNCHANGED hostFaults ELSE HostFault
    /\ UNCHANGED <<serverVars, requests, generated, env, seen, safe, undone, adminActs>>

(* A reset that is resumed does not sync the journal it found: until its   *)
(* directory is synced, a power loss may take the journal back and keep    *)
(* some of the renames made under it.                                      *)
LosesJournal ==
    /\ seen["journal"] # NoFile /\ seen'["journal"] = NoFile
    /\ \E f \in seen["journal"] : seen[f] = NoFile /\ safe[f] # NoFile

(* Every file whose directory is not synced is as new or as old as it      *)
(* likes.                                                                  *)
PowerLoss ==
    /\ HostFault /\ Exit
    /\ seen' \in {[f \in Files |-> IF f \in kept THEN seen[f] ELSE safe[f]] : kept \in SUBSET Files}
    /\ safe' = seen' /\ undone' = (undone \/ LosesJournal)
    /\ UNCHANGED <<serverVars, requests, generated, env, adminActs>>

ChangeEnvironment ==
    /\ pc = "off" /\ env.era < MaxEras
    /\ \E token \in DOMAIN regTokens \cup {NoFile}, reset \in BOOLEAN,
          manualOf \in {NoFile} \cup {Identity(a) : a \in {b \in agents : b.token = NoFile}} :
        /\ manualOf = NoFile \/ token = NoFile
        /\ env' = [token |-> token, reset |-> reset, explicit |-> manualOf, era |-> env.era + 1]
    /\ UNCHANGED <<serverVars, requests, generated, seen, safe, pc, mem, undone, hostFaults, adminActs>>

DeleteCredentials ==
    /\ pc = "off" /\ seen["credentials"] # NoFile /\ AdminAct
    /\ Sees("credentials", NoFile) /\ SyncDir(IdentityDir)
    /\ UNCHANGED <<serverVars, requests, generated, env, pc, mem, undone, hostFaults>>

RegNext ==
    \/ \E n \in RegNodes : CreatePendingNode(n) \/ IssueRegisterToken(n) \/ CreateCredential(n)
    \/ \E t \in DOMAIN regTokens : ExpireToken(t) \/ RegisterElsewhere(t)
    \/ \E a \in agents : RevokeCredential(a)
    \/ CommitCredential
    \/ Start \/ SyncJournal \/ RenameNext \/ SyncArchive \/ RemoveJournal \/ SyncClear
    \/ Resolve \/ PersistPending \/ SendRegister \/ SaveCredentials \/ SyncCredentials
    \/ \E r \in requests : Answer(r)
    \/ OpenStore \/ Crash \/ PowerLoss \/ ChangeEnvironment \/ DeleteCredentials

RegSpec == RegInit /\ [][RegNext]_regVars

-----------------------------------------------------------------------------
(* The values the state may have.                                          *)
RegTypeOK ==
    /\ regStatus \in [RegNodes -> {"none", "pending_register", "agent_ready"}]
    /\ Len(regTokens) <= MaxRegTokens /\ generated \in 0..MaxSecrets
    /\ \A a \in agents : a.node \in RegNodes /\ a.secret \in 1..generated
    /\ \A r \in requests : r.token \in DOMAIN regTokens /\ r.secret \in 1..generated
    /\ pc \in {"off", "journal", "archive", "clear", "cleared", "resolve", "register",
               "pending", "sent", "granted", "saved", "open", "running"}
    /\ DOMAIN seen = Files /\ DOMAIN safe = Files /\ undone \in BOOLEAN

(* A registration is never lost: whatever crash, power loss or lost answer *)
(* follows, a host whose token made a live agent still holds that agent's  *)
(* secret, in the saved identity or to be replayed, for as long as the     *)
(* operator leaves the environment alone (register, credentials.go).       *)
RegistrationRecoverable ==
    \A a \in agents :
        a.live /\ a.token # NoFile /\ a.era = env.era /\ a.token = env.token =>
            \/ seen["pending"] = [secret |-> a.secret, token |-> a.token]
            \/ seen["credentials"] = [node |-> a.node, secret |-> a.secret, token |-> a.token]

(* An agent only runs on the state of its own node, the write-ahead log    *)
(* included, wherever crashes and power losses interrupt a reset and the   *)
(* resumption of it (archiveFiles, finishInterruptedReset, openStore), but *)
(* for one case: a reset dies before its journal is synced, is resumed,    *)
(* and a power loss then takes the journal back but not all the renames.   *)
RunsOnOwnState ==
    pc = "running" /\ ~undone => seen["db"] = mem.id.node /\ seen["wal"] = mem.id.node

(* A secret bound to one node is never sent to register another            *)
(* (register, credentials.go).                                             *)
NoCrossNodeSecret ==
    \A r \in requests, a \in agents :
        r.secret = a.secret => a.node = regTokens[r.token].node

(* Only the newest install command of a node makes its agent, and it makes *)
(* one (issueRegisterTokenOnce, registerOnce).                             *)
NewestTokenWins ==
    \A a \in agents : a.token # NoFile =>
        /\ \A t \in DOMAIN regTokens : regTokens[t].node = a.node => t <= a.token
        /\ \A b \in agents : b.token = a.token => b.secret = a.secret

(* Tokens and secrets are in order: types, a secret stays with its node,   *)
(* and the newest token makes the one agent.                               *)
TokenInvariant == RegTypeOK /\ NoCrossNodeSecret /\ NewestTokenWins
=============================================================================
