--------------------------- MODULE NodeEnrollment ---------------------------
(***************************************************************************)
(* How a host becomes a node: `ploy cluster node add` mints a bootstrap    *)
(* token for a fresh node id, provisions the host over SSH and starts the  *)
(* agent; the agent exchanges the token for a certificate                  *)
(* (POST /v1/pki/bootstrap) and writes it to disk, restarting from the top *)
(* whenever it fails (systemd Restart=always).                             *)
(*                                                                         *)
(* A node id, its token and its token id are drawn together by one         *)
(* `node add`, so one number stands for all three.  A certificate is       *)
(* the record of the id it names and the key it certifies; its serial is   *)
(* abstracted to the key, which is fresh for every agent start.            *)
(***************************************************************************)
EXTENDS Naturals, FiniteSets

CONSTANTS MaxAdds,      \* `node add` commands run against the host
          MaxTries,     \* requests of one agent start (CertificateBootstrapPolicy)
          MaxBoots,     \* agent starts that draw a key
          MaxLosses,    \* answers the agent never sees
          MaxFalls,     \* crashes and reboots of the host
          MaxErrors     \* failures of a provisioning command or of the database

ASSUME EnrollmentAssumption ==
  /\ {MaxAdds, MaxTries, MaxBoots} \subseteq Nat \ {0}
  /\ {MaxLosses, MaxFalls, MaxErrors} \subseteq Nat

VARIABLES
  minted,     \* bootstrap_tokens rows: id -> "absent" | "unused" | "used"
  expired,    \* ids whose token is past its expiry
  node,       \* nodes rows: id -> key of the recorded certificate (0: no row)
  cli,        \* the operator's `node add`: [step, id]
  ids,        \* node ids drawn so far
  disk,       \* the host's files: [config, token, ca, cert, key, bearer]
  agent,      \* the agent process: [pc, id, token, key, tries, cert]
  calls,      \* bootstrap requests the server is handling
  keys,       \* keys drawn so far
  losses, hostFalls, errors

enrollVars == <<minted, expired, node, cli, ids, disk, agent, calls, keys,
                losses, hostFalls, errors>>

Ids == 1..MaxAdds
NoCert == [id |-> 0, key |-> 0]
Certs == [id : 0..MaxAdds, key : 0..MaxBoots]
AgentOff == [pc |-> "off", id |-> 0, token |-> 0, key |-> 0, tries |-> 0, cert |-> NoCert]
Calls == [id : Ids, cn : 0..MaxAdds, key : 1..MaxBoots, nr : 1..MaxTries,
          pc : {"new", "valid", "done"}, status : {0, 200, 400, 401, 409, 500}]

EnrollInit ==
  /\ minted = [n \in Ids |-> "absent"]
  /\ expired = {}
  /\ node = [n \in Ids |-> 0]
  /\ cli = [step |-> "idle", id |-> 0]
  /\ ids = 0
  /\ disk = [config |-> 0, token |-> 0, ca |-> FALSE, cert |-> NoCert, key |-> 0,
             bearer |-> FALSE]
  /\ agent = AgentOff
  /\ calls = {}
  /\ keys = 0
  /\ losses = 0 /\ hostFalls = 0 /\ errors = 0

(* ------------------------------ operator ------------------------------- *)

\* createBootstrapTokenHandler: refused for a registered node, else a row.
createBootstrapToken(n) ==
  /\ node[n] = 0
  /\ minted' = [minted EXCEPT ![n] = "unused"]

\* The CLI's request: it is answered, or it fails and ends `node add`.  (A lost
\* answer is an answer with which `node add` gives up.)
requestBootstrapToken(n) ==
  \/ createBootstrapToken(n) /\ cli' = [step |-> "copy", id |-> n] /\ UNCHANGED errors
  \/ errors < MaxErrors /\ errors' = errors + 1 /\ UNCHANGED <<minted, cli>>

\* runNodeAdd draws the node id and asks the server for its token.
runNodeAdd ==
  /\ cli.step = "idle" /\ ids < MaxAdds
  /\ ids' = ids + 1
  /\ requestBootstrapToken(ids + 1)
  /\ UNCHANGED <<expired, node, disk, agent, calls, keys, losses, hostFalls>>

\* ProvisionHost: the binary is copied and installed; neither changes what
\* the agent reads.
ProvisionHost ==
  /\ cli.step = "copy"
  /\ cli' = [cli EXCEPT !.step = "script"]
  /\ UNCHANGED <<minted, expired, node, ids, disk, agent, calls, keys, losses, hostFalls, errors>>

\* A command of ProvisionHost fails: `node add` gives up.
ProvisionFails ==
  /\ cli.step # "idle" /\ errors < MaxErrors
  /\ errors' = errors + 1
  /\ cli' = [cli EXCEPT !.step = "idle"]
  /\ UNCHANGED <<minted, expired, node, ids, disk, agent, calls, keys, losses, hostFalls>>

\* The CLI goes on without the CA when it cannot fetch it.
fetchCACertificate == BOOLEAN

\* The script's node branch: the CA of the server (when it could be fetched)
\* and the token under /run/ploy, over what an earlier run left.
PrefixedScript ==
  /\ cli.step = "script"
  /\ \E ca \in fetchCACertificate : disk' = [disk EXCEPT !.token = cli.id, !.ca = @ \/ ca]
  /\ cli' = [cli EXCEPT !.step = "config"]
  /\ UNCHANGED <<minted, expired, node, ids, agent, calls, keys, losses, hostFalls, errors>>

\* Docker is installed and ployd-node.yaml written with the node id.
ScriptConfig ==
  /\ cli.step = "config"
  /\ disk' = [disk EXCEPT !.config = cli.id]
  /\ cli' = [cli EXCEPT !.step = "start"]
  /\ UNCHANGED <<minted, expired, node, ids, agent, calls, keys, losses, hostFalls, errors>>

\* systemctl enable --now: starts the unit, leaves a running one alone.
ScriptStarts ==
  /\ cli.step = "start"
  /\ cli' = [cli EXCEPT !.step = "idle"]
  /\ agent' = IF agent.pc = "off" THEN [agent EXCEPT !.pc = "boot"] ELSE agent
  /\ UNCHANGED <<minted, expired, node, ids, disk, calls, keys, losses, hostFalls, errors>>

Expire(n) ==
  /\ minted[n] # "absent" /\ n \notin expired
  /\ expired' = expired \cup {n}
  /\ UNCHANGED <<minted, node, cli, ids, disk, agent, calls, keys, losses, hostFalls, errors>>

(* -------------------------------- agent -------------------------------- *)

certExists == disk.cert # NoCert /\ disk.key # 0

\* The process starts from its config; Agent.bootstrap up to the exchange:
\* nothing to do when both files exist; no token file is an error, and the
\* process is started again.
bootstrap ==
  /\ agent.pc = "boot"
  /\ \/ /\ certExists
        /\ agent' = [agent EXCEPT !.pc = "up", !.id = disk.config]
        /\ UNCHANGED keys
     \/ /\ ~certExists /\ disk.token # 0 /\ keys < MaxBoots
        /\ keys' = keys + 1
        /\ agent' = [agent EXCEPT !.pc = "ask", !.id = disk.config, !.token = disk.token,
                                  !.key = keys + 1]
  /\ UNCHANGED <<minted, expired, node, cli, ids, disk, calls, losses, hostFalls, errors>>

\* One request of requestCertificate, with the token and the CSR of this start.
requestCertificate ==
  /\ agent.pc = "ask" /\ agent.tries < MaxTries
  /\ agent' = [agent EXCEPT !.pc = "wait", !.tries = @ + 1]
  /\ calls' = calls \cup {[id |-> agent.token, cn |-> agent.id, key |-> agent.key,
                           nr |-> agent.tries + 1, pc |-> "new", status |-> 0]}
  /\ UNCHANGED <<minted, expired, node, cli, ids, disk, keys, losses, hostFalls, errors>>

Awaited == {c \in calls : agent.pc = "wait" /\ c.key = agent.key /\ c.nr = agent.tries}
Unread == {c \in Awaited : c.pc = "done"}

\* After a failed request: another one, or the process ends and restarts.
AskAgain == IF agent.tries < MaxTries THEN [agent EXCEPT !.pc = "ask"]
                                      ELSE [AgentOff EXCEPT !.pc = "boot"]

\* The answer arrives: the bearer token is saved with a 200, anything else
\* is retried.
Answered ==
  /\ \E c \in Unread :
       /\ calls' = calls \ {c}
       /\ IF c.status = 200
          THEN /\ agent' = [agent EXCEPT !.pc = "ca", !.cert = [id |-> c.id, key |-> c.key]]
               /\ disk' = [disk EXCEPT !.bearer = TRUE]
          ELSE agent' = AskAgain /\ UNCHANGED disk
  /\ UNCHANGED <<minted, expired, node, cli, ids, keys, losses, hostFalls, errors>>

\* The request fails on the network or by the client's timeout; the server
\* may be anywhere in handling it.
NoAnswer ==
  /\ agent.pc = "wait" /\ losses < MaxLosses
  /\ losses' = losses + 1
  /\ agent' = AskAgain
  /\ calls' = calls \ Unread
  /\ UNCHANGED <<minted, expired, node, cli, ids, disk, keys, hostFalls, errors>>

writeCA ==
  /\ agent.pc = "ca"
  /\ disk' = [disk EXCEPT !.ca = TRUE]
  /\ agent' = [agent EXCEPT !.pc = "cert"]
  /\ UNCHANGED <<minted, expired, node, cli, ids, calls, keys, losses, hostFalls, errors>>

writeCert ==
  /\ agent.pc = "cert"
  /\ disk' = [disk EXCEPT !.cert = agent.cert]
  /\ agent' = [agent EXCEPT !.pc = "key"]
  /\ UNCHANGED <<minted, expired, node, cli, ids, calls, keys, losses, hostFalls, errors>>

\* The key is written and the token file removed (a failed removal is only
\* logged); the agent goes on to its server, heartbeat and claim loops.
writeKey ==
  /\ agent.pc = "key"
  /\ \E gone \in BOOLEAN :
       disk' = [disk EXCEPT !.key = agent.key, !.token = IF gone THEN 0 ELSE @]
  /\ agent' = [agent EXCEPT !.pc = "up"]
  /\ UNCHANGED <<minted, expired, node, cli, ids, calls, keys, losses, hostFalls, errors>>

\* The process dies, or gives up because a file cannot be written, and is
\* started again; a reboot also empties /run.
Fall ==
  /\ agent.pc \notin {"off", "boot"} /\ hostFalls < MaxFalls
  /\ hostFalls' = hostFalls + 1
  /\ agent' = [AgentOff EXCEPT !.pc = "boot"]
  /\ \E reboot \in BOOLEAN : disk' = [disk EXCEPT !.token = IF reboot THEN 0 ELSE @]
  /\ calls' = calls \ Unread
  /\ UNCHANGED <<minted, expired, node, cli, ids, keys, losses, errors>>

(* -------------------------------- server ------------------------------- *)

\* The answer to a request, which nobody reads once the agent hung up.
Answer(c, s) ==
  (calls \ {c}) \cup
    {[d EXCEPT !.pc = "done", !.status = s] : d \in {c} \cap Awaited}

\* validateBootstrapToken: the token is known, not expired and not used;
\* parseAndVerifyCSR: the CSR names the token's node.
validateBootstrapToken(c) ==
  /\ c \in calls /\ c.pc = "new"
  /\ calls' = CASE c.id \in expired \/ minted[c.id] # "unused" -> Answer(c, 401)
                [] c.id \notin expired /\ minted[c.id] = "unused" /\ c.cn # c.id -> Answer(c, 400)
                [] OTHER -> (calls \ {c}) \cup {[c EXCEPT !.pc = "valid"]}
  /\ UNCHANGED <<minted, expired, node, cli, ids, disk, agent, keys, losses, hostFalls, errors>>

\* Mutant: the transaction trusts the validation done before it.
CompleteWithoutRecheck(c) ==
  /\ c \in calls /\ c.pc = "valid"
  /\ node' = [node EXCEPT ![c.id] = c.key]
  /\ minted' = [minted EXCEPT ![c.id] = "used"]
  /\ calls' = Answer(c, 200)
  /\ UNCHANGED <<expired, cli, ids, disk, agent, keys, losses, hostFalls, errors>>

\* The certificate is signed and CompleteBootstrapEnrollment runs its
\* transaction: the token row is locked and checked again, the node row
\* created with the certificate's metadata, the token consumed.
CompleteBootstrapEnrollment(c) ==
  /\ c \in calls /\ c.pc = "valid"
  /\ IF minted[c.id] # "unused" \/ node[c.id] # 0
     THEN /\ calls' = Answer(c, IF minted[c.id] # "unused" THEN 401 ELSE 409)
          /\ UNCHANGED <<minted, node>>
     ELSE /\ node' = [node EXCEPT ![c.id] = c.key]
          /\ minted' = [minted EXCEPT ![c.id] = "used"]
          /\ calls' = Answer(c, 200)
  /\ UNCHANGED <<expired, cli, ids, disk, agent, keys, losses, hostFalls, errors>>

\* The request fails in the server before its commit (database, CA, or the
\* cancelled context of an agent that hung up).
HandlerFails(c) ==
  /\ c \in calls /\ c.pc \in {"new", "valid"} /\ errors < MaxErrors
  /\ errors' = errors + 1
  /\ calls' = Answer(c, 500)
  /\ UNCHANGED <<minted, expired, node, cli, ids, disk, agent, keys, losses, hostFalls>>

(* ---------------------------- specification ---------------------------- *)

AgentSteps == bootstrap \/ requestCertificate \/ Answered \/ writeCA \/ writeCert \/ writeKey
CLISteps == ProvisionHost \/ PrefixedScript \/ ScriptConfig \/ ScriptStarts
HandlerSteps == \E c \in calls : validateBootstrapToken(c) \/ CompleteBootstrapEnrollment(c)

EnrollNext ==
  \/ runNodeAdd \/ ProvisionHost \/ ProvisionFails \/ PrefixedScript \/ ScriptConfig \/ ScriptStarts
  \/ \E n \in Ids : Expire(n)
  \/ bootstrap \/ requestCertificate \/ Answered \/ NoAnswer
  \/ writeCA \/ writeCert \/ writeKey \/ Fall
  \/ \E c \in calls : validateBootstrapToken(c)
  \/ \E c \in calls : CompleteBootstrapEnrollment(c)
  \/ \E c \in calls : HandlerFails(c)

\* The agent, a request being handled and a running `node add` keep running.
EnrollFairness ==
  /\ WF_enrollVars(AgentSteps)
  /\ WF_enrollVars(CLISteps)
  /\ WF_enrollVars(HandlerSteps)

EnrollSpec == EnrollInit /\ [][EnrollNext]_enrollVars /\ EnrollFairness

(* ------------------------------ properties ----------------------------- *)

\* Every variable has its type.
EnrollTypeOK ==
  /\ minted \in [Ids -> {"absent", "unused", "used"}]
  /\ expired \subseteq Ids
  /\ node \in [Ids -> 0..MaxBoots]
  /\ cli \in [step : {"idle", "copy", "script", "config", "start"}, id : 0..MaxAdds]
  /\ ids \in 0..MaxAdds /\ keys \in 0..MaxBoots
  /\ disk \in [config : 0..MaxAdds, token : 0..MaxAdds, ca : BOOLEAN, cert : Certs,
               key : 0..MaxBoots, bearer : BOOLEAN]
  /\ agent \in [pc : {"off", "boot", "ask", "wait", "ca", "cert", "key", "up"},
                id : 0..MaxAdds, token : 0..MaxAdds, key : 0..MaxBoots,
                tries : 0..MaxTries, cert : Certs]
  /\ calls \subseteq Calls
  /\ losses \in 0..MaxLosses /\ hostFalls \in 0..MaxFalls /\ errors \in 0..MaxErrors

\* An agent that is past bootstrap holds a certificate, the private key it
\* certifies, and the server's row of the node it names records that very
\* certificate - whatever was retried, answered late, crashed or added again.
UpIsRecorded ==
  agent.pc = "up" =>
    /\ certExists
    /\ disk.cert.key = disk.key
    /\ node[disk.cert.id] = disk.key

\* A bootstrap token is consumed exactly when the node it was minted for is
\* registered ("atomically consumes one bootstrap token and creates the
\* node", store.CompleteBootstrapEnrollment), and a certificate the server
\* handed out is the one it recorded.
TokenBuysOneNode ==
  /\ \A n \in Ids : minted[n] = "used" <=> node[n] # 0
  /\ \A c \in Unread : c.status = 200 => node[c.id] = c.key
  /\ agent.pc \in {"ca", "cert", "key"} => node[agent.cert.id] = agent.cert.key

\* A started agent comes up, unless an answer was lost, the
\* host fell, the token expired, or the agent's starts ran out (MaxBoots).
HostComesUp ==
  (agent.pc = "boot") ~>
    (agent.pc = "up" \/ losses > 0 \/ hostFalls > 0 \/ expired # {} \/ keys = MaxBoots)

\* Token, node row, certificate and key of a node that is up belong together.
EnrolmentRecorded ==
  /\ EnrollTypeOK
  /\ UpIsRecorded
  /\ TokenBuysOneNode
=============================================================================
