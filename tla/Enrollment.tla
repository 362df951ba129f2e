----------------------------- MODULE Enrollment -----------------------------
(***************************************************************************)
(* How a host becomes a node and stays one: join tokens, the certificate a *)
(* node is known by, its renewal, and what an administrator says of the    *)
(* node (internal/api/enroll.go, renew.go, pki.go, internal/agent/agent.go,*)
(* renew.go, internal/fleet/transition.go, internal/cli/node*.go).         *)
(*                                                                         *)
(* Several hosts may ask for one name.  A certificate is a number, made    *)
(* with a fresh key of the same number, and a time it expires: the row of  *)
(* a node holds the fingerprint of one.  A request is checked when it      *)
(* arrives and acted on in a later transaction; its answer may be lost;    *)
(* the host may stop between any two writes.                               *)
(***************************************************************************)
EXTENDS Integers, FiniteSets

CONSTANTS
  Hosts,
  NodeNames,
  JoinTokens,
  JoinUses,        \* uses a join token is minted with
  CertLife,        \* agentCertificateLifetime
  MaxCerts,        \* bound: certificates ever signed
  EnrollFaults,    \* bound: answers lost, hosts that stop, departures
  EnrollClock      \* bound: time

ASSUME EnrollmentAssumption ==
  /\ {JoinUses, CertLife} \subseteq Nat \ {0}
  /\ {MaxCerts, EnrollFaults, EnrollClock} \subseteq Nat

(* "" stands for no name.                                                  *)
ASSUME NodeNamesAssumption == "" \notin NodeNames

VARIABLES
  row,       \* table node
  join,      \* table join_token
  wire,      \* the request of a host, or its answer
  disk,      \* pki/node.key, pki/node.crt and agent.toml of a host
  agent,     \* the process on a host: node enroll, or the agent
  signed,    \* certificates signed so far
  etime,
  efaults,
  holder,    \* history: the host the recorded certificate was made for
  granted,   \* history: what an administrator last said of a node
  enrolled   \* history: enrollments each join token has paid for

enrollVars == <<row, join, wire, disk, agent, signed, etime, efaults, holder, granted, enrolled>>

NoCert == [id |-> 0, exp |-> 0]
Certs == [id : 0..MaxCerts, exp : Nat]
Message(kind, n, t, c) == [kind |-> kind, name |-> n, token |-> t, cert |-> c]
NoWire == Message("none", "", "", NoCert)
Process(at, n, c, due) == [at |-> at, held |-> NoCert, client |-> c, renewAt |-> due, name |-> n]
NoAgent == Process("off", "", NoCert, 0)
EmptyDisk == [key |-> 0, cert |-> NoCert, conf |-> ""]
NodeStates == {"pending", "approved", "draining", "departed"}

Kinds == {"none", "enroll", "renew", "checked", "answer", "refused"}
Steps == {"off", "enroll", "up", "renew", "got", "keyed", "written"}
Rows == [state : NodeStates \cup {"none"}, fp : 0..MaxCerts, exp : Nat]
Joins == [uses : Nat, exp : Nat]
Wires == [kind : Kinds, name : NodeNames \cup {""}, token : JoinTokens \cup {""}, cert : Certs]
Disks == [key : 0..MaxCerts, cert : Certs, conf : NodeNames \cup {""}]
Agents == [at : Steps, held : Certs, client : Certs, renewAt : Int, name : NodeNames \cup {""}]

EnrollTypeOK ==
  /\ row \in [NodeNames -> Rows]
  /\ join \in [JoinTokens -> Joins]
  /\ wire \in [Hosts -> Wires]
  /\ disk \in [Hosts -> Disks]
  /\ agent \in [Hosts -> Agents]
  /\ signed \in 0..MaxCerts /\ efaults \in 0..EnrollFaults
  /\ \A n \in NodeNames : row[n].state = "none" <=> row[n].fp = 0

EnrollInit ==
  /\ row = [n \in NodeNames |-> [state |-> "none", fp |-> 0, exp |-> 0]]
  /\ join = [t \in JoinTokens |-> [uses |-> 0, exp |-> 0]]
  /\ wire = [h \in Hosts |-> NoWire]
  /\ disk = [h \in Hosts |-> EmptyDisk]
  /\ agent = [h \in Hosts |-> NoAgent]
  /\ signed = 0 /\ etime = 0 /\ efaults = 0
  /\ holder = [n \in NodeNames |-> "none"]
  /\ granted = [n \in NodeNames |-> "pending"]
  /\ enrolled = [t \in JoinTokens |-> 0]

serverVars == <<row, join, signed, holder, granted, enrolled>>

-----------------------------------------------------------------------------
(* The control plane.                                                      *)

MintJoinToken(t) ==
  /\ join[t].exp = 0
  /\ join' = [join EXCEPT ![t] = [uses |-> JoinUses, exp |-> EnrollClock]]
  /\ UNCHANGED <<row, wire, disk, agent, signed, etime, efaults, holder, granted, enrolled>>

(* Mutant: a use is spent when the name is new.                            *)
RedeemNewOnly(t, n) ==
  IF row[n].state = "none" THEN [join EXCEPT ![t].uses = @ - 1] ELSE join

(* RedeemJoinToken: the decrement, and what it requires.                   *)
Redeemable(t) == join[t].uses > 0 /\ join[t].exp > etime
Redeem(t, n) == [join EXCEPT ![t].uses = @ - 1]

(* SignAgentCertificate.                                                   *)
Sign(now) == [id |-> signed + 1, exp |-> now + CertLife]

(* Mutant: the name is the host's to ask for.                              *)
NameOpenAlways(n) == TRUE

(* A name is free, or its certificate has expired.                         *)
NameOpen(n) == row[n].state = "none" \/ row[n].exp <= etime

(* Mutant: a re-enrolled node starts over.                                 *)
StateOnEnrollFresh(n) == "pending"

(* A node that comes back keeps its state.                                 *)
StateOnEnroll(n) == IF row[n].state = "none" THEN "pending" ELSE row[n].state

Reply(h, kind, c) == wire' = [wire EXCEPT ![h] = Message(kind, "", "", c)]

Issue(h, n, c, state) ==
  /\ row' = [row EXCEPT ![n] = [state |-> state, fp |-> c.id, exp |-> c.exp]]
  /\ holder' = [holder EXCEPT ![n] = h]
  /\ signed' = signed + 1
  /\ Reply(h, "answer", c)

(* enroll: one transaction; a refusal spends nothing.                      *)
ServerEnroll(h) ==
  LET n == wire[h].name  t == wire[h].token IN
  /\ wire[h].kind = "enroll" /\ signed < MaxCerts
  /\ IF Redeemable(t) /\ NameOpen(n)
       THEN /\ join' = Redeem(t, n)
            /\ enrolled' = [enrolled EXCEPT ![t] = @ + 1]
            /\ Issue(h, n, Sign(etime), StateOnEnroll(n))
       ELSE Reply(h, "refused", NoCert) /\ UNCHANGED <<row, join, signed, holder, enrolled>>
  /\ UNCHANGED <<disk, agent, etime, efaults, granted>>

(* agentNode: the certificate presented, against the row as it stands.     *)
AgentNode(n, c) ==
  /\ etime < c.exp
  /\ row[n].state \notin {"none", "departed"} /\ row[n].fp = c.id

ServerCheck(h) ==
  /\ wire[h].kind = "renew"
  /\ IF AgentNode(wire[h].name, wire[h].cert)
       THEN wire' = [wire EXCEPT ![h].kind = "checked"]
       ELSE Reply(h, "refused", NoCert)
  /\ UNCHANGED <<serverVars, disk, agent, etime, efaults>>

(* agentRenew's transaction: the row of the name, if it is still there.    *)
ServerRenew(h) ==
  LET n == wire[h].name IN
  /\ wire[h].kind = "checked" /\ signed < MaxCerts
  /\ Issue(h, n, Sign(etime), row[n].state)
  /\ UNCHANGED <<join, disk, agent, etime, efaults, granted, enrolled>>

(* fleet.Transition, from either front end: to any state, from any other.  *)
MoveNode(n, to) ==
  /\ row[n].state # "none"
  /\ row' = [row EXCEPT ![n].state = to]
  /\ granted' = [granted EXCEPT ![n] = to]
  /\ UNCHANGED <<join, wire, disk, agent, signed, etime, efaults, holder, enrolled>>
nodeTransition(n, to) == to \in NodeStates \ {"pending"} /\ MoveNode(n, to)
cmdNodeTransition(n, to) == to \in NodeStates \ {"pending"} /\ MoveNode(n, to)

-----------------------------------------------------------------------------
(* A host.                                                                 *)

(* node enroll, or node install on a host with no agent.toml.              *)
StartEnroll(h, n, t) ==
  /\ agent[h] = NoAgent /\ wire[h] = NoWire
  /\ wire' = [wire EXCEPT ![h] = Message("enroll", n, t, NoCert)]
  /\ agent' = [agent EXCEPT ![h] = Process("enroll", n, NoCert, 0)]
  /\ UNCHANGED <<serverVars, disk, etime, efaults>>
cmdNodeEnroll(h, n, t) == StartEnroll(h, n, t)
cmdNodeInstall(h, n, t) == disk[h].conf = "" /\ StartEnroll(h, n, t)

(* The answer arrives; the pair is checked in memory before it is written. *)
TakeAnswer(h) ==
  /\ wire[h].kind = "answer" /\ agent[h].at \in {"enroll", "renew"}
  /\ agent' = [agent EXCEPT ![h].at = "got", ![h].held = wire[h].cert]
  /\ wire' = [wire EXCEPT ![h] = NoWire]
  /\ UNCHANGED <<serverVars, disk, etime, efaults>>

(* A refusal: node enroll gives up, the agent tries again in a while.      *)
TakeRefusal(h) ==
  /\ wire[h].kind = "refused"
  /\ agent' = [agent EXCEPT ![h] =
       IF @.at = "renew" THEN [@ EXCEPT !.at = "up", !.renewAt = etime + 1]
       ELSE IF @.at = "enroll" THEN NoAgent ELSE @]
  /\ wire' = [wire EXCEPT ![h] = NoWire]
  /\ UNCHANGED <<serverVars, disk, etime, efaults>>

WriteKey(h) ==
  /\ agent[h].at = "got"
  /\ disk' = [disk EXCEPT ![h].key = agent[h].held.id]
  /\ agent' = [agent EXCEPT ![h].at = "keyed"]
  /\ UNCHANGED <<serverVars, wire, etime, efaults>>

WriteCert(h) ==
  /\ agent[h].at = "keyed"
  /\ disk' = [disk EXCEPT ![h].cert = agent[h].held]
  /\ agent' = [agent EXCEPT ![h].at = "written"]
  /\ UNCHANGED <<serverVars, wire, etime, efaults>>

(* Two thirds through the life of a certificate.                           *)
renewalAt(c) == (c.exp - CertLife) + ((CertLife * 2) \div 3)

(* agent.toml is written last and node enroll ends; a renewal ends with    *)
(* the new client in use.                                                  *)
FinishPair(h) ==
  /\ agent[h].at = "written"
  /\ IF agent[h].client = NoCert
       THEN /\ disk' = [disk EXCEPT ![h].conf = agent[h].name]
            /\ agent' = [agent EXCEPT ![h] = NoAgent]
       ELSE /\ agent' = [agent EXCEPT ![h] =
                  Process("up", @.name, @.held, renewalAt(@.held))]
            /\ UNCHANGED disk
  /\ UNCHANGED <<serverVars, wire, etime, efaults>>

(* NewDaemon: the pair on disk has to load.                                *)
NewDaemon(h) ==
  /\ agent[h] = NoAgent /\ wire[h] = NoWire
  /\ disk[h].conf # "" /\ disk[h].cert # NoCert /\ disk[h].key = disk[h].cert.id
  /\ agent' = [agent EXCEPT ![h] =
       Process("up", disk[h].conf, disk[h].cert, renewalAt(disk[h].cert))]
  /\ UNCHANGED <<serverVars, wire, disk, etime, efaults>>

(* Mutant: the old key is removed as the request goes out.                 *)
RenewUpFront(h) ==
  /\ agent[h].at = "up" /\ etime >= agent[h].renewAt /\ wire[h] = NoWire
  /\ wire' = [wire EXCEPT ![h] = Message("renew", agent[h].name, "", agent[h].client)]
  /\ disk' = [disk EXCEPT ![h].key = 0]
  /\ agent' = [agent EXCEPT ![h].at = "renew"]
  /\ UNCHANGED <<serverVars, etime, efaults>>

(* renewIfDue and Renew, up to the request.                                *)
Renew(h) ==
  /\ agent[h].at = "up" /\ etime >= agent[h].renewAt /\ wire[h] = NoWire
  /\ wire' = [wire EXCEPT ![h] = Message("renew", agent[h].name, "", agent[h].client)]
  /\ agent' = [agent EXCEPT ![h].at = "renew"]
  /\ UNCHANGED <<serverVars, disk, etime, efaults>>

-----------------------------------------------------------------------------
(* What goes wrong, and node leave, which ends a host's part.              *)

Fault == efaults < EnrollFaults /\ efaults' = efaults + 1

LoseAnswer(h) ==
  /\ Fault /\ wire[h].kind = "answer" /\ Reply(h, "refused", NoCert)
  /\ UNCHANGED <<serverVars, disk, agent, etime>>

(* The process dies; what it asked is still carried out.                   *)
HostCrash(h) ==
  /\ Fault /\ agent[h].at # "off"
  /\ agent' = [agent EXCEPT ![h] = NoAgent]
  /\ wire' = [wire EXCEPT ![h] = IF @.kind \in {"answer", "refused"} THEN NoWire ELSE @]
  /\ UNCHANGED <<serverVars, disk, etime>>
(* Nobody is there to take the answer.                                     *)
DropAnswer(h) ==
  /\ agent[h].at \in {"off", "up"} /\ wire[h].kind = "answer"
  /\ wire' = [wire EXCEPT ![h] = NoWire]
  /\ UNCHANGED <<serverVars, disk, agent, etime, efaults>>

(* Every removal is tried, and any of them may fail.                       *)
cmdNodeLeave(h, removed) ==
  /\ Fault /\ disk[h].conf # ""
  /\ agent' = [agent EXCEPT ![h] = NoAgent]
  /\ disk' = [disk EXCEPT ![h] =
       [key |-> IF "key" \in removed THEN 0 ELSE @.key,
        cert |-> IF "cert" \in removed THEN NoCert ELSE @.cert,
        conf |-> IF "conf" \in removed THEN "" ELSE @.conf]]
  /\ wire' = [wire EXCEPT ![h] = IF @.kind \in {"answer", "refused"} THEN NoWire ELSE @]
  /\ UNCHANGED <<serverVars, etime>>

EnrollTick ==
  /\ etime < EnrollClock /\ etime' = etime + 1
  /\ UNCHANGED <<serverVars, wire, disk, agent, efaults>>

EnrollNext ==
  \/ EnrollTick
  \/ \E t \in JoinTokens : MintJoinToken(t)
  \/ \E n \in NodeNames, to \in NodeStates : nodeTransition(n, to) \/ cmdNodeTransition(n, to)
  \/ \E h \in Hosts :
       \/ \E n \in NodeNames, t \in JoinTokens : cmdNodeEnroll(h, n, t) \/ cmdNodeInstall(h, n, t)
       \/ ServerEnroll(h) \/ ServerCheck(h) \/ ServerRenew(h)
       \/ TakeAnswer(h) \/ TakeRefusal(h) \/ DropAnswer(h)
       \/ WriteKey(h) \/ WriteCert(h) \/ FinishPair(h)
       \/ NewDaemon(h) \/ Renew(h)
       \/ LoseAnswer(h) \/ HostCrash(h)
       \/ \E removed \in SUBSET {"cert", "key", "conf"} : cmdNodeLeave(h, removed)

EnrollSpec == EnrollInit /\ [][EnrollNext]_enrollVars

-----------------------------------------------------------------------------
(* Properties.                                                             *)

(* A join token pays for as many enrollments as it was minted for, new     *)
(* names and returning ones alike (RedeemJoinToken).                       *)
UsesAccounted ==
  \A t \in JoinTokens : join[t].exp > 0 => join[t].uses + enrolled[t] = JoinUses

(* While the certificate of a node is valid nobody else takes its name,    *)
(* whatever tokens they hold: only a renewal already let through may       *)
(* replace it (enroll).                                                    *)
NameHeld ==
  [][\A n \in NodeNames :
       row[n].state # "none" /\ etime < row[n].exp /\ holder'[n] # holder[n]
         => \E h \in Hosts : wire[h].kind = "checked" /\ wire[h].name = n]_enrollVars

(* What a node may do is what an administrator last said: enrolling again, *)
(* renewing or coming back after a departure never changes it              *)
(* (upsertEnrolledNode, agentRenew).                                       *)
StateIsGranted ==
  \A n \in NodeNames : row[n].state # "none" => row[n].state = granted[n]

(* As long as no answer is lost and no process dies, the host a node's     *)
(* certificate was made for has it: on its way, in hand, or on disk with   *)
(* its key, at every step of a renewal (Renew, replacePair).  A host that  *)
(* enrolls under a second name writes the new pair over the old one, and   *)
(* that is the one way it gives a certificate up (cmdNodeEnroll).          *)
Has(h, id) ==
  \/ wire[h].kind = "answer" /\ wire[h].cert.id = id
  \/ agent[h].held.id = id
  \/ disk[h].cert.id = id /\ disk[h].key = id
Renamed(h, n) ==
  \/ disk[h].conf \notin {"", n}
  \/ agent[h].at \in {"keyed", "written"} /\ agent[h].name # n
NeverStranded ==
  efaults = 0 => \A n \in NodeNames : row[n].state # "none" =>
    Has(holder[n], row[n].fp) \/ Renamed(holder[n], n)

(* The fleet's rows are what was paid for, granted and handed out: uses,   *)
(* states and certificates.                                                *)
NodesSound == UsesAccounted /\ StateIsGranted /\ NeverStranded

(* internal/api/renew.go says that a node revoked while its renewal waits  *)
(* is refused: no certificate is recorded for a node after its revocation, *)
(* save by enrolling again once the last one expired.                      *)
NoneOnceRevoked ==
  [][\A n \in NodeNames : row[n].state = "departed" /\ etime < row[n].exp
       => row'[n].fp = row[n].fp]_enrollVars
=============================================================================
