---------------------------- MODULE AccessProofs ----------------------------
(***************************************************************************)
(* Theorems about who may speak and for whom, for every set of hosts,      *)
(* names, tokens and requests and for every bound: the rows, tokens and    *)
(* certificates of Enrollment, and the accounts, tokens, sessions and      *)
(* failed logins of Identity.                                              *)
(***************************************************************************)
EXTENDS Identity, Enrollment, WellFoundedInduction, FiniteSetTheorems, TLAPS

(***************************************************************************)
(* Enrollment: types.                                                      *)
(***************************************************************************)
(* A request names a node, and a join token when it enrolls; one that was  *)
(* checked names a node that has a row, and rows are never removed.        *)
RequestOK(h) ==
  /\ wire[h].kind \in {"enroll", "renew", "checked"} => wire[h].name \in NodeNames
  /\ wire[h].kind = "enroll" => wire[h].token \in JoinTokens
  /\ wire[h].kind = "checked" => row[wire[h].name].state # "none"
  /\ wire[h].kind = "answer" => wire[h].cert.id # 0
  /\ agent[h].at # "off" => agent[h].name \in NodeNames
  /\ agent[h].at \in {"got", "keyed", "written"} => agent[h].held.id # 0

HolderOK(n) ==
  /\ row[n].state # "none" => holder[n] \in Hosts
  /\ row[n].state = "none" => granted[n] = "pending"

EnrollTyped ==
  /\ EnrollTypeOK
  /\ etime \in Nat
  /\ holder \in [NodeNames -> Hosts \cup {"none"}]
  /\ granted \in [NodeNames -> NodeStates]
  /\ enrolled \in [JoinTokens -> Nat]
  /\ \A h \in Hosts : RequestOK(h)
  /\ \A n \in NodeNames : HolderOK(n)

LEMMA EnrollConstants ==
  /\ JoinUses \in Nat /\ JoinUses > 0 /\ CertLife \in Nat /\ CertLife > 0
  /\ MaxCerts \in Nat /\ EnrollFaults \in Nat /\ EnrollClock \in Nat
BY EnrollmentAssumption

LEMMA NoCertIsCert == NoCert \in Certs /\ NoCert.id = 0
BY EnrollConstants DEF NoCert, Certs

LEMMA CertFields ==
  ASSUME NEW c \in Certs
  PROVE  c.id \in 0..MaxCerts /\ c.exp \in Nat /\ renewalAt(c) \in Int
<1>1. c.id \in 0..MaxCerts /\ c.exp \in Nat
  BY DEF Certs
<1>2. PICK k : k = (CertLife * 2) \div 3
  OBVIOUS
<1>3. k \in Int
  BY <1>2, EnrollConstants
<1>4. renewalAt(c) = (c.exp - CertLife) + k
  BY <1>2, Zenon DEF renewalAt
<1> QED BY <1>1, <1>3, <1>4, EnrollConstants

LEMMA MessageIsWire ==
  ASSUME NEW k \in Kinds, NEW n \in NodeNames \cup {""}, NEW t \in JoinTokens \cup {""}, NEW c \in Certs
  PROVE  /\ Message(k, n, t, c) \in Wires
         /\ Message(k, n, t, c).kind = k /\ Message(k, n, t, c).name = n
         /\ Message(k, n, t, c).token = t /\ Message(k, n, t, c).cert = c
BY DEF Message, Wires

LEMMA ProcessIsAgent ==
  ASSUME NEW s \in Steps, NEW n \in NodeNames \cup {""}, NEW c \in Certs, NEW due \in Int
  PROVE  /\ Process(s, n, c, due) \in Agents
         /\ Process(s, n, c, due).at = s /\ Process(s, n, c, due).name = n
         /\ Process(s, n, c, due).client = c /\ Process(s, n, c, due).held = NoCert
BY NoCertIsCert DEF Process, Agents

LEMMA NoWireIsWire == NoWire \in Wires /\ NoWire.kind = "none"
<1>1. PICK c \in Certs : c = NoCert
  BY NoCertIsCert
<1>2. NoWire = [kind |-> "none", name |-> "", token |-> "", cert |-> c]
  BY <1>1 DEF NoWire, Message
<1> QED BY <1>2 DEF Wires, Kinds

LEMMA NoAgentIsAgent ==
  NoAgent \in Agents /\ NoAgent.at = "off" /\ NoAgent.client = NoCert /\ NoAgent.held = NoCert
  /\ NoAgent.name = ""
<1>0. 0 \in Int
  OBVIOUS
<1>1. PICK c \in Certs : c = NoCert
  BY NoCertIsCert
<1>2. NoAgent = [at |-> "off", held |-> c, client |-> c, renewAt |-> 0, name |-> ""]
  BY <1>1 DEF NoAgent, Process
<1>3. NoAgent \in Agents
  <2>1. PICK s \in Steps : s = "off"
    BY DEF Steps
  <2>3. PICK n \in NodeNames \cup {""} : n = ""
    OBVIOUS
  <2>4. PICK due : due = 0 /\ due \in Int
    BY <1>0
  <2>2. [at |-> s, held |-> c, client |-> c, renewAt |-> due, name |-> n] \in Agents
    BY <1>1, <2>4 DEF Agents
  <2> QED BY <1>2, <2>1, <2>2, <2>3, <2>4
<1>4. NoAgent.at = "off" /\ NoAgent.client = c /\ NoAgent.held = c /\ NoAgent.name = ""
  BY <1>2
<1> QED BY <1>1, <1>3, <1>4

LEMMA EnrollTypedInit ==
  ASSUME EnrollInit
  PROVE  EnrollTyped
<1>1. row \in [NodeNames -> Rows] /\ \A n \in NodeNames : row[n].state = "none" /\ row[n].fp = 0
  BY EnrollConstants DEF EnrollInit, Rows
<1>2. join \in [JoinTokens -> Joins]
  BY DEF EnrollInit, Joins
<1>3. wire \in [Hosts -> Wires] /\ agent \in [Hosts -> Agents]
      /\ \A h \in Hosts : wire[h] = NoWire /\ agent[h] = NoAgent
  BY NoWireIsWire, NoAgentIsAgent DEF EnrollInit
<1>4. disk \in [Hosts -> Disks]
  <2>1. EmptyDisk \in Disks
    BY NoCertIsCert, EnrollConstants DEF Disks, EmptyDisk
  <2> QED BY <2>1 DEF EnrollInit
<1>5. EnrollTypeOK
  BY <1>1, <1>2, <1>3, <1>4, EnrollConstants DEF EnrollTypeOK, EnrollInit
<1>6. \A h \in Hosts : RequestOK(h)
  BY <1>3, NoWireIsWire, NoAgentIsAgent DEF RequestOK
<1>7. \A n \in NodeNames : HolderOK(n)
  BY <1>1 DEF EnrollInit, HolderOK
<1> QED BY <1>5, <1>6, <1>7 DEF EnrollTyped, EnrollInit, NodeStates

(* What a step of the host h leaves alone: the control plane's tables and  *)
(* every other host.                                                       *)
OthersKept(h) ==
  \A g \in Hosts \ {h} : wire'[g] = wire[g] /\ agent'[g] = agent[g] /\ disk'[g] = disk[g]
HostTyped ==
  wire' \in [Hosts -> Wires] /\ agent' \in [Hosts -> Agents] /\ disk' \in [Hosts -> Disks]
HostStep(h) ==
  /\ HostTyped /\ OthersKept(h)
  /\ UNCHANGED <<row, join, signed, holder, granted, enrolled, etime>>

LEMMA HostStepTyped ==
  ASSUME EnrollTyped, NEW h \in Hosts, HostStep(h), efaults' \in 0..EnrollFaults, RequestOK(h)'
  PROVE  EnrollTyped'
<1>1. EnrollTypeOK'
  BY DEF EnrollTyped, EnrollTypeOK, HostStep, HostTyped
<1>2. \A g \in Hosts : RequestOK(g)'
  BY DEF EnrollTyped, RequestOK, HostStep, OthersKept
<1>3. \A n \in NodeNames : HolderOK(n)'
  BY DEF EnrollTyped, HolderOK, HostStep
<1> QED BY <1>1, <1>2, <1>3 DEF EnrollTyped, HostStep

(* What each step does to the host that takes it.                          *)
LEMMA StartEnrollDoes ==
  ASSUME EnrollTyped, NEW h \in Hosts, NEW n \in NodeNames, NEW t \in JoinTokens, StartEnroll(h, n, t)
  PROVE  /\ HostStep(h) /\ efaults' = efaults /\ agent[h] = NoAgent /\ wire[h] = NoWire
         /\ wire'[h] = Message("enroll", n, t, NoCert)
         /\ agent'[h] = Process("enroll", n, NoCert, 0) /\ disk'[h] = disk[h]
<1>1. Message("enroll", n, t, NoCert) \in Wires
  BY NoCertIsCert, MessageIsWire DEF Kinds
<1>2. 0 \in Int
  OBVIOUS
<1>3. Process("enroll", n, NoCert, 0) \in Agents
  BY <1>2, NoCertIsCert, ProcessIsAgent DEF Steps
<1> QED BY <1>1, <1>3 DEF StartEnroll, EnrollTyped, EnrollTypeOK, HostStep, HostTyped, OthersKept, serverVars

LEMMA ReplyDoes ==
  ASSUME EnrollTyped, NEW h \in Hosts, NEW k \in Kinds, NEW c \in Certs, Reply(h, k, c),
         UNCHANGED <<agent, disk>>
  PROVE  /\ HostTyped /\ OthersKept(h) /\ agent'[h] = agent[h] /\ disk'[h] = disk[h]
         /\ wire'[h] \in Wires /\ wire'[h].kind = k /\ wire'[h].cert = c
<1>0. PICK n \in NodeNames \cup {""}, t \in JoinTokens \cup {""} : n = "" /\ t = ""
  OBVIOUS
<1>3. PICK w : w = Message(k, n, t, c)
  OBVIOUS
<1>1. w \in Wires /\ w.kind = k /\ w.cert = c
  BY <1>3 DEF Message, Wires
<1>2. wire' = [wire EXCEPT ![h] = w]
  BY <1>0, <1>3 DEF Reply
<1> QED BY <1>1, <1>2 DEF EnrollTyped, EnrollTypeOK, HostTyped, OthersKept

LEMMA ServerCheckDoes ==
  ASSUME EnrollTyped, NEW h \in Hosts, ServerCheck(h)
  PROVE  /\ HostStep(h) /\ efaults' = efaults /\ wire[h].kind = "renew"
         /\ agent'[h] = agent[h] /\ disk'[h] = disk[h]
         /\ \/ wire'[h].kind = "refused"
            \/ /\ wire'[h].kind = "checked" /\ wire'[h].name = wire[h].name
               /\ row[wire[h].name].state # "none"
<1>0. /\ wire[h].kind = "renew" /\ UNCHANGED <<agent, disk, efaults>>
      /\ UNCHANGED <<row, join, signed, holder, granted, enrolled, etime>>
  BY DEF ServerCheck, serverVars
<1>1. CASE AgentNode(wire[h].name, wire[h].cert)
  <2>1. PICK w \in Wires : w = [wire[h] EXCEPT !.kind = "checked"]
    BY DEF EnrollTyped, EnrollTypeOK, Wires, Kinds
  <2>2. w.kind = "checked" /\ w.name = wire[h].name
    BY <2>1 DEF EnrollTyped, EnrollTypeOK, Wires
  <2>3. wire' = [wire EXCEPT ![h] = w]
    BY <1>1, <2>1 DEF ServerCheck
  <2> QED BY <1>0, <1>1, <2>2, <2>3 DEF EnrollTyped, EnrollTypeOK, HostStep, HostTyped, OthersKept, AgentNode
<1>2. CASE ~AgentNode(wire[h].name, wire[h].cert)
  BY <1>0, <1>2, ReplyDoes, NoCertIsCert DEF ServerCheck, HostStep, Kinds
<1> QED BY <1>1, <1>2

LEMMA TakeAnswerDoes ==
  ASSUME EnrollTyped, NEW h \in Hosts, TakeAnswer(h)
  PROVE  /\ HostStep(h) /\ efaults' = efaults /\ wire[h].kind = "answer"
         /\ agent[h].at \in {"enroll", "renew"} /\ wire'[h] = NoWire /\ disk'[h] = disk[h]
         /\ agent'[h].at = "got" /\ agent'[h].held = wire[h].cert
         /\ agent'[h].client = agent[h].client /\ agent'[h].name = agent[h].name
<1>1. wire[h].cert \in Certs /\ agent[h] \in Agents
  BY DEF EnrollTyped, EnrollTypeOK, Wires
<1>2. PICK a : a = [agent[h] EXCEPT !.at = "got", !.held = wire[h].cert]
  OBVIOUS
<1>4. /\ a \in Agents /\ a.at = "got" /\ a.held = wire[h].cert
      /\ a.client = agent[h].client /\ a.name = agent[h].name
  BY <1>1, <1>2 DEF Agents, Steps
<1>3. agent' = [agent EXCEPT ![h] = a] /\ wire' = [wire EXCEPT ![h] = NoWire]
  BY <1>2 DEF TakeAnswer, EnrollTyped, EnrollTypeOK
<1> QED BY <1>3, <1>4, NoWireIsWire DEF TakeAnswer, EnrollTyped, EnrollTypeOK, HostStep, HostTyped, OthersKept, serverVars

LEMMA TakeRefusalDoes ==
  ASSUME EnrollTyped, NEW h \in Hosts, TakeRefusal(h)
  PROVE  /\ HostStep(h) /\ efaults' = efaults /\ wire[h].kind = "refused"
         /\ wire'[h] = NoWire /\ disk'[h] = disk[h]
         /\ \/ /\ agent[h].at = "renew" /\ agent'[h].at = "up" /\ agent'[h].held = agent[h].held
               /\ agent'[h].client = agent[h].client /\ agent'[h].name = agent[h].name
            \/ agent[h].at = "enroll" /\ agent'[h] = NoAgent
            \/ agent[h].at \notin {"renew", "enroll"} /\ agent'[h] = agent[h]
<1>1. agent[h] \in Agents /\ etime + 1 \in Int
  BY DEF EnrollTyped, EnrollTypeOK
<1>2. PICK b : b = [agent[h] EXCEPT !.at = "up", !.renewAt = etime + 1]
  OBVIOUS
<1>6. /\ b \in Agents /\ b.at = "up" /\ b.held = agent[h].held
      /\ b.client = agent[h].client /\ b.name = agent[h].name
  BY <1>1, <1>2 DEF Agents, Steps
<1>3. PICK a \in Agents : a = IF agent[h].at = "renew" THEN b
                              ELSE IF agent[h].at = "enroll" THEN NoAgent ELSE agent[h]
  BY <1>1, <1>6, NoAgentIsAgent
<1>4. agent' = [agent EXCEPT ![h] = a] /\ wire' = [wire EXCEPT ![h] = NoWire]
  BY <1>2, <1>3 DEF TakeRefusal, EnrollTyped, EnrollTypeOK
<1>5. HostStep(h) /\ wire'[h] = NoWire /\ agent'[h] = a /\ disk' = disk
  BY <1>3, <1>4, NoWireIsWire DEF TakeRefusal, EnrollTyped, EnrollTypeOK, HostStep, HostTyped, OthersKept, serverVars
<1> QED BY <1>3, <1>5, <1>6 DEF TakeRefusal

LEMMA DropAnswerDoes ==
  ASSUME EnrollTyped, NEW h \in Hosts, DropAnswer(h)
  PROVE  /\ HostStep(h) /\ efaults' = efaults /\ wire[h].kind = "answer"
         /\ agent[h].at \in {"off", "up"} /\ wire'[h] = NoWire
         /\ agent'[h] = agent[h] /\ disk'[h] = disk[h]
BY NoWireIsWire DEF DropAnswer, EnrollTyped, EnrollTypeOK, HostStep, HostTyped, OthersKept, serverVars

LEMMA WriteKeyDoes ==
  ASSUME EnrollTyped, NEW h \in Hosts, WriteKey(h)
  PROVE  /\ HostStep(h) /\ efaults' = efaults /\ agent[h].at = "got" /\ wire'[h] = wire[h]
         /\ agent'[h].at = "keyed" /\ agent'[h].held = agent[h].held
         /\ agent'[h].client = agent[h].client /\ agent'[h].name = agent[h].name
         /\ disk'[h].key = agent[h].held.id /\ disk'[h].conf = disk[h].conf
<1>1. agent[h] \in Agents /\ disk[h] \in Disks /\ agent[h].held \in Certs
  BY DEF EnrollTyped, EnrollTypeOK, Agents
<1>2. PICK a, d : a = [agent[h] EXCEPT !.at = "keyed"] /\ d = [disk[h] EXCEPT !.key = agent[h].held.id]
  OBVIOUS
<1>3. /\ a \in Agents /\ a.at = "keyed" /\ a.held = agent[h].held
      /\ a.client = agent[h].client /\ a.name = agent[h].name
  BY <1>1, <1>2 DEF Agents, Steps
<1>4. d \in Disks /\ d.key = agent[h].held.id /\ d.conf = disk[h].conf
  BY <1>1, <1>2, CertFields DEF Disks
<1>5. agent' = [agent EXCEPT ![h] = a] /\ disk' = [disk EXCEPT ![h] = d]
  BY <1>2 DEF WriteKey, EnrollTyped, EnrollTypeOK
<1> QED BY <1>3, <1>4, <1>5 DEF WriteKey, EnrollTyped, EnrollTypeOK, HostStep, HostTyped, OthersKept, serverVars

LEMMA WriteCertDoes ==
  ASSUME EnrollTyped, NEW h \in Hosts, WriteCert(h)
  PROVE  /\ HostStep(h) /\ efaults' = efaults /\ agent[h].at = "keyed" /\ wire'[h] = wire[h]
         /\ agent'[h].at = "written" /\ agent'[h].held = agent[h].held
         /\ agent'[h].client = agent[h].client /\ agent'[h].name = agent[h].name
         /\ disk'[h].cert = agent[h].held /\ disk'[h].key = disk[h].key /\ disk'[h].conf = disk[h].conf
<1>1. agent[h] \in Agents /\ disk[h] \in Disks /\ agent[h].held \in Certs
  BY DEF EnrollTyped, EnrollTypeOK, Agents
<1>2. PICK a, d : a = [agent[h] EXCEPT !.at = "written"] /\ d = [disk[h] EXCEPT !.cert = agent[h].held]
  OBVIOUS
<1>3. /\ a \in Agents /\ a.at = "written" /\ a.held = agent[h].held
      /\ a.client = agent[h].client /\ a.name = agent[h].name
  BY <1>1, <1>2 DEF Agents, Steps
<1>4. d \in Disks /\ d.cert = agent[h].held /\ d.key = disk[h].key /\ d.conf = disk[h].conf
  BY <1>1, <1>2 DEF Disks
<1>5. agent' = [agent EXCEPT ![h] = a] /\ disk' = [disk EXCEPT ![h] = d]
  BY <1>2 DEF WriteCert, EnrollTyped, EnrollTypeOK
<1> QED BY <1>3, <1>4, <1>5 DEF WriteCert, EnrollTyped, EnrollTypeOK, HostStep, HostTyped, OthersKept, serverVars

LEMMA FinishPairDoes ==
  ASSUME EnrollTyped, NEW h \in Hosts, FinishPair(h)
  PROVE  /\ HostStep(h) /\ efaults' = efaults /\ agent[h].at = "written" /\ wire'[h] = wire[h]
         /\ disk'[h].cert = disk[h].cert /\ disk'[h].key = disk[h].key
         /\ \/ /\ agent[h].client = NoCert /\ agent'[h] = NoAgent
               /\ disk'[h].conf = agent[h].name
            \/ /\ agent[h].client # NoCert /\ disk'[h].conf = disk[h].conf
               /\ agent'[h].at = "up" /\ agent'[h].name = agent[h].name
               /\ agent'[h].client = agent[h].held /\ agent'[h].held = NoCert
<1>1. agent[h] \in Agents /\ disk[h] \in Disks
  BY DEF EnrollTyped, EnrollTypeOK
<1>2. agent[h].held \in Certs /\ agent[h].name \in NodeNames \cup {""} /\ "up" \in Steps
  BY <1>1 DEF Agents, Steps
<1>3. CASE agent[h].client = NoCert
  <2>1. PICK d : d = [disk[h] EXCEPT !.conf = agent[h].name]
    OBVIOUS
  <2>2. d \in Disks /\ d.cert = disk[h].cert /\ d.key = disk[h].key /\ d.conf = agent[h].name
    BY <1>1, <1>2, <2>1 DEF Disks
  <2>3. agent' = [agent EXCEPT ![h] = NoAgent] /\ disk' = [disk EXCEPT ![h] = d]
    BY <1>3, <2>1 DEF FinishPair, EnrollTyped, EnrollTypeOK
  <2> QED BY <1>3, <2>2, <2>3, NoAgentIsAgent
          DEF FinishPair, EnrollTyped, EnrollTypeOK, HostStep, HostTyped, OthersKept, serverVars
<1>4. CASE agent[h].client # NoCert
  <2>0. PICK due : due = renewalAt(agent[h].held)
    OBVIOUS
  <2>1. PICK a : a = Process("up", agent[h].name, agent[h].held, due)
    OBVIOUS
  <2>2. due \in Int
    BY <1>2, <2>0, CertFields
  <2>3. /\ a \in Agents /\ a.at = "up" /\ a.name = agent[h].name
        /\ a.client = agent[h].held /\ a.held = NoCert
    BY <1>2, <2>1, <2>2, NoCertIsCert DEF Process, Agents
  <2>4. agent' = [agent EXCEPT ![h] = a] /\ disk' = disk
    BY <1>4, <2>0, <2>1 DEF FinishPair, EnrollTyped, EnrollTypeOK
  <2> QED BY <1>4, <2>3, <2>4
          DEF FinishPair, EnrollTyped, EnrollTypeOK, HostStep, HostTyped, OthersKept, serverVars
<1> QED BY <1>3, <1>4

LEMMA NewDaemonDoes ==
  ASSUME EnrollTyped, NEW h \in Hosts, NewDaemon(h)
  PROVE  /\ HostStep(h) /\ efaults' = efaults /\ agent[h] = NoAgent /\ wire[h] = NoWire
         /\ wire'[h] = wire[h] /\ disk'[h] = disk[h] /\ disk[h].conf # "" /\ disk[h].cert # NoCert
         /\ agent'[h].at = "up" /\ agent'[h].name = disk[h].conf /\ agent'[h].client = disk[h].cert
         /\ agent'[h].held = NoCert
<1>1. disk[h].cert \in Certs /\ disk[h].conf \in NodeNames \cup {""} /\ "up" \in Steps
  BY DEF EnrollTyped, EnrollTypeOK, Disks, Steps
<1>0. PICK due : due = renewalAt(disk[h].cert)
  OBVIOUS
<1>2. PICK a : a = Process("up", disk[h].conf, disk[h].cert, due)
  OBVIOUS
<1>3. due \in Int
  BY <1>0, <1>1, CertFields
<1>4. /\ a \in Agents /\ a.at = "up" /\ a.name = disk[h].conf
      /\ a.client = disk[h].cert /\ a.held = NoCert
  BY <1>1, <1>2, <1>3, NoCertIsCert DEF Process, Agents
<1>5. agent' = [agent EXCEPT ![h] = a]
  BY <1>0, <1>2 DEF NewDaemon
<1> QED BY <1>4, <1>5 DEF NewDaemon, EnrollTyped, EnrollTypeOK, HostStep, HostTyped, OthersKept, serverVars

LEMMA RenewDoes ==
  ASSUME EnrollTyped, NEW h \in Hosts, Renew(h)
  PROVE  /\ HostStep(h) /\ efaults' = efaults /\ agent[h].at = "up" /\ disk'[h] = disk[h]
         /\ wire'[h].kind = "renew" /\ wire'[h].name = agent[h].name
         /\ agent'[h].at = "renew" /\ agent'[h].held = agent[h].held
         /\ agent'[h].client = agent[h].client /\ agent'[h].name = agent[h].name
<1>1. agent[h] \in Agents /\ agent[h].client \in Certs /\ agent[h].name \in NodeNames \cup {""}
  BY DEF EnrollTyped, EnrollTypeOK, Agents
<1>2. PICK w, a : /\ w = Message("renew", agent[h].name, "", agent[h].client)
                  /\ a = [agent[h] EXCEPT !.at = "renew"]
  OBVIOUS
<1>3. /\ a \in Agents /\ a.at = "renew" /\ a.held = agent[h].held
      /\ a.client = agent[h].client /\ a.name = agent[h].name
  BY <1>1, <1>2 DEF Agents, Steps
<1>4. PICK t \in JoinTokens \cup {""}, k \in Kinds : t = "" /\ k = "renew"
  BY DEF Kinds
<1>5. w \in Wires /\ w.kind = "renew" /\ w.name = agent[h].name
  BY <1>1, <1>2, <1>4 DEF Message, Wires
<1>6. wire' = [wire EXCEPT ![h] = w] /\ agent' = [agent EXCEPT ![h] = a]
  BY <1>2 DEF Renew, EnrollTyped, EnrollTypeOK
<1> QED BY <1>3, <1>5, <1>6 DEF Renew, EnrollTyped, EnrollTypeOK, HostStep, HostTyped, OthersKept, serverVars

(* The three faults.                                                       *)
FaultCounted == efaults' = efaults + 1 /\ efaults' \in 0..EnrollFaults

LEMMA LoseAnswerDoes ==
  ASSUME EnrollTyped, NEW h \in Hosts, LoseAnswer(h)
  PROVE  HostStep(h) /\ FaultCounted /\ wire'[h].kind = "refused" /\ agent'[h] = agent[h]
<1>1. FaultCounted
  BY EnrollConstants DEF LoseAnswer, Fault, FaultCounted, EnrollTyped, EnrollTypeOK
<1> QED BY <1>1, ReplyDoes, NoCertIsCert DEF LoseAnswer, HostStep, serverVars, Kinds

LEMMA HostCrashDoes ==
  ASSUME EnrollTyped, NEW h \in Hosts, HostCrash(h)
  PROVE  HostStep(h) /\ FaultCounted /\ wire'[h] \in {NoWire, wire[h]} /\ agent'[h] = NoAgent
<1>1. FaultCounted
  BY EnrollConstants DEF HostCrash, Fault, FaultCounted, EnrollTyped, EnrollTypeOK
<1> QED BY <1>1, NoWireIsWire, NoAgentIsAgent
        DEF HostCrash, EnrollTyped, EnrollTypeOK, HostStep, HostTyped, OthersKept, serverVars

LEMMA LeaveDoes ==
  ASSUME EnrollTyped, NEW h \in Hosts, NEW removed, cmdNodeLeave(h, removed)
  PROVE  HostStep(h) /\ FaultCounted /\ wire'[h] \in {NoWire, wire[h]} /\ agent'[h] = NoAgent
<1>1. FaultCounted
  <2>1. Fault /\ efaults \in 0..EnrollFaults
    BY DEF cmdNodeLeave, EnrollTyped, EnrollTypeOK
  <2> QED BY <2>1, EnrollConstants DEF Fault, FaultCounted
<1>2. PICK d : d = [key |-> IF "key" \in removed THEN 0 ELSE disk[h].key,
                    cert |-> IF "cert" \in removed THEN NoCert ELSE disk[h].cert,
                    conf |-> IF "conf" \in removed THEN "" ELSE disk[h].conf]
  OBVIOUS
<1>3. d \in Disks
  <2>1. /\ disk[h].key \in 0..MaxCerts /\ disk[h].cert \in Certs
        /\ disk[h].conf \in NodeNames \cup {""} /\ 0 \in 0..MaxCerts
    <3>1. disk[h] \in Disks
      BY DEF EnrollTyped, EnrollTypeOK
    <3>2. 0 \in 0..MaxCerts
      BY EnrollConstants
    <3> QED BY <3>1, <3>2 DEF Disks
  <2>2. PICK k \in 0..MaxCerts : k = IF "key" \in removed THEN 0 ELSE disk[h].key
    BY <2>1
  <2>3. PICK c \in Certs : c = IF "cert" \in removed THEN NoCert ELSE disk[h].cert
    BY <2>1, NoCertIsCert
  <2>4. PICK f \in NodeNames \cup {""} : f = IF "conf" \in removed THEN "" ELSE disk[h].conf
    BY <2>1
  <2>5. d = [key |-> k, cert |-> c, conf |-> f]
    BY <1>2, <2>2, <2>3, <2>4
  <2> QED BY <2>5 DEF Disks
<1>4. disk' = [disk EXCEPT ![h] = d]
  BY <1>2 DEF cmdNodeLeave
<1> QED BY <1>1, <1>3, <1>4, NoWireIsWire, NoAgentIsAgent
        DEF cmdNodeLeave, EnrollTyped, EnrollTypeOK, HostStep, HostTyped, OthersKept, serverVars

(***************************************************************************)
(* A certificate is issued: by an enrollment, or by a renewal let through. *)
(***************************************************************************)
LEMMA IssueDoes ==
  ASSUME EnrollTyped, NEW h \in Hosts, NEW n \in NodeNames, NEW state \in NodeStates,
         signed < MaxCerts, Issue(h, n, Sign(etime), state), UNCHANGED <<disk, agent>>
  PROVE  /\ HostTyped /\ OthersKept(h) /\ agent'[h] = agent[h] /\ disk'[h] = disk[h]
         /\ wire'[h].kind = "answer" /\ wire'[h].cert.id = row'[n].fp
         /\ row' \in [NodeNames -> Rows] /\ row'[n].state = state /\ row'[n].fp # 0
         /\ \A m \in NodeNames \ {n} : row'[m] = row[m] /\ holder'[m] = holder[m]
         /\ holder' \in [NodeNames -> Hosts \cup {"none"}] /\ holder'[n] = h
         /\ signed' \in 0..MaxCerts
<1>1. signed \in Nat /\ signed + 1 \in 0..MaxCerts /\ etime + CertLife \in Nat
  BY EnrollConstants DEF EnrollTyped, EnrollTypeOK
<1>2. PICK c : c = Sign(etime)
  OBVIOUS
<1>3. c \in Certs /\ c.id = signed + 1 /\ c.exp \in Nat
  BY <1>1, <1>2 DEF Sign, Certs
<1>4. "answer" \in Kinds
  BY DEF Kinds
<1>5. Reply(h, "answer", c) /\ signed' = signed + 1 /\ holder' = [holder EXCEPT ![n] = h]
      /\ row' = [row EXCEPT ![n] = [state |-> state, fp |-> c.id, exp |-> c.exp]]
  BY <1>2 DEF Issue
<1>6. PICK r : r = [state |-> state, fp |-> c.id, exp |-> c.exp]
  OBVIOUS
<1>7. r \in Rows /\ r.state = state /\ r.fp = c.id /\ r.fp # 0
  BY <1>1, <1>3, <1>6 DEF Rows
<1>8. row' = [row EXCEPT ![n] = r]
  BY <1>5, <1>6
<1>9. row' \in [NodeNames -> Rows] /\ row'[n] = r /\ \A m \in NodeNames \ {n} : row'[m] = row[m]
  BY <1>7, <1>8 DEF EnrollTyped, EnrollTypeOK
<1>10. /\ holder' \in [NodeNames -> Hosts \cup {"none"}] /\ holder'[n] = h
       /\ \A m \in NodeNames \ {n} : holder'[m] = holder[m]
  BY <1>5 DEF EnrollTyped
<1>11. /\ HostTyped /\ OthersKept(h) /\ agent'[h] = agent[h] /\ disk'[h] = disk[h]
       /\ wire'[h].kind = "answer" /\ wire'[h].cert = c
  BY <1>3, <1>4, <1>5, ReplyDoes
<1> QED BY <1>1, <1>5, <1>7, <1>9, <1>10, <1>11

LEMMA IssueTyped ==
  ASSUME EnrollTyped, NEW h \in Hosts, NEW n \in NodeNames, NEW state \in NodeStates,
         signed < MaxCerts, Issue(h, n, Sign(etime), state),
         UNCHANGED <<disk, agent, etime, efaults, granted>>,
         join' \in [JoinTokens -> Joins], enrolled' \in [JoinTokens -> Nat]
  PROVE  EnrollTyped'
<1>1. state # "none"
  BY DEF NodeStates
<1>2. /\ HostTyped /\ OthersKept(h) /\ agent'[h] = agent[h]
      /\ wire'[h].kind = "answer" /\ wire'[h].cert.id = row'[n].fp
      /\ row' \in [NodeNames -> Rows] /\ row'[n].state = state /\ row'[n].fp # 0
      /\ \A m \in NodeNames \ {n} : row'[m] = row[m] /\ holder'[m] = holder[m]
      /\ holder' \in [NodeNames -> Hosts \cup {"none"}] /\ holder'[n] = h
      /\ signed' \in 0..MaxCerts
  BY IssueDoes
<1>3. EnrollTypeOK'
  BY <1>1, <1>2 DEF EnrollTyped, EnrollTypeOK, HostTyped
<1>4. \A g \in Hosts : RequestOK(g)'
  BY <1>1, <1>2 DEF EnrollTyped, RequestOK, OthersKept
<1>5. \A m \in NodeNames : HolderOK(m)'
  BY <1>1, <1>2 DEF EnrollTyped, HolderOK
<1> QED BY <1>2, <1>3, <1>4, <1>5 DEF EnrollTyped

(* The uses left and the uses spent of a token make up what was minted.    *)
TokenAccount(t) ==
  /\ join[t].exp = 0 => enrolled[t] = 0
  /\ join[t].exp > 0 => join[t].uses + enrolled[t] = JoinUses
Accounted == \A t \in JoinTokens : TokenAccount(t)

(* An enrollment that is paid for, in the terms of its request.            *)
LEMMA EnrollPaid ==
  ASSUME EnrollTyped, NEW h \in Hosts, NEW n \in NodeNames, NEW t \in JoinTokens,
         ServerEnroll(h), n = wire[h].name, t = wire[h].token, Redeemable(t), NameOpen(n)
  PROVE  /\ Issue(h, n, Sign(etime), StateOnEnroll(n)) /\ signed < MaxCerts
         /\ wire[h].kind = "enroll" /\ UNCHANGED <<disk, agent, etime, efaults, granted>>
         /\ StateOnEnroll(n) \in NodeStates
         /\ join' \in [JoinTokens -> Joins] /\ enrolled' \in [JoinTokens -> Nat]
         /\ Accounted => Accounted'
<1>1. /\ Issue(h, n, Sign(etime), StateOnEnroll(n)) /\ signed < MaxCerts
      /\ wire[h].kind = "enroll" /\ UNCHANGED <<disk, agent, etime, efaults, granted>>
      /\ join' = [join EXCEPT ![t].uses = @ - 1] /\ enrolled' = [enrolled EXCEPT ![t] = @ + 1]
  BY DEF ServerEnroll, Redeem
<1>2. row[n].state \in NodeStates \cup {"none"}
  BY DEF EnrollTyped, EnrollTypeOK, Rows
<1>3. StateOnEnroll(n) \in NodeStates
  BY <1>2 DEF StateOnEnroll, NodeStates
<1>4. join[t] \in Joins /\ join[t].uses \in Nat /\ join[t].uses > 0 /\ join[t].exp > 0
  BY DEF EnrollTyped, EnrollTypeOK, Joins, Redeemable
<1>5. PICK j : j = [join[t] EXCEPT !.uses = @ - 1]
  OBVIOUS
<1>6. j \in Joins /\ j.uses = join[t].uses - 1 /\ j.exp = join[t].exp
  BY <1>4, <1>5 DEF Joins
<1>7. join' = [join EXCEPT ![t] = j]
  BY <1>1, <1>5 DEF EnrollTyped, EnrollTypeOK
<1>8. /\ join' \in [JoinTokens -> Joins] /\ join'[t] = j
      /\ \A u \in JoinTokens \ {t} : join'[u] = join[u]
  BY <1>6, <1>7 DEF EnrollTyped, EnrollTypeOK
<1>9. /\ enrolled' \in [JoinTokens -> Nat] /\ enrolled'[t] = enrolled[t] + 1
      /\ enrolled[t] \in Nat /\ \A u \in JoinTokens \ {t} : enrolled'[u] = enrolled[u]
  BY <1>1 DEF EnrollTyped
<1>10. ASSUME Accounted, NEW u \in JoinTokens PROVE TokenAccount(u)'
  BY <1>4, <1>6, <1>8, <1>9, <1>10, EnrollConstants DEF Accounted, TokenAccount
<1> QED BY <1>1, <1>3, <1>8, <1>9, <1>10 DEF Accounted

LEMMA EnrollRefused ==
  ASSUME EnrollTyped, NEW h \in Hosts, ServerEnroll(h),
         ~(Redeemable(wire[h].token) /\ NameOpen(wire[h].name))
  PROVE  /\ HostStep(h) /\ efaults' = efaults /\ wire[h].kind = "enroll"
         /\ agent'[h] = agent[h] /\ disk'[h] = disk[h] /\ wire'[h].kind = "refused"
<1>1. /\ wire[h].kind = "enroll" /\ Reply(h, "refused", NoCert)
      /\ UNCHANGED <<row, join, signed, holder, enrolled, disk, agent, etime, efaults, granted>>
  BY DEF ServerEnroll
<1>2. "refused" \in Kinds
  BY DEF Kinds
<1> QED BY <1>1, <1>2, ReplyDoes, NoCertIsCert DEF HostStep

LEMMA RenewedDoes ==
  ASSUME EnrollTyped, NEW h \in Hosts, NEW n \in NodeNames, ServerRenew(h), n = wire[h].name
  PROVE  /\ Issue(h, n, Sign(etime), row[n].state) /\ signed < MaxCerts /\ wire[h].kind = "checked"
         /\ row[n].state \in NodeStates
         /\ UNCHANGED <<disk, agent, etime, efaults, granted, join, enrolled>>
<1>1. /\ Issue(h, n, Sign(etime), row[n].state) /\ signed < MaxCerts /\ wire[h].kind = "checked"
      /\ UNCHANGED <<disk, agent, etime, efaults, granted, join, enrolled>>
  BY DEF ServerRenew
<1>2. row[n].state \in NodeStates
  BY <1>1 DEF EnrollTyped, EnrollTypeOK, Rows, RequestOK
<1> QED BY <1>1, <1>2

LEMMA MoveDoes ==
  ASSUME EnrollTyped, NEW n \in NodeNames, NEW to \in NodeStates, MoveNode(n, to)
  PROVE  /\ row[n].state # "none" /\ row' \in [NodeNames -> Rows]
         /\ row'[n].state = to /\ row'[n].fp = row[n].fp
         /\ \A m \in NodeNames \ {n} : row'[m] = row[m] /\ granted'[m] = granted[m]
         /\ granted' \in [NodeNames -> NodeStates] /\ granted'[n] = to
         /\ UNCHANGED <<join, wire, disk, agent, signed, etime, efaults, holder, enrolled>>
<1>1. row[n] \in Rows
  BY DEF EnrollTyped, EnrollTypeOK
<1>2. PICK r : r = [row[n] EXCEPT !.state = to]
  OBVIOUS
<1>3. r \in Rows /\ r.state = to /\ r.fp = row[n].fp
  BY <1>1, <1>2 DEF Rows
<1>4. row' = [row EXCEPT ![n] = r]
  BY <1>2 DEF MoveNode, EnrollTyped, EnrollTypeOK
<1> QED BY <1>3, <1>4 DEF MoveNode, EnrollTyped, EnrollTypeOK

LEMMA MintJoinDoes ==
  ASSUME EnrollTyped, NEW t \in JoinTokens, MintJoinToken(t)
  PROVE  /\ join[t].exp = 0 /\ join' \in [JoinTokens -> Joins]
         /\ join'[t].uses = JoinUses /\ \A u \in JoinTokens \ {t} : join'[u] = join[u]
         /\ UNCHANGED <<row, wire, disk, agent, signed, etime, efaults, holder, granted, enrolled>>
<1>1. PICK j : j = [uses |-> JoinUses, exp |-> EnrollClock]
  OBVIOUS
<1>2. j \in Joins /\ j.uses = JoinUses
  BY <1>1, EnrollConstants DEF Joins
<1>3. join' = [join EXCEPT ![t] = j]
  BY <1>1 DEF MintJoinToken
<1> QED BY <1>2, <1>3 DEF MintJoinToken, EnrollTyped, EnrollTypeOK

(***************************************************************************)
(* A step is one of seven kinds: nothing, time, a token minted, a state    *)
(* set, a step that concerns one host alone, and the two that issue.       *)
(***************************************************************************)
HostAlone(h) ==
  \/ \E n \in NodeNames, t \in JoinTokens : StartEnroll(h, n, t)
  \/ ServerEnroll(h) /\ ~(Redeemable(wire[h].token) /\ NameOpen(wire[h].name))
  \/ ServerCheck(h) \/ TakeAnswer(h) \/ TakeRefusal(h) \/ DropAnswer(h)
  \/ WriteKey(h) \/ WriteCert(h) \/ FinishPair(h) \/ NewDaemon(h) \/ Renew(h)
  \/ LoseAnswer(h) \/ HostCrash(h) \/ \E removed : cmdNodeLeave(h, removed)
Paid(h, n, t) ==
  ServerEnroll(h) /\ n = wire[h].name /\ t = wire[h].token /\ Redeemable(t) /\ NameOpen(n)
Renewed(h, n) == ServerRenew(h) /\ n = wire[h].name

LEMMA EnrollSteps ==
  ASSUME EnrollTyped, [EnrollNext]_enrollVars
  PROVE  \/ UNCHANGED enrollVars
         \/ EnrollTick
         \/ \E t \in JoinTokens : MintJoinToken(t)
         \/ \E n \in NodeNames, to \in NodeStates : MoveNode(n, to)
         \/ \E h \in Hosts : HostAlone(h)
         \/ \E h \in Hosts, n \in NodeNames, t \in JoinTokens : Paid(h, n, t)
         \/ \E h \in Hosts, n \in NodeNames : Renewed(h, n)
<1>1. ASSUME NEW h \in Hosts, ServerEnroll(h)
      PROVE  HostAlone(h) \/ \E n \in NodeNames, t \in JoinTokens : Paid(h, n, t)
  <2>1. wire[h].name \in NodeNames /\ wire[h].token \in JoinTokens
    BY <1>1 DEF EnrollTyped, RequestOK, ServerEnroll
  <2> QED BY <1>1, <2>1 DEF HostAlone, Paid
<1>2. ASSUME NEW h \in Hosts, ServerRenew(h) PROVE \E n \in NodeNames : Renewed(h, n)
  <2>1. wire[h].name \in NodeNames
    BY <1>2 DEF EnrollTyped, RequestOK, ServerRenew
  <2> QED BY <1>2, <2>1 DEF Renewed
<1> QED BY <1>1, <1>2, Zenon
        DEF EnrollNext, HostAlone, nodeTransition, cmdNodeTransition, cmdNodeEnroll, cmdNodeInstall

LEMMA HostAloneTyped ==
  ASSUME EnrollTyped, NEW h \in Hosts, HostAlone(h)
  PROVE  EnrollTyped' /\ HostStep(h)
<1>0. RequestOK(h) /\ efaults \in 0..EnrollFaults
  BY DEF EnrollTyped, EnrollTypeOK
<1>01. /\ agent[h] \in Agents /\ wire[h] \in Wires
       /\ NoWire.kind = "none" /\ NoAgent.at = "off" /\ NoCert.id = 0
  BY NoWireIsWire, NoAgentIsAgent, NoCertIsCert DEF EnrollTyped, EnrollTypeOK
<1> DEFINE Goal == HostStep(h) /\ efaults' \in 0..EnrollFaults /\ RequestOK(h)'
<1>1. ASSUME NEW n \in NodeNames, NEW t \in JoinTokens, StartEnroll(h, n, t) PROVE Goal
  <2>1. /\ HostStep(h) /\ efaults' = efaults
        /\ wire'[h] = Message("enroll", n, t, NoCert) /\ agent'[h] = Process("enroll", n, NoCert, 0)
    BY <1>1, StartEnrollDoes
  <2>2. wire'[h].kind = "enroll" /\ wire'[h].name = n /\ wire'[h].token = t
    BY <2>1 DEF Message
  <2>3. agent'[h].at = "enroll" /\ agent'[h].name = n
    BY <2>1 DEF Process
  <2> QED BY <1>0, <2>1, <2>2, <2>3 DEF RequestOK
<1>2. ASSUME ServerEnroll(h), ~(Redeemable(wire[h].token) /\ NameOpen(wire[h].name)) PROVE Goal
  BY <1>0, <1>2, EnrollRefused DEF RequestOK
<1>3. ASSUME ServerCheck(h) PROVE Goal
  BY <1>0, <1>3, ServerCheckDoes DEF RequestOK, HostStep
<1>4. ASSUME TakeAnswer(h) PROVE Goal
  BY <1>0, <1>01, <1>4, TakeAnswerDoes DEF RequestOK
<1>5. ASSUME TakeRefusal(h) PROVE Goal
  BY <1>0, <1>01, <1>5, TakeRefusalDoes DEF RequestOK
<1>6. ASSUME DropAnswer(h) PROVE Goal
  BY <1>0, <1>01, <1>6, DropAnswerDoes DEF RequestOK
<1>7. ASSUME WriteKey(h) PROVE Goal
  BY <1>0, <1>7, WriteKeyDoes DEF RequestOK, HostStep
<1>8. ASSUME WriteCert(h) PROVE Goal
  BY <1>0, <1>8, WriteCertDoes DEF RequestOK, HostStep
<1>9. ASSUME FinishPair(h) PROVE Goal
  BY <1>0, <1>01, <1>9, FinishPairDoes DEF RequestOK, HostStep
<1>10. ASSUME NewDaemon(h) PROVE Goal
  <2>1. disk[h].conf \in NodeNames \cup {""}
    BY DEF EnrollTyped, EnrollTypeOK, Disks
  <2> QED BY <1>0, <1>01, <1>10, <2>1, NewDaemonDoes DEF RequestOK, HostStep
<1>11. ASSUME Renew(h) PROVE Goal
  BY <1>0, <1>11, RenewDoes DEF RequestOK, HostStep
<1>12. ASSUME LoseAnswer(h) PROVE Goal
  BY <1>0, <1>12, LoseAnswerDoes DEF RequestOK, FaultCounted
<1>13. ASSUME HostCrash(h) PROVE Goal
  BY <1>0, <1>01, <1>13, HostCrashDoes DEF RequestOK, FaultCounted, HostStep
<1>14. ASSUME NEW removed, cmdNodeLeave(h, removed) PROVE Goal
  BY <1>0, <1>01, <1>14, LeaveDoes DEF RequestOK, FaultCounted, HostStep
<1>15. Goal
  BY <1>1, <1>2, <1>3, <1>4, <1>5, <1>6, <1>7, <1>8, <1>9, <1>10, <1>11, <1>12, <1>13, <1>14
     DEF HostAlone
<1> QED BY <1>15, HostStepTyped

LEMMA EnrollTypedStep ==
  ASSUME EnrollTyped, [EnrollNext]_enrollVars
  PROVE  EnrollTyped'
<1>1. CASE UNCHANGED enrollVars
  BY <1>1 DEF enrollVars, EnrollTyped, EnrollTypeOK, RequestOK, HolderOK
<1>2. CASE EnrollTick
  BY <1>2 DEF EnrollTick, serverVars, EnrollTyped, EnrollTypeOK, RequestOK, HolderOK
<1>3. ASSUME NEW t \in JoinTokens, MintJoinToken(t) PROVE EnrollTyped'
  BY <1>3, MintJoinDoes DEF EnrollTyped, EnrollTypeOK, RequestOK, HolderOK
<1>4. ASSUME NEW n \in NodeNames, NEW to \in NodeStates, MoveNode(n, to) PROVE EnrollTyped'
  <2>1. to # "none"
    BY DEF NodeStates
  <2>2. EnrollTypeOK'
    BY <1>4, <2>1, MoveDoes DEF EnrollTyped, EnrollTypeOK
  <2>3. (\A h \in Hosts : RequestOK(h)') /\ \A m \in NodeNames : HolderOK(m)'
    BY <1>4, <2>1, MoveDoes DEF EnrollTyped, RequestOK, HolderOK
  <2> QED BY <1>4, <2>2, <2>3, MoveDoes DEF EnrollTyped
<1>5. ASSUME NEW h \in Hosts, HostAlone(h) PROVE EnrollTyped'
  BY <1>5, HostAloneTyped
<1>6. ASSUME NEW h \in Hosts, NEW n \in NodeNames, NEW t \in JoinTokens, Paid(h, n, t)
      PROVE  EnrollTyped'
  <2>1. /\ Issue(h, n, Sign(etime), StateOnEnroll(n)) /\ signed < MaxCerts
        /\ UNCHANGED <<disk, agent, etime, efaults, granted>> /\ StateOnEnroll(n) \in NodeStates
        /\ join' \in [JoinTokens -> Joins] /\ enrolled' \in [JoinTokens -> Nat]
    BY <1>6, EnrollPaid DEF Paid
  <2> QED BY <2>1, IssueTyped
<1>7. ASSUME NEW h \in Hosts, NEW n \in NodeNames, Renewed(h, n) PROVE EnrollTyped'
  <2>1. /\ Issue(h, n, Sign(etime), row[n].state) /\ signed < MaxCerts /\ row[n].state \in NodeStates
        /\ UNCHANGED <<disk, agent, etime, efaults, granted, join, enrolled>>
    BY <1>7, RenewedDoes DEF Renewed
  <2>2. join' \in [JoinTokens -> Joins] /\ enrolled' \in [JoinTokens -> Nat]
    BY <2>1 DEF EnrollTyped, EnrollTypeOK
  <2> QED BY <2>1, <2>2, IssueTyped
<1> QED BY <1>1, <1>2, <1>3, <1>4, <1>5, <1>6, <1>7, EnrollSteps

(* The fleet's tables are well formed (EnrollTypeOK), a request that was   *)
(* checked names a node that still has a row, and a row has a holder.      *)
THEOREM EnrollTypeCorrect == EnrollSpec => []EnrollTyped
<1>1. EnrollInit => EnrollTyped
  BY EnrollTypedInit
<1>2. EnrollTyped /\ [EnrollNext]_enrollVars => EnrollTyped'
  BY EnrollTypedStep
<1> QED BY <1>1, <1>2, PTL DEF EnrollSpec

(***************************************************************************)
(* Uses and grants.                                                        *)
(***************************************************************************)
GrantHeld(n) == row[n].state # "none" => row[n].state = granted[n]
Books == Accounted /\ \A n \in NodeNames : GrantHeld(n)

LEMMA BooksStep ==
  ASSUME EnrollTyped, Books, [EnrollNext]_enrollVars
  PROVE  Books'
<1>0. ASSUME UNCHANGED <<row, join, granted, enrolled>> PROVE Books'
  BY <1>0 DEF Books, Accounted, TokenAccount, GrantHeld
<1>1. CASE UNCHANGED enrollVars
  BY <1>0, <1>1 DEF enrollVars
<1>2. CASE EnrollTick
  BY <1>0, <1>2 DEF EnrollTick, serverVars
<1>3. ASSUME NEW t \in JoinTokens, MintJoinToken(t) PROVE Books'
  <2>1. \A u \in JoinTokens : TokenAccount(u)'
    BY <1>3, MintJoinDoes, EnrollConstants DEF Books, Accounted, TokenAccount
  <2> QED BY <1>3, <2>1, MintJoinDoes DEF Books, Accounted, GrantHeld
<1>4. ASSUME NEW n \in NodeNames, NEW to \in NodeStates, MoveNode(n, to) PROVE Books'
  BY <1>4, MoveDoes DEF Books, Accounted, TokenAccount, GrantHeld
<1>5. ASSUME NEW h \in Hosts, HostAlone(h) PROVE Books'
  BY <1>0, <1>5, HostAloneTyped DEF HostStep
<1>6. ASSUME NEW h \in Hosts, NEW n \in NodeNames, NEW t \in JoinTokens, Paid(h, n, t)
      PROVE  Books'
  <2>1. /\ Issue(h, n, Sign(etime), StateOnEnroll(n)) /\ signed < MaxCerts
        /\ UNCHANGED <<disk, agent, etime, efaults, granted>> /\ StateOnEnroll(n) \in NodeStates
        /\ Accounted'
    BY <1>6, EnrollPaid DEF Paid, Books
  <2>2. row'[n].state = StateOnEnroll(n) /\ \A m \in NodeNames \ {n} : row'[m] = row[m]
    BY <2>1, IssueDoes
  <2>3. StateOnEnroll(n) = granted[n]
    BY DEF StateOnEnroll, Books, GrantHeld, EnrollTyped, HolderOK
  <2> QED BY <2>1, <2>2, <2>3 DEF Books, GrantHeld
<1>7. ASSUME NEW h \in Hosts, NEW n \in NodeNames, Renewed(h, n) PROVE Books'
  <2>1. /\ Issue(h, n, Sign(etime), row[n].state) /\ signed < MaxCerts /\ row[n].state \in NodeStates
        /\ UNCHANGED <<disk, agent, etime, efaults, granted, join, enrolled>>
    BY <1>7, RenewedDoes DEF Renewed
  <2>2. row'[n].state = row[n].state /\ \A m \in NodeNames \ {n} : row'[m] = row[m]
    BY <2>1, IssueDoes
  <2> QED BY <2>1, <2>2 DEF Books, Accounted, TokenAccount, GrantHeld
<1> QED BY <1>1, <1>2, <1>3, <1>4, <1>5, <1>6, <1>7, EnrollSteps

(***************************************************************************)
(* Where a certificate is, as long as nothing went wrong.  A host has one  *)
(* request out at a time, about the name of the process that made it; the  *)
(* certificate in flight is the last one issued for that name if this host *)
(* is still its holder; and the pair on disk is the last one of the name   *)
(* in agent.toml, until the pair of another name is being written over it. *)
(***************************************************************************)
InHand(h) == agent[h].at \in {"got", "keyed", "written"}
Flying(h) == wire[h].kind = "answer" \/ InHand(h)

HostOK(h) ==
  /\ agent[h].at \notin {"enroll", "renew"} => wire[h].kind = "none"
  /\ wire[h].kind = "enroll" => agent[h].at = "enroll" /\ wire[h].name = agent[h].name
  /\ wire[h].kind \in {"renew", "checked"} => agent[h].at = "renew" /\ wire[h].name = agent[h].name
  /\ agent[h].at \in {"up", "renew"} => agent[h].client # NoCert
  /\ agent[h].client # NoCert => disk[h].conf = agent[h].name /\ disk[h].conf # ""
  /\ agent[h].at \in {"keyed", "written"} => disk[h].key = agent[h].held.id
  /\ agent[h].at = "written" => disk[h].cert = agent[h].held
  /\ agent[h].at # "off" => agent[h].name # ""

Current(h, n) ==
  /\ wire[h].kind = "answer" => wire[h].cert.id = row[n].fp
  /\ InHand(h) => agent[h].held.id = row[n].fp
OnDisk(h, n) ==
  /\ disk[h].conf # ""
  /\ (disk[h].conf = n /\ agent[h].at \notin {"keyed", "written"}) =>
       disk[h].cert.id = row[n].fp /\ disk[h].key = row[n].fp
Claim(h, n) ==
  (holder[n] = h /\ row[n].state # "none") =>
    IF Flying(h) /\ agent[h].name = n THEN Current(h, n) ELSE OnDisk(h, n)

Clean == efaults = 0 => \A h \in Hosts : HostOK(h) /\ \A n \in NodeNames : Claim(h, n)

LEMMA CleanInit ==
  ASSUME EnrollInit
  PROVE  Clean
<1>1. \A h \in Hosts : wire[h] = NoWire /\ agent[h] = NoAgent
  BY DEF EnrollInit
<1>2. \A h \in Hosts : HostOK(h)
  BY <1>1, NoWireIsWire, NoAgentIsAgent DEF HostOK
<1>3. \A n \in NodeNames : row[n].state = "none"
  BY DEF EnrollInit
<1> QED BY <1>2, <1>3 DEF Clean, Claim

(* A step of one host, or a renewal or enrollment of another, leaves the   *)
(* claims of the hosts it does not touch.                                  *)
LEMMA CleanKept ==
  ASSUME NEW h \in Hosts, wire'[h] = wire[h], agent'[h] = agent[h], disk'[h] = disk[h],
         NEW n \in NodeNames, HostOK(h), Claim(h, n),
         row'[n].fp = row[n].fp, row'[n].state # "none" => row[n].state # "none",
         holder'[n] = holder[n]
  PROVE  HostOK(h)' /\ Claim(h, n)'
BY DEF HostOK, Claim, Current, OnDisk, Flying, InHand

LEMMA CleanHost ==
  ASSUME EnrollTyped, Clean, NEW h \in Hosts, HostAlone(h)
  PROVE  Clean'
<1> SUFFICES ASSUME efaults' = 0
             PROVE  \A g \in Hosts : HostOK(g)' /\ \A n \in NodeNames : Claim(g, n)'
  BY DEF Clean
<1>1. HostStep(h)
  BY HostAloneTyped
<1>2. efaults \in Nat
  BY DEF EnrollTyped, EnrollTypeOK
<1>3. ~LoseAnswer(h) /\ ~HostCrash(h) /\ ~\E removed : cmdNodeLeave(h, removed)
  BY <1>2, LoseAnswerDoes, HostCrashDoes, LeaveDoes DEF FaultCounted
<1>4. efaults = 0
  BY <1>3, StartEnrollDoes, EnrollRefused, ServerCheckDoes, TakeAnswerDoes, TakeRefusalDoes,
     DropAnswerDoes, WriteKeyDoes, WriteCertDoes, FinishPairDoes, NewDaemonDoes, RenewDoes
     DEF HostAlone
<1>5. \A g \in Hosts : HostOK(g) /\ \A n \in NodeNames : Claim(g, n)
  BY <1>4 DEF Clean
<1>6. ASSUME NEW g \in Hosts, g # h PROVE HostOK(g)' /\ \A n \in NodeNames : Claim(g, n)'
  <2>1. wire'[g] = wire[g] /\ agent'[g] = agent[g] /\ disk'[g] = disk[g] /\ row' = row /\ holder' = holder
    BY <1>1, <1>6 DEF HostStep, OthersKept
  <2>2. HostOK(g)'
    BY <1>5, <2>1 DEF HostOK
  <2>3. \A n \in NodeNames : Claim(g, n)'
    BY <1>5, <2>1, CleanKept
  <2> QED BY <2>2, <2>3
<1>7. HostOK(h) /\ (\A n \in NodeNames : Claim(h, n)) /\ row' = row /\ holder' = holder /\ RequestOK(h)
  BY <1>1, <1>5 DEF HostStep, EnrollTyped
<1>8. /\ NoWire.kind = "none" /\ NoAgent.at = "off" /\ NoAgent.client = NoCert /\ NoCert.id = 0
  BY NoWireIsWire, NoAgentIsAgent, NoCertIsCert
<1> DEFINE Goal == HostOK(h)' /\ \A n \in NodeNames : Claim(h, n)'
<1>9. ASSUME NEW n \in NodeNames, NEW t \in JoinTokens, StartEnroll(h, n, t) PROVE Goal
  <2>1. /\ agent[h] = NoAgent /\ wire[h] = NoWire /\ disk'[h] = disk[h]
        /\ wire'[h] = Message("enroll", n, t, NoCert) /\ agent'[h] = Process("enroll", n, NoCert, 0)
    BY <1>9, StartEnrollDoes
  <2>2. wire'[h].kind = "enroll" /\ wire'[h].name = n
    BY <2>1 DEF Message
  <2>3. agent'[h].at = "enroll" /\ agent'[h].name = n /\ agent'[h].client = NoCert
    BY <2>1 DEF Process
  <2>4. n # ""
    BY NodeNamesAssumption
  <2>5. HostOK(h)'
    BY <2>2, <2>3, <2>4 DEF HostOK
  <2>6. \A m \in NodeNames : Claim(h, m)'
    BY <1>7, <1>8, <2>1, <2>2, <2>3 DEF Claim, OnDisk, Flying, InHand
  <2> QED BY <2>5, <2>6
<1>10. ASSUME ServerEnroll(h), ~(Redeemable(wire[h].token) /\ NameOpen(wire[h].name)) PROVE Goal
  <2>1. /\ wire[h].kind = "enroll" /\ agent'[h] = agent[h] /\ disk'[h] = disk[h]
        /\ wire'[h].kind = "refused"
    BY <1>10, EnrollRefused
  <2> QED BY <1>7, <2>1 DEF HostOK, Claim, Current, OnDisk, Flying, InHand
<1>11. ASSUME ServerCheck(h) PROVE Goal
  <2>1. /\ wire[h].kind = "renew" /\ agent'[h] = agent[h] /\ disk'[h] = disk[h]
        /\ wire'[h].kind = "refused" \/ (wire'[h].kind = "checked" /\ wire'[h].name = wire[h].name)
    BY <1>11, ServerCheckDoes
  <2> QED BY <1>7, <2>1 DEF HostOK, Claim, Current, OnDisk, Flying, InHand
<1>12. ASSUME TakeAnswer(h) PROVE Goal
  <2>1. /\ wire[h].kind = "answer" /\ agent[h].at \in {"enroll", "renew"} /\ disk'[h] = disk[h]
        /\ wire'[h].kind = "none" /\ agent'[h].at = "got" /\ agent'[h].held = wire[h].cert
        /\ agent'[h].client = agent[h].client /\ agent'[h].name = agent[h].name
    BY <1>8, <1>12, TakeAnswerDoes
  <2>2. HostOK(h)'
    BY <1>7, <2>1 DEF HostOK
  <2>3. \A m \in NodeNames : Claim(h, m)'
    BY <1>7, <2>1 DEF Claim, Current, OnDisk, Flying, InHand
  <2> QED BY <2>2, <2>3
<1>13. ASSUME TakeRefusal(h) PROVE Goal
  <2>1. /\ wire[h].kind = "refused" /\ disk'[h] = disk[h] /\ wire'[h].kind = "none"
        /\ \/ /\ agent[h].at = "renew" /\ agent'[h].at = "up"
              /\ agent'[h].client = agent[h].client /\ agent'[h].name = agent[h].name
           \/ agent[h].at = "enroll" /\ agent'[h].at = "off" /\ agent'[h].client = NoCert
    BY <1>7, <1>8, <1>13, TakeRefusalDoes DEF HostOK
  <2>2. HostOK(h)'
    BY <1>7, <2>1 DEF HostOK
  <2>3. \A m \in NodeNames : Claim(h, m)'
    BY <1>7, <2>1 DEF Claim, OnDisk, Flying, InHand
  <2> QED BY <2>2, <2>3
<1>14. ASSUME DropAnswer(h) PROVE Goal
  <2>1. wire[h].kind = "answer" /\ agent[h].at \in {"off", "up"}
    BY <1>14, DropAnswerDoes
  <2> QED BY <1>7, <2>1 DEF HostOK
<1>15. ASSUME WriteKey(h) PROVE Goal
  <2>1. /\ agent[h].at = "got" /\ wire'[h] = wire[h]
        /\ agent'[h].at = "keyed" /\ agent'[h].held = agent[h].held
        /\ agent'[h].client = agent[h].client /\ agent'[h].name = agent[h].name
        /\ disk'[h].key = agent[h].held.id /\ disk'[h].conf = disk[h].conf
    BY <1>15, WriteKeyDoes
  <2>2. HostOK(h)'
    BY <1>7, <2>1 DEF HostOK
  <2>3. \A m \in NodeNames : Claim(h, m)'
    BY <1>7, <2>1 DEF Claim, Current, OnDisk, Flying, InHand
  <2> QED BY <2>2, <2>3
<1>16. ASSUME WriteCert(h) PROVE Goal
  <2>1. /\ agent[h].at = "keyed" /\ wire'[h] = wire[h]
        /\ agent'[h].at = "written" /\ agent'[h].held = agent[h].held
        /\ agent'[h].client = agent[h].client /\ agent'[h].name = agent[h].name
        /\ disk'[h].cert = agent[h].held /\ disk'[h].key = disk[h].key /\ disk'[h].conf = disk[h].conf
    BY <1>16, WriteCertDoes
  <2>2. HostOK(h)'
    BY <1>7, <2>1 DEF HostOK
  <2>3. \A m \in NodeNames : Claim(h, m)'
    BY <1>7, <2>1 DEF Claim, Current, OnDisk, Flying, InHand
  <2> QED BY <2>2, <2>3
<1>17. ASSUME FinishPair(h) PROVE Goal
  <2>1. /\ agent[h].at = "written" /\ wire'[h] = wire[h]
        /\ disk'[h].cert = disk[h].cert /\ disk'[h].key = disk[h].key
        /\ \/ /\ agent[h].client = NoCert /\ agent'[h].at = "off" /\ agent'[h].client = NoCert
              /\ disk'[h].conf = agent[h].name
           \/ /\ agent[h].client # NoCert /\ disk'[h].conf = disk[h].conf
              /\ agent'[h].at = "up" /\ agent'[h].name = agent[h].name
              /\ agent'[h].client = agent[h].held
    BY <1>8, <1>17, FinishPairDoes
  <2>2. agent[h].held # NoCert /\ agent[h].name # ""
    BY <1>7, <1>8, <2>1 DEF RequestOK, HostOK
  <2>3. HostOK(h)'
    BY <1>7, <2>1, <2>2 DEF HostOK
  <2>4. \A m \in NodeNames : Claim(h, m)'
    BY <1>7, <2>1, <2>2 DEF HostOK, Claim, Current, OnDisk, Flying, InHand
  <2> QED BY <2>3, <2>4
<1>18. ASSUME NewDaemon(h) PROVE Goal
  <2>1. /\ agent[h].at = "off" /\ wire[h].kind = "none" /\ wire'[h] = wire[h] /\ disk'[h] = disk[h]
        /\ disk[h].conf # "" /\ disk[h].cert # NoCert
        /\ agent'[h].at = "up" /\ agent'[h].name = disk[h].conf /\ agent'[h].client = disk[h].cert
    BY <1>8, <1>18, NewDaemonDoes
  <2>2. HostOK(h)'
    BY <2>1 DEF HostOK
  <2>3. \A m \in NodeNames : Claim(h, m)'
    BY <1>7, <2>1 DEF Claim, OnDisk, Flying, InHand
  <2> QED BY <2>2, <2>3
<1>19. ASSUME Renew(h) PROVE Goal
  <2>1. /\ agent[h].at = "up" /\ disk'[h] = disk[h]
        /\ wire'[h].kind = "renew" /\ wire'[h].name = agent[h].name
        /\ agent'[h].at = "renew" /\ agent'[h].client = agent[h].client /\ agent'[h].name = agent[h].name
    BY <1>19, RenewDoes
  <2>2. HostOK(h)'
    BY <1>7, <2>1 DEF HostOK
  <2>3. \A m \in NodeNames : Claim(h, m)'
    BY <1>7, <2>1 DEF HostOK, Claim, OnDisk, Flying, InHand
  <2> QED BY <2>2, <2>3
<1>20. Goal
  BY <1>3, <1>9, <1>10, <1>11, <1>12, <1>13, <1>14, <1>15, <1>16, <1>17, <1>18, <1>19 DEF HostAlone
<1> QED BY <1>6, <1>20

(* A certificate is issued to the host that asked, for the name it asked.  *)
LEMMA CleanIssue ==
  ASSUME EnrollTyped, Clean, NEW h \in Hosts, NEW n \in NodeNames, NEW state \in NodeStates,
         n = wire[h].name, wire[h].kind \in {"enroll", "checked"},
         signed < MaxCerts, Issue(h, n, Sign(etime), state), UNCHANGED <<disk, agent, efaults>>
  PROVE  Clean'
<1> SUFFICES ASSUME efaults' = 0, NEW g \in Hosts, NEW m \in NodeNames
             PROVE  HostOK(g)' /\ Claim(g, m)'
  BY DEF Clean
<1>1. HostOK(g) /\ HostOK(h) /\ \A k \in NodeNames : Claim(g, k)
  BY DEF Clean
<1>2. /\ OthersKept(h) /\ agent'[h] = agent[h] /\ disk'[h] = disk[h]
      /\ wire'[h].kind = "answer" /\ wire'[h].cert.id = row'[n].fp
      /\ \A k \in NodeNames \ {n} : row'[k] = row[k] /\ holder'[k] = holder[k]
      /\ holder'[n] = h
  BY IssueDoes
<1>3. agent[h].at \in {"enroll", "renew"} /\ agent[h].name = n
  BY <1>1 DEF HostOK
<1>4. CASE g = h
  <2>1. HostOK(g)'
    BY <1>1, <1>2, <1>3, <1>4 DEF HostOK
  <2>2. ASSUME m = n PROVE Claim(g, m)'
    BY <1>2, <1>3, <1>4, <2>2 DEF Claim, Current, Flying, InHand
  <2>3. ASSUME m # n PROVE Claim(g, m)'
    <3>1. row'[m] = row[m] /\ holder'[m] = holder[m] /\ agent'[g] = agent[g] /\ disk'[g] = disk[g]
          /\ agent[g].name # m /\ agent[g].at \in {"enroll", "renew"}
      BY <1>2, <1>3, <1>4, <2>3
    <3>2. Claim(g, m) /\ wire[g].kind # "answer"
      BY <1>1, <1>4
    <3> QED BY <3>1, <3>2 DEF Claim, OnDisk, Flying, InHand
  <2> QED BY <2>1, <2>2, <2>3
<1>5. CASE g # h
  <2>1. wire'[g] = wire[g] /\ agent'[g] = agent[g] /\ disk'[g] = disk[g]
    BY <1>2, <1>5 DEF OthersKept
  <2>2. HostOK(g)'
    BY <1>1, <2>1 DEF HostOK
  <2>3. ASSUME m = n PROVE Claim(g, m)'
    BY <1>2, <1>5, <2>3 DEF Claim
  <2>4. ASSUME m # n PROVE Claim(g, m)'
    <3>1. row'[m] = row[m] /\ holder'[m] = holder[m] /\ Claim(g, m)
      BY <1>1, <1>2, <2>4 DEF Clean
    <3> QED BY <2>1, <3>1 DEF Claim, Current, OnDisk, Flying, InHand
  <2> QED BY <2>2, <2>3, <2>4
<1> QED BY <1>4, <1>5

LEMMA CleanStep ==
  ASSUME EnrollTyped, Clean, [EnrollNext]_enrollVars
  PROVE  Clean'
<1>0. ASSUME UNCHANGED <<wire, agent, disk, row, holder, efaults>> PROVE Clean'
  BY <1>0 DEF Clean, HostOK, Claim, Current, OnDisk, Flying, InHand
<1>1. CASE UNCHANGED enrollVars
  BY <1>0, <1>1 DEF enrollVars
<1>2. CASE EnrollTick
  BY <1>0, <1>2 DEF EnrollTick, serverVars
<1>3. ASSUME NEW t \in JoinTokens, MintJoinToken(t) PROVE Clean'
  BY <1>0, <1>3 DEF MintJoinToken
<1>4. ASSUME NEW n \in NodeNames, NEW to \in NodeStates, MoveNode(n, to) PROVE Clean'
  <2>1. /\ row[n].state # "none" /\ row'[n].fp = row[n].fp /\ \A m \in NodeNames \ {n} : row'[m] = row[m]
        /\ UNCHANGED <<wire, agent, disk, holder, efaults>>
    BY <1>4, MoveDoes
  <2>2. ASSUME efaults = 0, NEW h \in Hosts, NEW m \in NodeNames PROVE HostOK(h)' /\ Claim(h, m)'
    <3>1. HostOK(h) /\ Claim(h, m)
      BY <2>2 DEF Clean
    <3>2. row'[m].fp = row[m].fp /\ (row'[m].state # "none" => row[m].state # "none")
      BY <2>1
    <3> QED BY <2>1, <3>1, <3>2, CleanKept
  <2> QED BY <2>1, <2>2 DEF Clean
<1>5. ASSUME NEW h \in Hosts, HostAlone(h) PROVE Clean'
  BY <1>5, CleanHost
<1>6. ASSUME NEW h \in Hosts, NEW n \in NodeNames, NEW t \in JoinTokens, Paid(h, n, t)
      PROVE  Clean'
  <2>1. /\ Issue(h, n, Sign(etime), StateOnEnroll(n)) /\ signed < MaxCerts /\ wire[h].kind = "enroll"
        /\ UNCHANGED <<disk, agent, efaults>> /\ StateOnEnroll(n) \in NodeStates /\ n = wire[h].name
    BY <1>6, EnrollPaid DEF Paid
  <2> QED BY <2>1, CleanIssue
<1>7. ASSUME NEW h \in Hosts, NEW n \in NodeNames, Renewed(h, n) PROVE Clean'
  <2>1. /\ Issue(h, n, Sign(etime), row[n].state) /\ signed < MaxCerts /\ row[n].state \in NodeStates
        /\ wire[h].kind = "checked" /\ n = wire[h].name /\ UNCHANGED <<disk, agent, efaults>>
    BY <1>7, RenewedDoes DEF Renewed
  <2> QED BY <2>1, CleanIssue
<1> QED BY <1>1, <1>2, <1>3, <1>4, <1>5, <1>6, <1>7, EnrollSteps

(* Join tokens pay for what they were minted for, a node's state is what   *)
(* an administrator last said, and the holder of a node's certificate has  *)
(* it at every step of an enrollment and of a renewal (NodesSound), for    *)
(* any number of hosts, names, tokens and certificates.                    *)
THEOREM NodesAreSound == EnrollSpec => []NodesSound
<1>1. EnrollInit => EnrollTyped /\ Books /\ Clean
  <2>1. EnrollInit => Books
    BY DEF EnrollInit, Books, Accounted, TokenAccount, GrantHeld
  <2> QED BY <2>1, EnrollTypedInit, CleanInit
<1>2. (EnrollTyped /\ Books /\ Clean) /\ [EnrollNext]_enrollVars => (EnrollTyped /\ Books /\ Clean)'
  BY EnrollTypedStep, BooksStep, CleanStep
<1>3. EnrollTyped /\ Books /\ Clean => NodesSound
  <2> SUFFICES ASSUME EnrollTyped, Books, Clean PROVE NodesSound
    OBVIOUS
  <2>1. UsesAccounted /\ StateIsGranted
    BY DEF Books, Accounted, TokenAccount, GrantHeld, UsesAccounted, StateIsGranted
  <2>2. ASSUME efaults = 0, NEW n \in NodeNames, row[n].state # "none"
        PROVE  Has(holder[n], row[n].fp) \/ Renamed(holder[n], n)
    <3>1. PICK h \in Hosts : h = holder[n]
      BY <2>2 DEF EnrollTyped, HolderOK
    <3>2. Claim(h, n)
      BY <2>2 DEF Clean
    <3> QED BY <2>2, <3>1, <3>2 DEF Claim, Current, OnDisk, Flying, InHand, Has, Renamed
  <2> QED BY <2>1, <2>2 DEF NodesSound, NeverStranded
<1> QED BY <1>1, <1>2, <1>3, PTL DEF EnrollSpec

(* While a node's certificate is valid nobody takes its name: no token     *)
(* does, only a renewal that was let through before (NameHeld).            *)
THEOREM NamesAreHeld == EnrollSpec => NameHeld
<1> DEFINE Kept == \A n \in NodeNames :
       row[n].state # "none" /\ etime < row[n].exp /\ holder'[n] # holder[n]
         => \E h \in Hosts : wire[h].kind = "checked" /\ wire[h].name = n
<1>1. ASSUME EnrollTyped, [EnrollNext]_enrollVars PROVE Kept
  <2>1. CASE holder' = holder
    BY <2>1
  <2>2. ASSUME NEW h \in Hosts, NEW n \in NodeNames, NEW t \in JoinTokens, Paid(h, n, t) PROVE Kept
    <3>1. \A m \in NodeNames \ {n} : holder'[m] = holder[m]
      <4>1. /\ Issue(h, n, Sign(etime), StateOnEnroll(n)) /\ signed < MaxCerts
            /\ UNCHANGED <<disk, agent>> /\ StateOnEnroll(n) \in NodeStates
        BY <1>1, <2>2, EnrollPaid DEF Paid
      <4> QED BY <1>1, <4>1, IssueDoes
    <3>2. row[n].state = "none" \/ ~(etime < row[n].exp)
      <4>1. row[n].exp \in Nat /\ etime \in Nat
        BY <1>1 DEF EnrollTyped, EnrollTypeOK, Rows
      <4> QED BY <2>2, <4>1 DEF Paid, NameOpen
    <3> QED BY <3>1, <3>2
  <2>3. ASSUME NEW h \in Hosts, NEW n \in NodeNames, Renewed(h, n) PROVE Kept
    <3>1. /\ Issue(h, n, Sign(etime), row[n].state) /\ signed < MaxCerts /\ row[n].state \in NodeStates
          /\ wire[h].kind = "checked" /\ n = wire[h].name /\ UNCHANGED <<disk, agent>>
      BY <1>1, <2>3, RenewedDoes DEF Renewed
    <3>2. \A m \in NodeNames \ {n} : holder'[m] = holder[m]
      BY <1>1, <3>1, IssueDoes
    <3> QED BY <3>1, <3>2
  <2>4. UNCHANGED enrollVars => holder' = holder
    BY DEF enrollVars
  <2>5. EnrollTick => holder' = holder
    BY DEF EnrollTick, serverVars
  <2>6. ASSUME NEW t \in JoinTokens, MintJoinToken(t) PROVE holder' = holder
    BY <2>6 DEF MintJoinToken
  <2>7. ASSUME NEW n \in NodeNames, NEW to \in NodeStates, MoveNode(n, to) PROVE holder' = holder
    BY <2>7 DEF MoveNode
  <2>8. ASSUME NEW h \in Hosts, HostAlone(h) PROVE holder' = holder
    BY <1>1, <2>8, HostAloneTyped DEF HostStep
  <2> QED BY <1>1, <2>1, <2>2, <2>3, <2>4, <2>5, <2>6, <2>7, <2>8, EnrollSteps
<1>2. EnrollTyped /\ [EnrollNext]_enrollVars => [Kept]_enrollVars
  BY <1>1
<1> QED BY <1>2, EnrollTypeCorrect, PTL DEF EnrollSpec, NameHeld

(***************************************************************************)
(* Identity: the operators.                                                *)
(***************************************************************************)
LEMMA IdentityConstants ==
  /\ MaxUsers \in Nat /\ MaxTokens \in Nat /\ MaxLinks \in Nat
  /\ MaxFailures \in Nat /\ MaxFailures > 0 /\ Window \in Nat /\ Lockout \in Nat
  /\ SetupTTL \in Nat /\ SessionTTL \in Nat /\ TokenTTL \in Nat /\ Granted \subseteq 0..Admin
BY IdentityAssumption DEF Admin

(* A nonempty set of naturals has a least member, a bounded one a greatest.*)
LEMMA LeastExists ==
  ASSUME NEW S, S \subseteq Nat, S # {}
  PROVE  \E x \in S : \A y \in S : x <= y
<1>1. PICK x \in S : \A y \in S : ~(<<y, x>> \in OpToRel(<, Nat))
  BY NatLessThanWellFounded, WFMin
<1>2. \A y \in S : ~(y < x)
  BY <1>1 DEF OpToRel
<1> QED BY <1>2

LEMMA GreatestExists ==
  ASSUME NEW n \in Nat, NEW S \in SUBSET (1..n), S # {}
  PROVE  \E x \in S : \A y \in S : y <= x
<1> DEFINE B == {b \in Nat : \A y \in S : y <= b}
<1>1. B \subseteq Nat /\ n \in B
  OBVIOUS
<1>2. PICK m \in B : \A b \in B : m <= b
  <2> HIDE DEF B
  <2> QED BY <1>1, LeastExists
<1>3. ASSUME m \notin S PROVE FALSE
  <2>1. PICK y \in S : TRUE
    OBVIOUS
  <2>2. \A z \in S : z <= m /\ z # m /\ z \in Nat
    BY <1>2, <1>3
  <2>3. m > 0 /\ m - 1 \in Nat
    BY <1>2, <2>1, <2>2
  <2>4. m - 1 \in B
    BY <1>2, <2>2, <2>3
  <2> QED BY <1>2, <2>3, <2>4
<1> QED BY <1>2, <1>3

UserTyped == user \in [UserRows -> Users]
TokenTyped == token \in [TokenRows -> Tokens]

(* Get finds a row of the name, the live one if there is one.              *)
LEMMA GetFinds ==
  ASSUME NEW n, Get(n) # 0
  PROVE  /\ Get(n) \in UserRows /\ user[Get(n)].name = n
         /\ getLive(n) # {} => Get(n) \in LiveUsers
<1> DEFINE rows == {u \in UserRows : user[u].name = n}
           best == IF rows \cap LiveUsers # {} THEN rows \cap LiveUsers ELSE rows
<1>1. rows # {} /\ Get(n) = CHOOSE u \in best : \A v \in best : v <= u
  BY DEF Get
<1>2. best \in SUBSET (1..MaxUsers) /\ best # {} /\ best \subseteq rows
  BY <1>1 DEF UserRows
<1>3. \E u \in best : \A v \in best : v <= u
  BY <1>2, GreatestExists, IdentityConstants
<1>4. Get(n) \in best
  BY <1>1, <1>3
<1>5. getLive(n) # {} => Get(n) \in LiveUsers
  BY <1>4 DEF getLive, LiveUsers
<1> QED BY <1>2, <1>4, <1>5

LEMMA NextRowIsNatural ==
  ASSUME NEW rows, NEW n \in Nat
  PROVE  NextRow(rows, n) \in Nat /\ NextRow(rows, n) > 0
<1> DEFINE S == {i \in 1..n : rows[i].state # "none"}
<1>1. IsFiniteSet(1..n) /\ S \subseteq 1..n
  BY FS_Interval
<1>2. IsFiniteSet(S)
  BY <1>1, FS_Subset
<1>3. Cardinality(S) \in Nat
  BY <1>2, FS_CardinalityType
<1> HIDE DEF S
<1>4. NextRow(rows, n) = Cardinality(S) + 1
  BY DEF NextRow, S
<1> QED BY <1>3, <1>4

(***************************************************************************)
(* Identity: what is done to rows.                                         *)
(***************************************************************************)
(* The rows of users but u are as they were.                               *)
UserChanged(u) ==
  UserTyped' /\ u \in UserRows /\ \A v \in UserRows \ {u} : user'[v] = user[v]

Added(n) ==
  /\ getLive(n) = {}
  /\ \E u \in UserRows : /\ UserChanged(u) /\ user'[u].state = "active"
                         /\ user'[u].name = n /\ user'[u].totp = FALSE

LEMMA AddDoes ==
  ASSUME UserTyped, NEW by, NEW n \in Names, NEW role \in 0..Admin, NEW pw \in BOOLEAN,
         Add(by, n, role, pw)
  PROVE  Added(n)
<1>1. NextRow(user, MaxUsers) \in UserRows
  BY NextRowIsNatural, IdentityConstants DEF Add, UserRows
<1>2. PICK u \in UserRows : u = NextRow(user, MaxUsers)
  BY <1>1
<1>3. PICK v : v = [state |-> "active", name |-> n, role |-> role, password |-> pw, totp |-> FALSE]
  OBVIOUS
<1>4. v \in Users /\ v.state = "active" /\ v.name = n /\ v.totp = FALSE
  BY <1>3 DEF Users
<1>5. user' = [user EXCEPT ![u] = v] /\ getLive(n) = {}
  BY <1>2, <1>3 DEF Add
<1>6. UserChanged(u) /\ user'[u] = v
  BY <1>4, <1>5 DEF UserTyped, UserChanged
<1> QED BY <1>4, <1>5, <1>6 DEF Added

LEMMA SuspendDoes ==
  ASSUME UserTyped, NEW by, NEW n, Suspend(by, n)
  PROVE  /\ token' = token
         /\ \E u \in UserRows : /\ UserChanged(u) /\ user[u].state = "active"
                                /\ user'[u].state = "suspended" /\ user'[u].name = user[u].name
<1>1. PICK u \in UserRows : u = Get(n)
  BY GetFinds DEF Suspend, prepare
<1>2. user[u].state = "active"
  BY <1>1 DEF Suspend, prepare, Transition
<1>3. PICK v : v = [user[u] EXCEPT !.state = "suspended"]
  OBVIOUS
<1>4. v \in Users /\ v.state = "suspended" /\ v.name = user[u].name
  BY <1>3 DEF Users, UserTyped
<1>5. user' = [user EXCEPT ![u] = v] /\ token' = token
  BY <1>1, <1>3 DEF Suspend, UserTyped
<1>6. UserChanged(u) /\ user'[u] = v
  BY <1>4, <1>5 DEF UserTyped, UserChanged
<1> QED BY <1>2, <1>4, <1>5, <1>6

LEMMA DeleteDoes ==
  ASSUME UserTyped, TokenTyped, NEW by, NEW n, Delete(by, n)
  PROVE  /\ TokenTyped'
         /\ \E u \in UserRows :
              /\ UserChanged(u) /\ u \in LiveUsers /\ user'[u].state = "deleted"
              /\ user'[u].totp = FALSE /\ user'[u].name = user[u].name
              /\ \A t \in TokenRows :
                   /\ token'[t].user = token[t].user
                   /\ token[t].state = "none" <=> token'[t].state = "none"
                   /\ token'[t].state = "live" => token[t].state = "live" /\ token[t].user # u
<1>1. PICK u \in UserRows : u = Get(n)
  BY GetFinds DEF Delete, prepare
<1>2. user[u].state \in {"active", "suspended"}
  BY <1>1 DEF Delete, prepare, Transition
<1>3. PICK v : v = [user[u] EXCEPT !.state = "deleted", !.totp = FALSE]
  OBVIOUS
<1>4. v \in Users /\ v.state = "deleted" /\ v.totp = FALSE /\ v.name = user[u].name
  BY <1>3 DEF Users, UserTyped
<1>5. user' = [user EXCEPT ![u] = v]
  BY <1>1, <1>3 DEF Delete, UserTyped
<1>6. UserChanged(u) /\ user'[u] = v
  BY <1>4, <1>5 DEF UserTyped, UserChanged
<1>7. token' = [t \in TokenRows |-> IF token[t].state = "live" /\ token[t].user = u
                                      THEN [token[t] EXCEPT !.state = "revoked"] ELSE token[t]]
  BY <1>1 DEF Delete
<1>8. ASSUME NEW t \in TokenRows
      PROVE  /\ token'[t] \in Tokens /\ token'[t].user = token[t].user
             /\ token[t].state = "none" <=> token'[t].state = "none"
             /\ token'[t].state = "live" => token[t].state = "live" /\ token[t].user # u
  <2>1. token[t] \in Tokens
    BY DEF TokenTyped
  <2>2. PICK w : w = [token[t] EXCEPT !.state = "revoked"]
    OBVIOUS
  <2>3. w \in Tokens /\ w.user = token[t].user /\ w.state = "revoked"
    BY <2>1, <2>2 DEF Tokens
  <2>4. token'[t] = IF token[t].state = "live" /\ token[t].user = u THEN w ELSE token[t]
    BY <1>7, <2>2
  <2> QED BY <2>1, <2>3, <2>4
<1>9. TokenTyped'
  BY <1>7, <1>8 DEF TokenTyped
<1> QED BY <1>2, <1>4, <1>6, <1>8, <1>9 DEF LiveUsers

LEMMA EnrollDoes ==
  ASSUME UserTyped, NEW by, NEW n, Enroll(by, n)
  PROVE  /\ token' = token
         /\ \E u \in UserRows : /\ UserChanged(u) /\ user[u].state = "active"
                                /\ user'[u].state = "active" /\ user'[u].name = user[u].name
<1>1. PICK u \in UserRows : u = Get(n) /\ user[u].state = "active"
  BY GetFinds DEF Enroll
<1>3. PICK v : v = [user[u] EXCEPT !.totp = TRUE]
  OBVIOUS
<1>4. v \in Users /\ v.state = "active" /\ v.name = user[u].name
  BY <1>1, <1>3 DEF Users, UserTyped
<1>5. user' = [user EXCEPT ![u] = v] /\ token' = token
  BY <1>1, <1>3 DEF Enroll, UserTyped
<1>6. UserChanged(u) /\ user'[u] = v
  BY <1>4, <1>5 DEF UserTyped, UserChanged
<1> QED BY <1>1, <1>4, <1>5, <1>6

LEMMA MintTokenDoes ==
  ASSUME TokenTyped, NEW by, NEW n, NEW now \in Nat, NEW life \in Nat, MintToken(by, n, now, life)
  PROVE  /\ user' = user /\ TokenTyped'
         /\ \E t \in TokenRows : /\ \A s \in TokenRows \ {t} : token'[s] = token[s]
                                 /\ token'[t].user \in UserRows
                                 /\ user[token'[t].user].state = "active"
<1>1. NextRow(token, MaxTokens) \in TokenRows
  BY NextRowIsNatural, IdentityConstants DEF MintToken, TokenRows
<1>2. PICK t \in TokenRows : t = NextRow(token, MaxTokens)
  BY <1>1
<1>3. PICK u \in UserRows : u = Get(n) /\ user[u].state = "active"
  BY GetFinds DEF MintToken
<1>4. PICK v : v = [state |-> "live", user |-> u, exp |-> now + life]
  OBVIOUS
<1>5. v \in Tokens /\ v.user = u
  <2>1. u \in 0..MaxUsers /\ now + life \in Nat
    BY IdentityConstants DEF UserRows
  <2> QED BY <1>4, <2>1 DEF Tokens
<1>6. token' = [token EXCEPT ![t] = v] /\ user' = user
  BY <1>2, <1>3, <1>4 DEF MintToken
<1> QED BY <1>3, <1>5, <1>6 DEF TokenTyped

LEMMA RevokeTokenDoes ==
  ASSUME TokenTyped, NEW by, NEW t \in TokenRows, RevokeToken(by, t)
  PROVE  /\ user' = user /\ TokenTyped' /\ \A s \in TokenRows \ {t} : token'[s] = token[s]
         /\ token[t].state = "live" /\ token'[t].state = "revoked" /\ token'[t].user = token[t].user
<1>1. PICK v : v = [token[t] EXCEPT !.state = "revoked"]
  OBVIOUS
<1>2. v \in Tokens /\ v.state = "revoked" /\ v.user = token[t].user
  BY <1>1 DEF Tokens, TokenTyped
<1>3. token' = [token EXCEPT ![t] = v] /\ user' = user /\ token[t].state = "live"
  BY <1>1 DEF RevokeToken, TokenTyped
<1> QED BY <1>2, <1>3 DEF TokenTyped

(***************************************************************************)
(* Identity: rows, as an invariant.  Every verb is one of six changes, and *)
(* who asked for it does not matter here.                                  *)
(***************************************************************************)
TokenOwned(t) ==
  token[t].state # "none" => token[t].user \in UserRows /\ user[token[t].user].state # "none"
RowsOK ==
  /\ UserTyped /\ TokenTyped
  /\ \A t \in TokenRows : TokenOwned(t)
  /\ DeletedHoldsNothing /\ OneLiveName

RowStep ==
  \/ UNCHANGED <<user, token>>
  \/ \E by : \E n \in Names, role \in 0..Admin, pw \in BOOLEAN :
       Add(by, n, role, pw) /\ token' = token
  \/ \E by, n : Suspend(by, n) \/ Delete(by, n) \/ Enroll(by, n)
  \/ \E by, n : \E now \in Nat, life \in Nat : MintToken(by, n, now, life)
  \/ \E by : \E t \in TokenRows : RevokeToken(by, t)
RowsStay == \A u \in UserRows : user[u].state # "none" => user'[u].state # "none"

LEMMA RowStepKeeps ==
  ASSUME RowsOK, RowStep
  PROVE  RowsOK' /\ RowsStay
<1> USE DEF RowsOK
<1>1. CASE UNCHANGED <<user, token>>
  BY <1>1 DEF RowsStay, UserTyped, TokenTyped, TokenOwned, DeletedHoldsNothing, OneLiveName, LiveUsers
<1>2. ASSUME NEW by, NEW n \in Names, NEW role \in 0..Admin, NEW pw \in BOOLEAN,
             Add(by, n, role, pw), token' = token
      PROVE  RowsOK' /\ RowsStay
  <2>0. Added(n)
    BY <1>2, AddDoes
  <2>1. getLive(n) = {}
    BY <2>0 DEF Added
  <2>2. PICK u \in UserRows : /\ UserChanged(u) /\ user'[u].state = "active"
                              /\ user'[u].name = n /\ user'[u].totp = FALSE
    BY <2>0 DEF Added
  <2>3. RowsStay
    BY <2>2 DEF RowsStay, UserChanged
  <2>4. UserTyped' /\ TokenTyped' /\ \A t \in TokenRows : TokenOwned(t)'
    BY <1>2, <2>2 DEF UserChanged, TokenTyped, TokenOwned
  <2>5. DeletedHoldsNothing'
    BY <1>2, <2>2 DEF UserChanged, DeletedHoldsNothing
  <2>6. OneLiveName'
    <3>1. \A v \in LiveUsers' : v \in UserRows /\ (v # u => v \in LiveUsers /\ user'[v] = user[v])
      BY <2>2 DEF LiveUsers, UserChanged
    <3>2. \A v \in LiveUsers : user[v].name # n
      BY <2>1 DEF getLive
    <3> QED BY <2>2, <3>1, <3>2 DEF OneLiveName
  <2> QED BY <2>3, <2>4, <2>5, <2>6
<1>3. ASSUME NEW by, NEW n, Suspend(by, n) \/ Enroll(by, n) PROVE RowsOK' /\ RowsStay
  <2>1. token' = token
    BY <1>3, SuspendDoes, EnrollDoes
  <2>2. PICK u \in UserRows : /\ UserChanged(u) /\ user[u].state = "active"
                              /\ user'[u].state \in {"active", "suspended"}
                              /\ user'[u].name = user[u].name
    BY <1>3, SuspendDoes, EnrollDoes
  <2>3. RowsStay
    BY <2>2 DEF RowsStay, UserChanged
  <2>4. UserTyped' /\ TokenTyped' /\ \A t \in TokenRows : TokenOwned(t)'
    BY <2>1, <2>2 DEF UserChanged, TokenTyped, TokenOwned
  <2>5. DeletedHoldsNothing'
    BY <2>1, <2>2 DEF UserChanged, DeletedHoldsNothing
  <2>6. OneLiveName'
    <3>1. \A v \in LiveUsers' : v \in LiveUsers /\ user'[v].name = user[v].name
      BY <2>2 DEF LiveUsers, UserChanged
    <3> QED BY <3>1 DEF OneLiveName
  <2> QED BY <2>3, <2>4, <2>5, <2>6
<1>4. ASSUME NEW by, NEW n, Delete(by, n) PROVE RowsOK' /\ RowsStay
  <2>1. TokenTyped'
    BY <1>4, DeleteDoes
  <2>2. PICK u \in UserRows :
              /\ UserChanged(u) /\ u \in LiveUsers /\ user'[u].state = "deleted"
              /\ user'[u].totp = FALSE /\ user'[u].name = user[u].name
              /\ \A t \in TokenRows :
                   /\ token'[t].user = token[t].user
                   /\ token[t].state = "none" <=> token'[t].state = "none"
                   /\ token'[t].state = "live" => token[t].state = "live" /\ token[t].user # u
    BY <1>4, DeleteDoes
  <2>3. RowsStay
    BY <2>2 DEF RowsStay, UserChanged
  <2>4. UserTyped' /\ \A t \in TokenRows : TokenOwned(t)'
    BY <2>2 DEF UserChanged, TokenOwned
  <2>5. DeletedHoldsNothing'
    BY <2>2 DEF UserChanged, DeletedHoldsNothing
  <2>6. OneLiveName'
    <3>1. \A v \in LiveUsers' : v \in LiveUsers /\ user'[v].name = user[v].name
      BY <2>2 DEF LiveUsers, UserChanged
    <3> QED BY <3>1 DEF OneLiveName
  <2> QED BY <2>1, <2>3, <2>4, <2>5, <2>6
<1>5. ASSUME NEW by, NEW n, NEW now \in Nat, NEW life \in Nat, MintToken(by, n, now, life)
      PROVE  RowsOK' /\ RowsStay
  <2>1. user' = user /\ TokenTyped'
    BY <1>5, MintTokenDoes
  <2>2. PICK t \in TokenRows : /\ \A s \in TokenRows \ {t} : token'[s] = token[s]
                               /\ token'[t].user \in UserRows
                               /\ user[token'[t].user].state = "active"
    BY <1>5, MintTokenDoes
  <2>3. \A s \in TokenRows : TokenOwned(s)'
    BY <2>1, <2>2 DEF TokenOwned
  <2>4. DeletedHoldsNothing'
    BY <2>1, <2>2 DEF DeletedHoldsNothing
  <2> QED BY <2>1, <2>3, <2>4 DEF RowsStay, UserTyped, OneLiveName, LiveUsers
<1>6. ASSUME NEW by, NEW t \in TokenRows, RevokeToken(by, t) PROVE RowsOK' /\ RowsStay
  <2>1. /\ user' = user /\ TokenTyped' /\ \A s \in TokenRows \ {t} : token'[s] = token[s]
        /\ token[t].state = "live" /\ token'[t].state = "revoked" /\ token'[t].user = token[t].user
    BY <1>6, RevokeTokenDoes
  <2>2. \A s \in TokenRows : TokenOwned(s)'
    BY <2>1 DEF TokenOwned
  <2>3. DeletedHoldsNothing'
    BY <2>1 DEF DeletedHoldsNothing
  <2> QED BY <2>1, <2>2, <2>3 DEF RowsStay, UserTyped, OneLiveName, LiveUsers
<1> QED BY <1>1, <1>2, <1>3, <1>4, <1>5, <1>6 DEF RowStep

(***************************************************************************)
(* Identity: requests.  A request that changed speaks for nobody, or for   *)
(* an account that was active at that step.                                *)
(***************************************************************************)
Fresh(q) ==
  \/ q.user = 0 /\ (q.at = "verified" => ~q.ok)
  \/ q.user \in UserRows /\ user[q.user].state = "active"
ReqStep ==
  /\ req' \in [Requests -> Asked]
  /\ \A r \in Requests : req'[r] = req[r] \/ Fresh(req'[r])

AskOK(r) ==
  /\ req[r].user # 0 => req[r].user \in UserRows /\ user[req[r].user].state # "none"
  /\ req[r].at = "verified" /\ req[r].ok => req[r].user # 0
AsksOK == req \in [Requests -> Asked] /\ \A r \in Requests : AskOK(r)

LEMMA ReqStepKeeps ==
  ASSUME AsksOK, ReqStep, RowsStay
  PROVE  AsksOK'
<1>1. 0 \notin UserRows
  BY IdentityConstants DEF UserRows
<1>2. ASSUME NEW r \in Requests PROVE AskOK(r)'
  <2>1. CASE req'[r] = req[r]
    BY <2>1 DEF AskOK, AsksOK, RowsStay
  <2>2. CASE Fresh(req'[r])
    BY <1>1, <2>2 DEF AskOK, Fresh, RowsStay
  <2> QED BY <2>1, <2>2 DEF ReqStep
<1> QED BY <1>2 DEF AsksOK, ReqStep

LEMMA HoldDoes ==
  ASSUME AsksOK, NEW r \in Requests, NEW v \in Asked, Fresh(v), Hold(r, v)
  PROVE  ReqStep
BY DEF AsksOK, ReqStep, Hold

LEMMA IdleIsAsked == IdleRequest \in Asked /\ Fresh(IdleRequest)
<1>1. 0 \in 0..MaxUsers /\ 0 \in 0..Admin /\ 0 \in Nat
  BY IdentityConstants DEF Admin
<1>2. IdleRequest \in Asked
  BY <1>1 DEF IdleRequest, Asked
<1>3. IdleRequest.user = 0 /\ IdleRequest.at = "idle"
  BY DEF IdleRequest
<1> QED BY <1>2, <1>3 DEF Fresh

LEMMA FinishDoes ==
  ASSUME AsksOK, NEW r \in Requests, Finish(r)
  PROVE  ReqStep
BY IdleIsAsked, HoldDoes DEF Finish

LEMMA AskingIsAsked ==
  ASSUME NEW front \in {"api", "cli"}, NEW u \in 0..MaxUsers, NEW role \in 0..Admin,
         itime \in Nat, ceiling \in Nat
  PROVE  /\ Asking(front, u, role) \in Asked
         /\ Asking(front, u, role).user = u /\ Asking(front, u, role).at = front
BY DEF Asking, Asked

(***************************************************************************)
(* Identity: links, sessions, failed logins and clocks.                    *)
(***************************************************************************)
LinkOK ==
  /\ setup \in [link : 0..MaxLinks, made : 0..MaxLinks, exp : Nat]
  /\ redeemed \subseteq 1..setup.made /\ setup.link <= setup.made /\ LinkSpent
SessionsOK == sessions \subseteq [user : UserRows, exp : Nat]
LockHeld(a) == a.failures >= MaxFailures => a.until >= a.last
FailedOK == failed \in [Names \cup Addrs -> Attempts] /\ \A k \in Names \cup Addrs : LockHeld(failed[k])
TimesOK == ceiling \in Nat /\ itime \in Nat

SidesOK == LinkOK /\ SessionsOK /\ FailedOK /\ TimesOK
IdentityInv == RowsOK /\ AsksOK /\ SidesOK

(* What a step does, to be shown of each action.                           *)
IdentityMoves == RowStep /\ ReqStep /\ SidesOK'

LEMMA MovesKeep ==
  ASSUME IdentityInv, IdentityMoves
  PROVE  IdentityInv'
BY RowStepKeeps, ReqStepKeeps DEF IdentityInv, IdentityMoves

LEMMA SidesStay ==
  ASSUME SidesOK, UNCHANGED <<setup, redeemed, sessions, failed, itime>>, ceiling' \in Nat
  PROVE  SidesOK'
BY DEF SidesOK, LinkOK, LinkSpent, SessionsOK, FailedOK, TimesOK

LEMMA NoAttemptIsAttempt == NoAttempt \in Attempts /\ LockHeld(NoAttempt)
<1>1. NoAttempt \in Attempts
  BY DEF NoAttempt, Attempts
<1>2. NoAttempt.failures = 0
  BY DEF NoAttempt
<1> QED BY <1>1, <1>2, IdentityConstants DEF LockHeld

LEMMA FailLocks ==
  ASSUME NEW a \in Attempts, NEW now \in Nat
  PROVE  fail(a, now) \in Attempts /\ LockHeld(fail(a, now))
<1>1. a.failures \in Nat /\ a.last \in Int /\ a.until \in Int
  BY DEF Attempts
<1>2. PICK n \in Nat : n = IF a.last >= 0 /\ now - a.last > Window THEN 1 ELSE a.failures + 1
  BY <1>1
<1>3. PICK x \in Int : x = IF n >= MaxFailures /\ now > a.until THEN now + Lockout ELSE a.until
  BY <1>1, IdentityConstants
<1>4. fail(a, now) = [failures |-> n, last |-> now, until |-> x]
  BY <1>2, <1>3 DEF fail
<1>5. n >= MaxFailures => x >= now
  BY <1>1, <1>3, IdentityConstants
<1> QED BY <1>4, <1>5 DEF Attempts, LockHeld

LEMMA ForgetKeeps ==
  ASSUME FailedOK, failed' = forget(itime)
  PROVE  FailedOK'
<1>1. \A k \in Names \cup Addrs : failed'[k] \in {NoAttempt, failed[k]}
  BY DEF forget
<1>2. DOMAIN failed' = Names \cup Addrs /\ failed' = [k \in Names \cup Addrs |-> failed'[k]]
  BY DEF forget
<1> QED BY <1>1, <1>2, NoAttemptIsAttempt DEF FailedOK

-----------------------------------------------------------------------------
LEMMA MintSetupMoves ==
  ASSUME IdentityInv, MintSetup
  PROVE  IdentityMoves
<1>1. /\ setup.made < MaxLinks /\ UNCHANGED <<user, token, ceiling, redeemed, sessions, failed, req, itime>>
      /\ setup' = [link |-> setup.made + 1, made |-> setup.made + 1, exp |-> itime + SetupTTL]
  BY DEF MintSetup, memory
<1>2. setup.made \in 0..MaxLinks /\ redeemed \subseteq 1..setup.made /\ itime \in Nat
  BY DEF IdentityInv, SidesOK, LinkOK, TimesOK
<1>3. PICK k : k = setup.made + 1
  OBVIOUS
<1>4. k \in 0..MaxLinks /\ itime + SetupTTL \in Nat /\ redeemed \subseteq 1..k /\ k \notin redeemed
  BY <1>1, <1>2, <1>3, IdentityConstants
<1>5. setup'.link = k /\ setup'.made = k /\ setup' \in [link : 0..MaxLinks, made : 0..MaxLinks, exp : Nat]
  BY <1>1, <1>3, <1>4
<1>6. LinkOK'
  BY <1>1, <1>4, <1>5 DEF LinkOK, LinkSpent
<1> QED BY <1>1, <1>6 DEF IdentityInv, IdentityMoves, RowStep, ReqStep, AsksOK, SidesOK, SessionsOK, FailedOK, TimesOK

LEMMA RedeemSetupMoves ==
  ASSUME IdentityInv, NEW l \in 1..MaxLinks, NEW n \in Names, RedeemSetup(l, n)
  PROVE  IdentityMoves
<1>1. /\ setup.link = l /\ UNCHANGED <<token, ceiling, sessions, failed, req, itime>>
      /\ setup' = [setup EXCEPT !.link = 0, !.exp = 0] /\ redeemed' = redeemed \cup {l}
      /\ Add(Admin, n, Admin, TRUE)
  BY DEF RedeemSetup, memory
<1>2. /\ setup \in [link : 0..MaxLinks, made : 0..MaxLinks, exp : Nat]
      /\ redeemed \subseteq 1..setup.made /\ setup.link <= setup.made
  BY DEF IdentityInv, SidesOK, LinkOK
<1>3. setup'.link = 0 /\ setup'.made = setup.made /\ setup' \in [link : 0..MaxLinks, made : 0..MaxLinks, exp : Nat]
  <2>1. 0 \in 0..MaxLinks /\ 0 \in Nat
    BY IdentityConstants
  <2>2. setup' = [setup EXCEPT !.link = 0, !.exp = 0]
    BY <1>1
  <2> QED BY <1>2, <2>1, <2>2
<1>4. redeemed' \subseteq 1..setup.made /\ 0 \notin redeemed' /\ setup.made >= 0
  BY <1>1, <1>2
<1>5. LinkOK'
  BY <1>3, <1>4 DEF LinkOK, LinkSpent
<1>6. Admin \in 0..Admin /\ TRUE \in BOOLEAN
  BY DEF Admin
<1>7. \E by : \E m \in Names, role \in 0..Admin, pw \in BOOLEAN :
        Add(by, m, role, pw) /\ token' = token
  BY <1>1, <1>6, Zenon
<1>8. RowStep
  BY <1>7, Zenon DEF RowStep
<1> QED BY <1>1, <1>5, <1>8 DEF IdentityInv, IdentityMoves, ReqStep, AsksOK, SidesOK, SessionsOK, FailedOK, TimesOK

LEMMA LoginMoves ==
  ASSUME IdentityInv, NEW r \in Requests, NEW n \in Names, NEW a \in Addrs, NEW ok \in BOOLEAN,
         Login(r, n, a, ok)
  PROVE  IdentityMoves
<1>0. itime \in Nat /\ AsksOK
  BY DEF IdentityInv, SidesOK, TimesOK
<1>1. PICK v : v = [at |-> "login", user |-> 0, role |-> 0, now |-> itime, name |-> n,
                    addr |-> a, ok |-> ok, ceiling |-> 0]
  OBVIOUS
<1>2. /\ Hold(r, v) /\ failed' = forget(itime)
      /\ UNCHANGED <<user, token, setup, ceiling, redeemed, sessions, itime>>
  BY <1>1 DEF Login, dbState
<1>3. 0 \in 0..MaxUsers /\ 0 \in 0..Admin /\ 0 \in Nat
  BY IdentityConstants DEF Admin
<1>4. v \in Asked
  BY <1>0, <1>1, <1>3 DEF Asked
<1>5. v.user = 0 /\ v.at = "login"
  BY <1>1
<1>6. ReqStep
  BY <1>0, <1>2, <1>4, <1>5, HoldDoes DEF Fresh
<1>7. FailedOK'
  BY <1>2, ForgetKeeps DEF IdentityInv, SidesOK
<1> QED BY <1>2, <1>6, <1>7 DEF IdentityInv, IdentityMoves, RowStep, SidesOK, LinkOK, LinkSpent, SessionsOK, TimesOK

LEMMA VerifyMoves ==
  ASSUME IdentityInv, NEW r \in Requests, VerifyPassword(r)
  PROVE  IdentityMoves
<1>0. AsksOK /\ req[r] \in Asked
  BY DEF IdentityInv, AsksOK
<1>1. PICK u : u = Get(req[r].name)
  OBVIOUS
<1>2. PICK good \in BOOLEAN : good <=> (u # 0 /\ user[u].state = "active" /\ user[u].password /\ req[r].ok)
  OBVIOUS
<1>3. PICK w : w = IF good THEN u ELSE 0
  OBVIOUS
<1>4. good => u \in UserRows /\ user[u].state = "active"
  BY <1>1, <1>2, GetFinds
<1>5. w \in 0..MaxUsers
  BY <1>3, <1>4, IdentityConstants DEF UserRows
<1>6. PICK v : v = [req[r] EXCEPT !.at = "verified", !.ok = good, !.user = w]
  OBVIOUS
<1>7. v \in Asked /\ v.user = w /\ v.ok = good
  BY <1>0, <1>5, <1>6 DEF Asked
<1>8. Fresh(v)
  BY <1>3, <1>4, <1>7 DEF Fresh
<1>9. Hold(r, v) /\ UNCHANGED <<user, token, setup, ceiling, redeemed, sessions, failed, itime>>
  BY <1>1, <1>2, <1>3, <1>6 DEF VerifyPassword, dbState, memory
<1>10. ReqStep
  BY <1>0, <1>7, <1>8, <1>9, HoldDoes
<1> QED BY <1>9, <1>10, SidesStay DEF IdentityInv, IdentityMoves, RowStep, SidesOK, TimesOK

LEMMA LoginFailsMoves ==
  ASSUME IdentityInv, NEW r \in Requests, LoginFails(r)
  PROVE  IdentityMoves
<1>0. AsksOK /\ req[r].now \in Nat
  BY DEF IdentityInv, AsksOK, Asked
<1>1. /\ Finish(r) /\ UNCHANGED <<user, token, setup, ceiling, redeemed, sessions, itime>>
      /\ failed' = [k \in Names \cup Addrs |->
           IF k \in KeysFor(r) THEN fail(failed[k], req[r].now) ELSE failed[k]]
  BY DEF LoginFails, dbState
<1>2. ASSUME NEW k \in Names \cup Addrs PROVE failed'[k] \in Attempts /\ LockHeld(failed'[k])
  <2>1. failed[k] \in Attempts /\ LockHeld(failed[k])
    BY DEF IdentityInv, SidesOK, FailedOK
  <2>2. fail(failed[k], req[r].now) \in Attempts /\ LockHeld(fail(failed[k], req[r].now))
    BY <1>0, <2>1, FailLocks
  <2>3. failed'[k] = failed[k] \/ failed'[k] = fail(failed[k], req[r].now)
    BY <1>1
  <2> QED BY <2>1, <2>2, <2>3
<1>3. FailedOK'
  BY <1>1, <1>2 DEF FailedOK
<1> QED BY <1>0, <1>1, <1>3, FinishDoes DEF IdentityInv, IdentityMoves, RowStep, SidesOK, LinkOK, LinkSpent, SessionsOK, TimesOK

LEMMA LoginSucceedsMoves ==
  ASSUME IdentityInv, NEW r \in Requests, LoginSucceeds(r)
  PROVE  IdentityMoves
<1>0. AsksOK /\ AskOK(r) /\ itime + SessionTTL \in Nat
  BY IdentityConstants DEF IdentityInv, AsksOK, SidesOK, TimesOK
<1>1. /\ Finish(r) /\ UNCHANGED <<user, token, setup, ceiling, redeemed, itime>>
      /\ failed' = [failed EXCEPT ![req[r].name] = NoAttempt]
      /\ sessions' = createSession(req[r].user) /\ req[r].at = "verified" /\ req[r].ok
  BY DEF LoginSucceeds, dbState
<1>2. req[r].user \in UserRows
  BY <1>0, <1>1 DEF AskOK
<1>3. PICK s : s = [user |-> req[r].user, exp |-> itime + SessionTTL]
  OBVIOUS
<1>4. s \in [user : UserRows, exp : Nat]
  BY <1>0, <1>2, <1>3
<1>5. sessions' \subseteq sessions \cup {s}
  BY <1>1, <1>3 DEF createSession
<1>6. SessionsOK'
  BY <1>4, <1>5 DEF IdentityInv, SidesOK, SessionsOK
<1>7. FailedOK'
  BY <1>1, NoAttemptIsAttempt DEF IdentityInv, SidesOK, FailedOK
<1> QED BY <1>0, <1>1, <1>6, <1>7, FinishDoes DEF IdentityInv, IdentityMoves, RowStep, SidesOK, LinkOK, LinkSpent, TimesOK

LEMMA LogoutMoves ==
  ASSUME IdentityInv, NEW s, Logout(s)
  PROVE  IdentityMoves
<1>1. sessions' = sessions \ {s} /\ UNCHANGED <<user, token, setup, ceiling, redeemed, failed, req, itime>>
  BY DEF Logout, dbState
<1> QED BY <1>1 DEF IdentityInv, IdentityMoves, RowStep, ReqStep, AsksOK, SidesOK, LinkOK, LinkSpent, SessionsOK, FailedOK, TimesOK

(* A credential was read: the request speaks for an active account.        *)
LEMMA AsDoes ==
  ASSUME IdentityInv, NEW r \in Requests, NEW front \in {"api", "cli"}, NEW u \in UserRows,
         user[u].state = "active", As(r, front, u)
  PROVE  ReqStep
<1>1. user[u].role \in 0..Admin /\ u \in 0..MaxUsers
  <2>1. user[u] \in Users
    BY DEF IdentityInv, RowsOK, UserTyped
  <2>2. u \in 0..MaxUsers
    BY IdentityConstants DEF UserRows
  <2> QED BY <2>1, <2>2 DEF Users
<1>2. PICK v : v = Asking(front, u, user[u].role)
  OBVIOUS
<1>3. v \in Asked /\ v.user = u
  BY <1>1, <1>2, AskingIsAsked DEF IdentityInv, SidesOK, TimesOK
<1>4. Hold(r, v)
  BY <1>2 DEF As
<1> QED BY <1>3, <1>4, HoldDoes DEF Fresh, IdentityInv

LEMMA BearerMoves ==
  ASSUME IdentityInv, NEW r \in Requests, NEW t \in TokenRows, NEW front \in {"api", "cli"},
         BearerRequest(r, t, front)
  PROVE  IdentityMoves
<1>1. /\ As(r, front, token[t].user) /\ UNCHANGED <<user, token, setup, ceiling, redeemed, sessions, failed, itime>>
      /\ token[t].state = "live" /\ user[token[t].user].state = "active"
  BY DEF BearerRequest, Authenticates, dbState, memory
<1>2. token[t].user \in UserRows
  BY <1>1 DEF IdentityInv, RowsOK, TokenOwned
<1>3. ReqStep
  BY <1>1, <1>2, AsDoes
<1> QED BY <1>1, <1>3, SidesStay DEF IdentityInv, IdentityMoves, RowStep, SidesOK, TimesOK

LEMMA LocalMoves ==
  ASSUME IdentityInv, NEW r \in Requests, LocalRequest(r)
  PROVE  IdentityMoves
<1>1. /\ Hold(r, Asking("cli", 0, Admin))
      /\ UNCHANGED <<user, token, setup, ceiling, redeemed, sessions, failed, itime>>
  BY DEF LocalRequest, dbState, memory
<1>2. 0 \in 0..MaxUsers /\ Admin \in 0..Admin
  BY IdentityConstants DEF Admin
<1>3. PICK v : v = Asking("cli", 0, Admin)
  OBVIOUS
<1>4. v \in Asked /\ v.user = 0 /\ v.at = "cli"
  <2>1. PICK z \in 0..MaxUsers, k \in 0..Admin : z = 0 /\ k = Admin
    BY <1>2
  <2>2. v = [at |-> "cli", user |-> z, role |-> k, now |-> itime, name |-> "", addr |-> "",
             ok |-> FALSE, ceiling |-> ceiling]
    BY <1>3, <2>1 DEF Asking
  <2>3. itime \in Nat /\ ceiling \in Nat
    BY DEF IdentityInv, SidesOK, TimesOK
  <2>4. v \in Asked
    BY <2>2, <2>3 DEF Asked
  <2>5. v.user = z /\ v.at = "cli"
    BY <2>2
  <2> QED BY <2>1, <2>4, <2>5
<1>5. ReqStep
  BY <1>1, <1>3, <1>4, HoldDoes DEF Fresh, IdentityInv
<1> QED BY <1>1, <1>5, SidesStay DEF IdentityInv, IdentityMoves, RowStep, SidesOK, TimesOK

LEMMA CookieMoves ==
  ASSUME IdentityInv, NEW r \in Requests, NEW s \in sessions, CookieRequest(r, s)
  PROVE  IdentityMoves
<1>1. UNCHANGED <<user, token, setup, ceiling, redeemed, failed, itime>>
  BY DEF CookieRequest, dbState
<1>2. sessions' \subseteq sessions
  BY DEF CookieRequest
<1>3. SidesOK'
  BY <1>1, <1>2 DEF IdentityInv, SidesOK, LinkOK, LinkSpent, SessionsOK, FailedOK, TimesOK
<1>4. CASE req' = req
  BY <1>1, <1>3, <1>4 DEF IdentityInv, IdentityMoves, RowStep, ReqStep, AsksOK
<1>5. CASE As(r, "api", s.user) /\ user[s.user].state = "active"
  <2>1. s.user \in UserRows
    BY DEF IdentityInv, SidesOK, SessionsOK
  <2>2. ReqStep
    BY <1>5, <2>1, AsDoes
  <2> QED BY <1>1, <1>3, <2>2 DEF IdentityMoves, RowStep
<1> QED BY <1>4, <1>5 DEF CookieRequest

(* What a request does, in its transaction.                                *)
LEMMA DoesMoves ==
  ASSUME IdentityInv, NEW r \in Requests, Finish(r), RowStep,
         UNCHANGED <<setup, redeemed, sessions, failed, itime>>, ceiling' \in Nat
  PROVE  IdentityMoves
BY FinishDoes, SidesStay DEF IdentityInv, IdentityMoves

LEMMA AddRowStep ==
  ASSUME NEW by, NEW n \in Names, NEW role \in Granted, Add(by, n, role, FALSE), token' = token
  PROVE  RowStep
<1>1. role \in 0..Admin /\ FALSE \in BOOLEAN
  BY IdentityConstants
<1>2. \E b : \E m \in Names, k \in 0..Admin, pw \in BOOLEAN : Add(b, m, k, pw) /\ token' = token
  BY <1>1, Zenon
<1> QED BY <1>2, Zenon DEF RowStep

LEMMA MintRowStep ==
  ASSUME NEW by, NEW n, NEW now \in Nat, NEW life \in Lifetimes, MintToken(by, n, now, life)
  PROVE  RowStep
<1>1. life \in Nat
  BY IdentityConstants DEF Lifetimes
<1> QED BY <1>1, Zenon DEF RowStep

LEMMA VerbMoves ==
  ASSUME IdentityInv, NEW r \in Requests, NEW n \in Names,
         \/ patchUser(r, n) \/ deleteUser(r, n) \/ cmdUserState(r, n) \/ cmdUserTOTP(r, n)
         \/ \E k \in Granted : createUser(r, n, k) \/ cmdUserAdd(r, n, k)
         \/ \E life \in Lifetimes : createToken(r, n, life) \/ cmdTokenCreate(r, n, life)
  PROVE  IdentityMoves
<1>0. ceiling \in Nat /\ itime \in Nat /\ req[r].now \in Nat
  BY DEF IdentityInv, SidesOK, TimesOK, AsksOK, Asked
<1>1. /\ Finish(r) /\ UNCHANGED <<setup, redeemed, sessions, failed, itime, ceiling>>
  BY DEF patchUser, deleteUser, cmdUserState, cmdUserTOTP, createUser, cmdUserAdd, createToken,
         cmdTokenCreate, Does, memory
<1>2. RowStep
  <2>1. CASE \E by : Suspend(by, n) \/ Delete(by, n) \/ Enroll(by, n)
    BY <2>1, Zenon DEF RowStep
  <2>2. ASSUME NEW k \in Granted, createUser(r, n, k) \/ cmdUserAdd(r, n, k) PROVE RowStep
    <3>1. Add(req[r].role, n, k, FALSE) /\ token' = token
      BY <2>2 DEF createUser, cmdUserAdd
    <3> QED BY <3>1, AddRowStep
  <2>3. ASSUME NEW life \in Lifetimes, createToken(r, n, life) \/ cmdTokenCreate(r, n, life)
        PROVE  RowStep
    <3>1. MintToken(req[r].role, n, itime, life) \/ MintToken(req[r].role, n, req[r].now, life)
      BY <2>3 DEF createToken, cmdTokenCreate
    <3> QED BY <1>0, <3>1, MintRowStep
  <2> QED BY <2>1, <2>2, <2>3 DEF patchUser, deleteUser, cmdUserState, cmdUserTOTP
<1> QED BY <1>0, <1>1, <1>2, DoesMoves

LEMMA RevokeMoves ==
  ASSUME IdentityInv, NEW r \in Requests, NEW t \in TokenRows, revokeToken(r, t) \/ cmdTokenRevoke(r, t)
  PROVE  IdentityMoves
<1>0. ceiling \in Nat
  BY DEF IdentityInv, SidesOK, TimesOK
<1>1. /\ Finish(r) /\ UNCHANGED <<setup, redeemed, sessions, failed, itime, ceiling>>
      /\ RevokeToken(req[r].role, t)
  BY DEF revokeToken, cmdTokenRevoke, Does, memory
<1>2. RowStep
  BY <1>1, Zenon DEF RowStep
<1> QED BY <1>0, <1>1, <1>2, DoesMoves

LEMMA RefusedMoves ==
  ASSUME IdentityInv, NEW r \in Requests, Refused(r) \/ SwapProfile(r)
  PROVE  IdentityMoves
<1>1. /\ Finish(r) /\ UNCHANGED <<user, token, setup, redeemed, sessions, failed, itime>>
  BY DEF Refused, SwapProfile, dbState, memory
<1>2. ceiling' \in Nat
  BY IdentityConstants DEF Refused, SwapProfile, dbState, IdentityInv, SidesOK, TimesOK
<1>3. RowStep
  BY <1>1 DEF RowStep
<1> QED BY <1>1, <1>2, <1>3, DoesMoves

LEMMA RestartMoves ==
  ASSUME IdentityInv, RestartServer
  PROVE  IdentityMoves
<1>1. /\ sessions' = {} /\ failed' = [k \in Names \cup Addrs |-> NoAttempt]
      /\ UNCHANGED <<user, token, setup, ceiling, redeemed, itime>>
      /\ req' = [r \in Requests |-> IF req[r].at = "cli" THEN req[r] ELSE IdleRequest]
  BY DEF RestartServer, dbState
<1>2. ReqStep
  BY <1>1, IdleIsAsked DEF IdentityInv, AsksOK, ReqStep
<1>3. FailedOK' /\ SessionsOK'
  BY <1>1, NoAttemptIsAttempt DEF FailedOK, SessionsOK
<1> QED BY <1>1, <1>2, <1>3 DEF IdentityInv, IdentityMoves, RowStep, SidesOK, LinkOK, LinkSpent, TimesOK

LEMMA IdentityTickMoves ==
  ASSUME IdentityInv, IdentityTick \/ UNCHANGED identityVars
  PROVE  IdentityMoves
<1>1. UNCHANGED <<user, token, setup, ceiling, redeemed, sessions, failed, req>>
  BY DEF IdentityTick, identityVars, dbState, memory
<1>2. itime' \in Nat
  BY DEF IdentityTick, identityVars, IdentityInv, SidesOK, TimesOK
<1> QED BY <1>1, <1>2 DEF IdentityInv, IdentityMoves, RowStep, ReqStep, AsksOK, SidesOK, LinkOK, LinkSpent, SessionsOK, FailedOK, TimesOK

LEMMA IdentityStepMoves ==
  ASSUME IdentityInv, [IdentityNext]_identityVars
  PROVE  IdentityMoves
<1>1. CASE LoginNext
  <2>1. ASSUME NEW r \in Requests, NEW n \in Names, NEW a \in Addrs, NEW ok \in BOOLEAN, Login(r, n, a, ok)
        PROVE  IdentityMoves
    BY <2>1, LoginMoves
  <2>2. ASSUME NEW r \in Requests, VerifyPassword(r) \/ LoginFails(r) \/ LoginSucceeds(r)
        PROVE  IdentityMoves
    BY <2>2, VerifyMoves, LoginFailsMoves, LoginSucceedsMoves
  <2>3. ASSUME NEW l \in 1..MaxLinks, NEW n \in Names, RedeemSetup(l, n) PROVE IdentityMoves
    BY <2>3, RedeemSetupMoves
  <2>4. CASE RestartServer \/ IdentityTick \/ MintSetup
    BY <2>4, RestartMoves, IdentityTickMoves, MintSetupMoves
  <2> QED BY <1>1, <2>1, <2>2, <2>3, <2>4, Zenon DEF LoginNext
<1>2. CASE RequestNext
  <2>1. ASSUME NEW s \in sessions, Logout(s) PROVE IdentityMoves
    BY <2>1, LogoutMoves
  <2>2. ASSUME NEW r \in Requests, NEW t \in TokenRows, NEW front \in {"api", "cli"},
               BearerRequest(r, t, front)
        PROVE  IdentityMoves
    BY <2>2, BearerMoves
  <2>3. ASSUME NEW r \in Requests, NEW s \in sessions, CookieRequest(r, s) PROVE IdentityMoves
    BY <2>3, CookieMoves
  <2>4. ASSUME NEW r \in Requests, LocalRequest(r) \/ Refused(r) \/ SwapProfile(r) PROVE IdentityMoves
    BY <2>4, LocalMoves, RefusedMoves
  <2>5. ASSUME NEW r \in Requests, NEW n \in Names,
               \/ patchUser(r, n) \/ deleteUser(r, n) \/ cmdUserState(r, n) \/ cmdUserTOTP(r, n)
               \/ \E k \in Granted : createUser(r, n, k) \/ cmdUserAdd(r, n, k)
               \/ \E life \in Lifetimes : createToken(r, n, life) \/ cmdTokenCreate(r, n, life)
        PROVE  IdentityMoves
    BY <2>5, VerbMoves
  <2>6. ASSUME NEW r \in Requests, NEW t \in TokenRows, revokeToken(r, t) \/ cmdTokenRevoke(r, t)
        PROVE  IdentityMoves
    BY <2>6, RevokeMoves
  <2> QED BY <1>2, <2>1, <2>2, <2>3, <2>4, <2>5, <2>6, Zenon DEF RequestNext
<1>3. CASE UNCHANGED identityVars
  BY <1>3, IdentityTickMoves
<1> QED BY <1>1, <1>2, <1>3 DEF IdentityNext

LEMMA IdentityInvInit ==
  ASSUME IdentityInit
  PROVE  IdentityInv
<1>1. \A u \in UserRows : user[u] = NoUser
  BY DEF IdentityInit
<1>2. NoUser \in Users /\ NoUser.state = "none"
  <2>1. 0 \in 0..Admin
    BY DEF Admin
  <2> QED BY <2>1 DEF NoUser, Users
<1>3. UserTyped
  BY <1>2 DEF IdentityInit, UserTyped
<1>4. NoToken \in Tokens /\ NoToken.state = "none"
  <2>1. 0 \in 0..MaxUsers /\ 0 \in Nat
    BY IdentityConstants
  <2> QED BY <2>1 DEF NoToken, Tokens
<1>5. TokenTyped /\ \A t \in TokenRows : token[t] = NoToken
  BY <1>4 DEF IdentityInit, TokenTyped
<1>6. RowsOK
  BY <1>1, <1>2, <1>3, <1>4, <1>5 DEF RowsOK, TokenOwned, DeletedHoldsNothing, OneLiveName, LiveUsers
<1>7. AsksOK
  <2>1. IdleRequest.user = 0 /\ IdleRequest.at = "idle"
    BY DEF IdleRequest
  <2> QED BY <2>1, IdleIsAsked DEF IdentityInit, AsksOK, AskOK
<1>8. LinkOK
  <2>1. 0 \in 0..MaxLinks
    BY IdentityConstants
  <2>2. setup = [link |-> 0, made |-> 0, exp |-> 0] /\ redeemed = {}
    BY DEF IdentityInit
  <2> QED BY <2>1, <2>2 DEF LinkOK, LinkSpent
<1>9. FailedOK /\ SessionsOK
  BY NoAttemptIsAttempt DEF IdentityInit, FailedOK, SessionsOK
<1>10. TimesOK
  BY IdentityConstants DEF IdentityInit, TimesOK
<1> QED BY <1>6, <1>7, <1>8, <1>9, <1>10 DEF IdentityInv, SidesOK

LEMMA IdentityInvariant == IdentitySpec => []IdentityInv
<1>1. IdentityInit => IdentityInv
  BY IdentityInvInit
<1>2. IdentityInv /\ [IdentityNext]_identityVars => IdentityInv'
  BY IdentityStepMoves, MovesKeep
<1> QED BY <1>1, <1>2, PTL DEF IdentitySpec

(* The tables, the sessions, the failed logins and the requests under way  *)
(* are well formed, and a token, a session and a request speak for a row   *)
(* that exists (IdentityTypeOK).                                           *)
THEOREM IdentityTypeCorrect == IdentitySpec => []IdentityTypeOK
<1>1. ASSUME IdentityInv PROVE IdentityTypeOK
  <2>1. UserTyped /\ TokenTyped /\ AsksOK /\ LinkOK /\ SessionsOK /\ FailedOK /\ TimesOK
    BY <1>1 DEF IdentityInv, RowsOK, SidesOK
  <2>2. redeemed \subseteq 1..MaxLinks
    <3>1. redeemed \subseteq 1..setup.made /\ setup.made \in 0..MaxLinks
      BY <2>1 DEF LinkOK
    <3> QED BY <3>1, IdentityConstants
  <2>3. /\ \A t \in TokenRows : token[t].state # "none" => user[token[t].user].state # "none"
        /\ \A r \in Requests : req[r].user # 0 => user[req[r].user].state # "none"
    BY <1>1 DEF IdentityInv, RowsOK, TokenOwned, AsksOK, AskOK
  <2> QED BY <2>1, <2>2, <2>3
          DEF IdentityTypeOK, UserTyped, TokenTyped, AsksOK, LinkOK, SessionsOK, FailedOK, TimesOK
<1> QED BY <1>1, IdentityInvariant, PTL

(* A deleted account holds no token and no seed, a name has one live       *)
(* account and a setup link makes one account (AccountsSound), for any     *)
(* number of requests of both front ends between whose two steps anything  *)
(* may happen.                                                             *)
THEOREM AccountsAreSound == IdentitySpec => []AccountsSound
<1>1. IdentityInv => AccountsSound
  BY DEF IdentityInv, RowsOK, SidesOK, LinkOK, AccountsSound
<1> QED BY <1>1, IdentityInvariant, PTL

(* The lockout reaches the last failure counted (LockoutCovers), though    *)
(* attempts count in any order and with the time they began.               *)
THEOREM LockoutReaches == IdentitySpec => []LockoutCovers
<1>1. IdentityInv => LockoutCovers
  BY DEF IdentityInv, SidesOK, FailedOK, LockHeld, LockoutCovers
<1> QED BY <1>1, IdentityInvariant, PTL

(* A suspended or deleted account is carried by no new request, whichever  *)
(* credential it comes with (SuspensionHolds).                             *)
THEOREM SuspensionIsFinal == IdentitySpec => SuspensionHolds
<1> DEFINE Ends == \A u \in UserRows : user[u].state \in {"suspended", "deleted"} =>
                     Carrying(u)' \subseteq Carrying(u)
<1>1. ASSUME IdentityInv, [IdentityNext]_identityVars PROVE Ends
  <2>1. ReqStep
    BY <1>1, IdentityStepMoves DEF IdentityMoves
  <2>2. 0 \notin UserRows
    BY IdentityConstants DEF UserRows
  <2>3. ASSUME NEW u \in UserRows, user[u].state \in {"suspended", "deleted"},
               NEW r \in Requests, req'[r].at \in {"api", "cli"}, req'[r].user = u
        PROVE  req[r].at \in {"api", "cli"} /\ req[r].user = u
    BY <2>1, <2>2, <2>3 DEF ReqStep, Fresh
  <2> QED BY <2>3 DEF Carrying
<1>2. IdentityInv /\ [IdentityNext]_identityVars => [Ends]_identityVars
  BY <1>1
<1> QED BY <1>2, IdentityInvariant, PTL DEF IdentitySpec, SuspensionHolds
=============================================================================
