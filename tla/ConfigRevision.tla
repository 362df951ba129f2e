--------------------------- MODULE ConfigRevision ---------------------------
(***************************************************************************)
(* The configuration: the tables an operator owns, the document applied to *)
(* them in one transaction, and the revision every change leaves behind    *)
(* (internal/config, the routes of internal/api that call it, and the      *)
(* verbs config, model, route, limits and policy of internal/cli).         *)
(*                                                                         *)
(* A document is a snapshot: an operator exports one, edits it and sends   *)
(* it back later, sends back an old one (rollback), or sends a part of one *)
(* (model register).  Two operators work at a time, and only the           *)
(* transaction is atomic.  A string, a digest and a descriptor's body are  *)
(* members of small sets; what a document may say is Edits.                *)
(***************************************************************************)
EXTENDS Integers, Sequences, FiniteSets

CONSTANTS
  Operators,
  CNodes,         \* names of nodes
  CModels,
  CDeps,          \* deployments, numbered in the order of their ids
  CRoutes,
  Builtins,       \* backends of the binary
  Registered,     \* names of backends that may be registered
  Profiles,
  Origins,
  CCards, CPorts,
  RunsOn,         \* <<backend, node>>: the descriptor's silicon has the node's
  Reads,          \* <<backend, model>>: the layout is that of the model's weights
  CustomAllowed,  \* profiles with allow_custom_backends
  Denied,         \* <<profile, origin>>: DeniesOrigin
  First,          \* the configuration of the first revision
  MaxRevisions,   \* bound: revisions recorded
  MaxEdits        \* bound: edits of a document before it is sent

ASSUME ConfigAssumption ==
  /\ {MaxRevisions, MaxEdits} \subseteq Nat
  /\ CDeps \subseteq Int /\ CPorts \subseteq Nat \ {0}
  /\ Builtins \cap Registered = {} /\ "" \notin Profiles

VARIABLES
  cfg,     \* node, model, deployment, deployment_gpu, route, limits, backend, policy
  grants,  \* table user_route: <<row of the user, route>>
  rows,    \* users of the one name: the last is live, those before it deleted
  extra,   \* rows that name a deployment (restart) or a model (staging, stage_reset),
           \* and the nodes that have a departed_at
  revs,    \* table revision
  draft,   \* an operator's document or route, and the ETag read with it
  told     \* history: members operators were told a route has, and nobody took out

configVars == <<cfg, grants, rows, extra, revs, draft, told>>

NodeStates == {"none", "pending", "approved", "draining", "departed"}
Backends == Builtins \cup Registered
NoModel == [in |-> FALSE, backend |-> "", origin |-> ""]
NoDep == [in |-> FALSE, model |-> "", node |-> "", backend |-> "", cards |-> {}, port |-> 0,
          off |-> FALSE]
NoRoute == [in |-> FALSE, members |-> {}]
ModelRows == {NoModel} \cup [in : {TRUE}, backend : Backends, origin : Origins]
DepRows == {NoDep} \cup [in : {TRUE}, model : CModels, node : CNodes, backend : Backends,
                         cards : SUBSET CCards, port : {0} \cup CPorts, off : BOOLEAN]
RouteRows == {NoRoute} \cup [in : {TRUE}, members : SUBSET CDeps]

(* A document, and a snapshot of the tables, which names its profile.      *)
(* "none" is a descriptor that is not registered, else the dialect its     *)
(* body declares.                                                          *)
Documents ==
  [nodes : [CNodes -> NodeStates], models : [CModels -> ModelRows], deps : [CDeps -> DepRows],
   routes : [CRoutes -> RouteRows], limit : 0..1,
   backends : [Registered -> {"none", "openai", "other"}],
   policy : Profiles \cup {""}, grants : SUBSET CRoutes]
Snapshots == {s \in Documents : s.policy \in Profiles}

NoSnap == [nodes |-> [n \in CNodes |-> "none"], models |-> [m \in CModels |-> NoModel],
           deps |-> [d \in CDeps |-> NoDep], routes |-> [r \in CRoutes |-> NoRoute],
           limit |-> 0, backends |-> [b \in Registered |-> "none"],
           policy |-> "", grants |-> {}]
Idle == [at |-> "idle", kind |-> "", doc |-> NoSnap, etag |-> 0, edits |-> 0,
         route |-> "", members |-> {}, add |-> {}, del |-> {}]

(* readGrants joins on the user's row and gives its name.                  *)
readGrants == {r \in CRoutes : \E u \in 1..rows : <<u, r>> \in grants}

Read == [cfg EXCEPT !.grants = readGrants]

Drafts ==
  [at : {"idle", "read", "stamped"}, kind : {"", "doc", "route"}, doc : Documents, etag : Nat,
   edits : Nat, route : CRoutes \cup {""}, members : SUBSET CDeps, add : SUBSET CDeps,
   del : SUBSET CDeps]

ConfigTypeOK ==
  /\ cfg \in Snapshots /\ grants \subseteq (1..rows) \X CRoutes /\ rows \in 1..2
  /\ extra \in [restart : SUBSET CDeps, staging : SUBSET CModels, departed : SUBSET CNodes]
  /\ revs \in Seq([seq : Nat, prev : Nat, snap : Snapshots, of : Nat])
  /\ draft \in [Operators -> Drafts]
  /\ told \in [CRoutes -> SUBSET CDeps]

-----------------------------------------------------------------------------
(* internal/config/revision.go.  A hash is the number of the revision it   *)
(* is the hash of: two revisions never hash alike.                         *)

LatestSeqBehind == Len(revs) - 1

LatestSeq == Len(revs)

RecordDropsRow(of) == UNCHANGED revs

(* Record reads the tables inside the transaction, after what it records.  *)
Record(of) ==
  /\ Len(revs) < MaxRevisions
  /\ revs' = Append(revs, [seq |-> LatestSeq + 1, prev |-> LatestSeq, snap |-> Read', of |-> of])

(* Get: a revision by its number.                                          *)
Get(k) == revs[k].snap

(* Verify: the sequence has no hole, and each revision follows the last.   *)
Verify == \A i \in DOMAIN revs : revs[i].seq = i /\ revs[i].prev = i - 1

-----------------------------------------------------------------------------
(* internal/config/apply.go: have is the tables, want the document.        *)

(* An upsert: what the document names is taken from it, row by row.        *)
Merge(have, want) == [x \in DOMAIN have |-> IF want[x].in THEN want[x] ELSE have[x]]

(* BackendFor: the binary's descriptors, then the registered ones.         *)
BackendFor(bs, b) == CASE b \in Builtins -> "openai"
                       [] b \in Registered -> bs[b]
                       [] OTHER -> "none"

checkPolicy(want) == want.policy \in {"", cfg.policy}

(* A registered descriptor of the document is held to the profile in       *)
(* force, each time a document names it.                                   *)
applyBackends(want) ==
  \A b \in Registered : want.backends[b] # "none" => cfg.policy \in CustomAllowed

MergedBackends(want) ==
  [b \in Registered |-> IF want.backends[b] # "none" THEN want.backends[b] ELSE cfg.backends[b]]

checkOriginAlways(m, row) == TRUE

(* checkOrigin: only a new model, or one whose declared origin moved.      *)
checkOrigin(m, row) ==
  \/ cfg.models[m].in /\ cfg.models[m].origin = row.origin
  \/ <<cfg.policy, row.origin>> \notin Denied

checkArtifact(bs, m, row) == BackendFor(bs, row.backend) # "none" => <<row.backend, m>> \in Reads

applyModels(want, bs) ==
  \A m \in CModels : want.models[m].in =>
     checkArtifact(bs, m, want.models[m]) /\ checkOrigin(m, want.models[m])

(* checkCapabilities says nothing of a backend it does not know.           *)
checkCapabilities(bs, row) ==
  BackendFor(bs, row.backend) # "none" => <<row.backend, row.node>> \in RunsOn

ClaimUnchecked(d, want) == TRUE

(* deployment_gpu_exclusive, as the rows are claimed one deployment at a   *)
(* time in the document's order: one that comes later, or that the         *)
(* document does not name, still has its old cards.                        *)
Claim(d, want) ==
  \A e \in CDeps \ {d} :
     LET held == IF e < d /\ want.deps[e].in THEN want.deps[e] ELSE cfg.deps[e]
     IN  held.node = want.deps[d].node => held.cards \cap want.deps[d].cards = {}

checkPortsNothing(want, deps) == TRUE

(* checkPorts: a deployment of the document, against every row.            *)
checkPorts(want, deps) ==
  \A d \in CDeps : want.deps[d].in /\ want.deps[d].port > 0 =>
     \A e \in CDeps \ {d} : ~(deps[e].node = want.deps[d].node /\ deps[e].port = want.deps[d].port)

applyDeployments(want, models, deps, bs) ==
  /\ \A d \in CDeps : want.deps[d].in =>
        /\ models[want.deps[d].model].in
        /\ cfg.nodes[want.deps[d].node] # "none"
        /\ checkCapabilities(bs, want.deps[d])
        /\ Claim(d, want)
  /\ checkPorts(want, deps)

(* A member has to be a deployment, and a grant a route, of the tables or  *)
(* of this document.                                                       *)
applyRoutes(want, deps) ==
  \A r \in CRoutes : want.routes[r].in => \A d \in want.routes[r].members : deps[d].in

applyLimitsKeeps(want, p) == IF want.limit > 0 THEN want.limit ELSE cfg.limit

applyLimits(want, p) == IF want.limit > 0 \/ p THEN want.limit ELSE cfg.limit

(* applyGrants: each name is looked up without an order, and may find any  *)
(* row of that name; so may the statement that removes one.                *)
applyGrants(want, prune, u) ==
  LET gone == IF prune THEN readGrants \ want.grants ELSE {}
  IN  (grants \cup {<<u, r>> : r \in want.grants}) \ {<<u, r>> : r \in gone}

(* prune: a row the document does not name goes, and with it the rows that *)
(* point at it.  A model goes only if no deployment that stays is of it.   *)
prune(have, want, p) == IF p THEN want ELSE have

pruneBackendsBlind(want, p, deps) == TRUE

(* pruneBackends: not one that a deployment still uses.                    *)
pruneBackends(want, p, deps) ==
  p => \A b \in Registered : cfg.backends[b] # "none" /\ want.backends[b] = "none" =>
          \A d \in CDeps : deps[d].backend # b

checkRouteDialectsBefore(routes, deps, bs) ==
  \A r \in CRoutes : \A d \in routes[r].members : BackendFor(cfg.backends, deps[d].backend) # "other"

(* checkRouteDialects, over every member of every route there is.          *)
checkRouteDialects(routes, deps, bs) ==
  \A r \in CRoutes : \A d \in routes[r].members : BackendFor(bs, deps[d].backend) # "other"

DependentsNothing(routes, left) == routes

(* A deployment that goes takes its members with it (ON DELETE CASCADE).   *)
Dependents(routes, left) ==
  [r \in CRoutes |-> [routes[r] EXCEPT !.members = {d \in @ : left[d].in}]]

(* Apply: the tables after a document, if nothing in it is refused.        *)
Apply(want, p, u) ==
  LET bs == MergedBackends(want)
      models == Merge(cfg.models, want.models)
      deps == Merge(cfg.deps, want.deps)
      routes == Merge(cfg.routes, want.routes)
      nodes == [n \in CNodes |-> IF want.nodes[n] # "none" THEN want.nodes[n] ELSE cfg.nodes[n]]
      left == prune(deps, want.deps, p)
      kept == Dependents(prune(routes, want.routes, p), left)
      held == applyGrants(want, p, u)
      final == [nodes |-> nodes, models |-> prune(models, want.models, p), deps |-> left,
                routes |-> kept, limit |-> applyLimits(want, p),
                backends |-> prune(bs, want.backends, p), policy |-> cfg.policy, grants |-> {}]
  IN  /\ \A n \in CNodes : want.nodes[n] # "none" => cfg.nodes[n] # "none"
      /\ \A n \in CNodes : want.nodes[n] = "departed" => n \in extra.departed
      /\ checkPolicy(want) /\ applyBackends(want) /\ applyModels(want, bs)
      /\ applyDeployments(want, models, deps, bs) /\ applyRoutes(want, deps)
      /\ \A r \in want.grants : routes[r].in
      /\ \A d \in CDeps : left[d].in => final.models[left[d].model].in
      /\ pruneBackends(want, p, left)
      /\ checkRouteDialects(kept, left, final.backends)
      /\ cfg' = final
      /\ grants' = {g \in held : kept[g[2]].in}
      /\ extra' = [restart |-> {d \in extra.restart : left[d].in},
                   staging |-> {m \in extra.staging : final.models[m].in},
                   departed |-> extra.departed]
      /\ UNCHANGED rows

-----------------------------------------------------------------------------
(* Reads.  They are outside any transaction, and the ETag is read after    *)
(* the snapshot it is sent with (showFleet, listFleet).                    *)

(* config export, GET /config/export.                                      *)
exportConfig(o) ==
  /\ draft[o] = Idle
  /\ draft' = [draft EXCEPT ![o] = [Idle EXCEPT !.at = "read", !.kind = "doc", !.doc = Read]]
  /\ UNCHANGED <<cfg, grants, rows, extra, revs, told>>

(* editRoute: --remove, then --add.                                        *)
editRoute(members, add, del) == (members \ del) \cup add

(* route set --server reads the route it will replace.  One that is not    *)
(* there is created, and its PUT carries no If-Match.                      *)
remoteRouteSet(o, r, add, del) ==
  /\ draft[o] = Idle
  /\ draft' = [draft EXCEPT ![o] =
       [Idle EXCEPT !.at = IF cfg.routes[r].in THEN "read" ELSE "stamped", !.kind = "route",
                    !.route = r, !.add = add, !.del = del,
                    !.members = editRoute(cfg.routes[r].members, add, del)]]
  /\ UNCHANGED <<cfg, grants, rows, extra, revs, told>>

setRevisionETag(o) ==
  /\ draft[o].at = "read"
  /\ draft' = [draft EXCEPT ![o].at = "stamped", ![o].etag = LatestSeq]
  /\ UNCHANGED <<cfg, grants, rows, extra, revs, told>>

(* freePortOn: the first port no row of the node has.                      *)
freePortOn(n) ==
  {p \in CPorts : /\ \A d \in CDeps : ~(cfg.deps[d].in /\ cfg.deps[d].node = n /\ cfg.deps[d].port = p)
                  /\ \A q \in CPorts : q < p =>
                       \E d \in CDeps : cfg.deps[d].in /\ cfg.deps[d].node = n /\ cfg.deps[d].port = q}

(* chooseBackend: one that runs on what the node offers.                   *)
chooseBackend(n) ==
  {b \in Backends : BackendFor(cfg.backends, b) # "none" /\ <<b, n>> \in RunsOn}

(* model register builds a document of one model, one deployment, one      *)
(* route that has that member alone, and the grant asked for.              *)
cmdModelRegister(o, m, d, n, card, r) ==
  /\ draft[o] = Idle
  /\ \E b \in chooseBackend(n), p \in freePortOn(n), org \in Origins, g \in SUBSET {r} :
       draft' = [draft EXCEPT ![o] = [Idle EXCEPT !.at = "read", !.kind = "doc", !.edits = 1,
         !.doc = [NoSnap EXCEPT
           !.models[m] = [in |-> TRUE, backend |-> b, origin |-> org],
           !.deps[d] = [in |-> TRUE, model |-> m, node |-> n, backend |-> b,
                        cards |-> {card}, port |-> p, off |-> FALSE],
           !.routes[r] = [in |-> TRUE, members |-> {d}], !.grants = g]]]
  /\ UNCHANGED <<cfg, grants, rows, extra, revs, told>>

(* What an operator may change in a document: a deployment, a model or a   *)
(* descriptor, or something else.                                          *)
DepEdits(s) ==
  {[s EXCEPT !.deps[d] = NoDep] : d \in CDeps}
    \cup UNION {{[s EXCEPT !.deps[d].cards = {c}] : c \in CCards}
                  \cup {[s EXCEPT !.deps[d].port = p] : p \in CPorts}
                  \cup {[s EXCEPT !.deps[d].backend = b] : b \in Backends}
                 : d \in {x \in CDeps : s.deps[x].in}}
ModelEdits(s) ==
  {[s EXCEPT !.models[m] = NoModel] : m \in CModels}
    \cup UNION {{[s EXCEPT !.models[m].origin = x] : x \in Origins} : m \in {y \in CModels : s.models[y].in}}
BackendEdits(s) ==
  UNION {{[s EXCEPT !.backends[b] = v] : v \in {"none", "openai", "other"}} : b \in Registered}
OtherEdits(s) ==
  {[s EXCEPT !.limit = 1 - @], [s EXCEPT !.grants = CRoutes \ @]}
    \cup {[s EXCEPT !.routes[r] = NoRoute] : r \in CRoutes}
    \cup {[s EXCEPT !.policy = p] : p \in Profiles}
    \cup {[s EXCEPT !.nodes[n] = "draining"] : n \in {x \in CNodes : s.nodes[x] # "none"}}
Edits(s) == DepEdits(s) \cup ModelEdits(s) \cup BackendEdits(s) \cup OtherEdits(s)

EditDocument(o) ==
  /\ draft[o].kind = "doc" /\ draft[o].edits < MaxEdits
  /\ \E s \in Edits(draft[o].doc) :
       draft' = [draft EXCEPT ![o].doc = s, ![o].edits = @ + 1]
  /\ UNCHANGED <<cfg, grants, rows, extra, revs, told>>

(* A document refused, or thought better of.                               *)
Discard(o) ==
  /\ draft[o] # Idle /\ draft' = [draft EXCEPT ![o] = Idle]
  /\ UNCHANGED <<cfg, grants, rows, extra, revs, told>>

-----------------------------------------------------------------------------
(* Writes: one transaction each.                                           *)

(* If-Match, inside the transaction.  A request may come without.          *)
checkIfMatch(etag) == etag = 0 \/ etag = LatestSeq

(* What was said of a route no longer binds once a document restates it,   *)
(* or once the deployment is gone.                                         *)
Restated(want) ==
  told' = [r \in CRoutes |-> IF want.routes[r].in \/ ~cfg'.routes[r].in
                             THEN told[r] \cap cfg'.routes[r].members
                             ELSE {d \in told[r] : cfg'.deps[d].in}]

(* What config apply and config rollback share: a document, applied and    *)
(* recorded.                                                               *)
applySnapshot(want, p, of) ==
  /\ \E u \in 1..rows : Apply(want, p, u)
  /\ Record(of) /\ Restated(want)

(* POST /config/apply, with the ETag of an earlier read or without one.    *)
applyConfig(o, p) ==
  /\ draft[o].kind = "doc" /\ draft[o].edits > 0 /\ draft[o].at = "stamped"
  /\ checkIfMatch(draft[o].etag)
  /\ applySnapshot(draft[o].doc, p, 0)
  /\ draft' = [draft EXCEPT ![o] = Idle]

(* config apply on the control plane's host has no revision to compare.    *)
cmdConfigApply(o, p) ==
  /\ draft[o].kind = "doc" /\ draft[o].edits > 0 /\ draft[o].at = "read"
  /\ applySnapshot(draft[o].doc, p, 0)
  /\ draft' = [draft EXCEPT ![o] = Idle]

(* The revision is read before the transaction; revisions never change.    *)
rollback(k, p, etag) ==
  checkIfMatch(etag) /\ applySnapshot(Get(k), p, IF p THEN k ELSE 0) /\ UNCHANGED draft

cmdConfigRollback(k, p) == applySnapshot(Get(k), p, IF p THEN k ELSE 0) /\ UNCHANGED draft

(* applyOne edits what it reads inside the transaction, and prunes nothing.*)
applyOne(want) == (\E u \in 1..rows : Apply(want, FALSE, u)) /\ Record(0)

AddsTo(r, add, del) == told' = [told EXCEPT ![r] = (@ \ del) \cup add]

(* PUT /routes/{name}: the whole route is replaced.                        *)
putRoute(o) ==
  /\ draft[o].kind = "route" /\ draft[o].at = "stamped"
  /\ checkIfMatch(draft[o].etag)
  /\ applyOne([Read EXCEPT !.routes[draft[o].route] = [in |-> TRUE, members |-> draft[o].members]])
  /\ AddsTo(draft[o].route, draft[o].add, draft[o].del)
  /\ draft' = [draft EXCEPT ![o] = Idle]

(* route set on the control plane's own host: read and replaced in one     *)
(* transaction.                                                            *)
cmdRouteSet(r, add, del) ==
  /\ applyOne([Read EXCEPT !.routes[r] =
                 [in |-> TRUE, members |-> editRoute(cfg.routes[r].members, add, del)]])
  /\ AddsTo(r, add, del) /\ UNCHANGED draft

putLimit(etag) ==
  checkIfMatch(etag) /\ applyOne([Read EXCEPT !.limit = 1]) /\ UNCHANGED <<draft, told>>

cmdLimitsSet == applyOne([Read EXCEPT !.limit = 1]) /\ UNCHANGED <<draft, told>>

(* SetDisabled: every deployment of a model.                               *)
SetDisabled(s, m, off) ==
  [s EXCEPT !.deps = [d \in CDeps |-> IF s.deps[d].in /\ s.deps[d].model = m
                                      THEN [s.deps[d] EXCEPT !.off = off] ELSE s.deps[d]]]

Toggle(m, off) ==
  /\ \E d \in CDeps : cfg.deps[d].in /\ cfg.deps[d].model = m
  /\ applyOne(SetDisabled(Read, m, off)) /\ UNCHANGED <<draft, told>>

modelToggle(m, off, etag) == checkIfMatch(etag) /\ Toggle(m, off)
cmdModelToggle(m, off) == Toggle(m, off)

(* policy apply: the one way the profile moves.                            *)
SetPolicy(p) ==
  /\ cfg' = [cfg EXCEPT !.policy = p] /\ UNCHANGED <<grants, rows, extra>>
  /\ Record(0) /\ UNCHANGED <<draft, told>>

applyPolicy(p, etag) == checkIfMatch(etag) /\ SetPolicy(p)
cmdPolicyApply(p) == SetPolicy(p)

(* node approve, drain, revoke.                                            *)
nodeTransition(n, to) ==
  /\ cfg.nodes[n] # "none" /\ to \in {"approved", "draining", "departed"}
  /\ cfg' = [cfg EXCEPT !.nodes[n] = to] /\ UNCHANGED <<grants, rows>>
  /\ extra' = [extra EXCEPT !.departed = IF to = "departed" THEN @ \cup {n} ELSE @]
  /\ Record(0) /\ UNCHANGED <<draft, told>>

(* A restart is asked of the deployments of a model that are not disabled, *)
(* a staging reset of a model's copy: rows that point at them.             *)
modelRestart(m) ==
  /\ \E d \in CDeps : cfg.deps[d].in /\ cfg.deps[d].model = m
  /\ extra' = [extra EXCEPT !.restart = @ \cup {d \in CDeps : cfg.deps[d].in /\ cfg.deps[d].model = m
                                                              /\ ~cfg.deps[d].off}]
  /\ UNCHANGED <<cfg, grants, rows, revs, draft, told>>

modelStageReset(m) ==
  /\ cfg.models[m].in
  /\ extra' = [extra EXCEPT !.staging = @ \cup {m}]
  /\ UNCHANGED <<cfg, grants, rows, revs, draft, told>>

(* Outside this module: a host enrolls, a user is deleted and a new one    *)
(* given the name.                                                         *)
EnrollNode(n) ==
  /\ cfg.nodes[n] = "none" /\ cfg' = [cfg EXCEPT !.nodes[n] = "pending"]
  /\ UNCHANGED <<grants, rows, extra, revs, draft, told>>

ReAddUser == rows = 1 /\ rows' = 2 /\ UNCHANGED <<cfg, grants, extra, revs, draft, told>>

ConfigInit ==
  /\ cfg = [First EXCEPT !.grants = {}] /\ grants = {1} \X First.grants /\ rows = 1
  /\ extra = [restart |-> {}, staging |-> {}, departed |-> {}]
  /\ revs = <<[seq |-> 1, prev |-> 0, snap |-> First, of |-> 0]>>
  /\ draft = [o \in Operators |-> Idle]
  /\ told = [r \in CRoutes |-> {}]

Singles == {{d} : d \in CDeps}

(* On the control plane's host.                                            *)
HostNext ==
  \/ \E o \in Operators :
       \/ exportConfig(o) \/ EditDocument(o) \/ Discard(o)
       \/ \E p \in BOOLEAN : cmdConfigApply(o, p)
  \/ \E k \in DOMAIN revs, p \in BOOLEAN : cmdConfigRollback(k, p)
  \/ \E p \in Profiles : cmdPolicyApply(p)
  \/ \E m \in CModels : modelRestart(m) \/ modelStageReset(m) \/ \E off \in BOOLEAN : cmdModelToggle(m, off)
  \/ \E n \in CNodes, to \in NodeStates : nodeTransition(n, to)
  \/ ReAddUser

(* Over the API, while route set, limits set and model register run there  *)
(* and on the host, and hosts enroll.                                      *)
ServerNext ==
  \/ \E o \in Operators :
       \/ \E r \in CRoutes : \E e \in Singles : remoteRouteSet(o, r, e, {}) \/ remoteRouteSet(o, r, {}, e)
       \/ setRevisionETag(o) \/ putRoute(o) \/ Discard(o)
       \/ \E m \in CModels, d \in CDeps, n \in CNodes, c \in CCards, r \in CRoutes :
             cmdModelRegister(o, m, d, n, c, r)
       \/ cmdConfigApply(o, FALSE) \/ applyConfig(o, FALSE)
  \/ \E r \in CRoutes : \E e \in Singles : cmdRouteSet(r, e, {}) \/ cmdRouteSet(r, {}, e)
  \/ cmdLimitsSet \/ \E n \in CNodes : EnrollNode(n)
  \/ \E etag \in {LatestSeq - 1, LatestSeq} :
       \/ putLimit(etag)
       \/ \E k \in DOMAIN revs, p \in BOOLEAN : rollback(k, p, etag)
       \/ \E p \in Profiles : applyPolicy(p, etag)
       \/ \E m \in CModels, off \in BOOLEAN : modelToggle(m, off, etag)

ConfigNext == HostNext \/ ServerNext
ConfigSpec == ConfigInit /\ [][ConfigNext]_configVars

-----------------------------------------------------------------------------
(* Properties.                                                             *)

(* deployment_gpu_exclusive and checkPorts, which look at the rows of one  *)
(* document only: over any run of whole and partial documents, rollbacks   *)
(* and registrations, no card and no loopback port of a node is given to   *)
(* two deployments.                                                        *)
OneServerIn(s) ==
  \A d, e \in CDeps : d # e /\ s.deps[d].in /\ s.deps[e].in /\ s.deps[d].node = s.deps[e].node =>
     /\ s.deps[d].cards \cap s.deps[e].cards = {}
     /\ s.deps[d].port = s.deps[e].port => s.deps[d].port = 0
OneServer == OneServerIn(cfg)

(* pruneAll's order and the dependents it clears: no row ever points at    *)
(* one that a prune has taken away.                                        *)
ReferencesIn(s) ==
  /\ \A d \in CDeps : s.deps[d].in => s.models[s.deps[d].model].in /\ s.nodes[s.deps[d].node] # "none"
  /\ \A r \in CRoutes : \A d \in s.routes[r].members : s.deps[d].in
  /\ \A r \in s.grants : s.routes[r].in
References ==
  /\ ReferencesIn(Read)
  /\ \A d \in extra.restart : cfg.deps[d].in
  /\ \A m \in extra.staging : cfg.models[m].in

(* Whatever the order in which a route is given a member, a member its     *)
(* backend and a backend its descriptor, a route never carries a           *)
(* deployment that speaks another dialect (checkRouteDialects).            *)
SpeaksOpenAI(s) ==
  \A r \in CRoutes : \A d \in s.routes[r].members :
     BackendFor(s.backends, s.deps[d].backend) # "other"
RoutesSpeakOpenAI == SpeaksOpenAI(cfg)

(* The first revision is of tables that already are as these ask.          *)
ASSUME FirstAssumption ==
  First \in Snapshots /\ OneServerIn(First) /\ ReferencesIn(First) /\ SpeaksOpenAI(First)

(* A descriptor that a deployment uses is not taken from under it: the     *)
(* deployment of a node could not be rendered (pruneBackends).             *)
BackendsKept ==
  [][\A d \in CDeps :
       LET b == cfg.deps[d].backend
       IN  (cfg.deps[d].in /\ cfg'.deps[d].in /\ cfg'.deps[d].backend = b
              /\ BackendFor(cfg.backends, b) # "none") => BackendFor(cfg'.backends, b) # "none"]_configVars

(* What a row of the configuration names is there and fits: no dangling    *)
(* reference, no member of another dialect, no descriptor taken away from  *)
(* under a deployment.                                                     *)
ReferencesHold == []References /\ []RoutesSpeakOpenAI /\ BackendsKept

(* A rollback that prunes leaves what the revision it names said, but for  *)
(* nodes, which only enrolling adds, and for the grants of a name that has *)
(* had two users.                                                          *)
RollbackRestores ==
  \A i \in DOMAIN revs : revs[i].of # 0 =>
     LET was == Get(revs[i].of)
         now == revs[i].snap
     IN  /\ [now EXCEPT !.nodes = was.nodes, !.grants = was.grants] = was
         /\ \A n \in CNodes : was.nodes[n] # "none" => now.nodes[n] = was.nodes[n]
         /\ rows = 1 => now.grants = was.grants

(* The history can be gone back to: its chain has no hole (revision.go,    *)
(* Verify), and a rollback restores what it names.                         *)
HistoryHolds == Verify /\ RollbackRestores

(* No road into the tables, a rollback included, brings in a model or a    *)
(* descriptor that the profile in force denies (checkOrigin,               *)
(* applyBackends); what was there before the profile stays.                *)
PostureHolds ==
  [][/\ \A m \in CModels : cfg'.models[m].in
            /\ ~(cfg.models[m].in /\ cfg.models[m].origin = cfg'.models[m].origin)
            => <<cfg'.policy, cfg'.models[m].origin>> \notin Denied
     /\ \A b \in Registered : cfg'.backends[b] \notin {"none", cfg.backends[b]}
            => cfg'.policy \in CustomAllowed]_configVars

(* The revisions form a chain, and every change of what config.Read        *)
(* returns, by whichever verb, is one revision of it that holds the value  *)
(* afterwards.  A name's second user is left out of the value.             *)
V == INSTANCE Versioned WITH value <- Read, history <- [i \in DOMAIN revs |-> revs[i].snap]
ImplementsVersioned == V!VersionedSpec

(* "If-Match closes it": a member an operator was told was added to a      *)
(* route is there until somebody takes it out or restates the route        *)
(* (cli/route.go, remoteRouteSet).                                         *)
MembersKept == \A r \in CRoutes : told[r] \subseteq cfg.routes[r].members
=============================================================================
