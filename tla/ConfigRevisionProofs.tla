------------------------ MODULE ConfigRevisionProofs ------------------------
(***************************************************************************)
(* Proofs about ConfigRevision, for any nodes, models, deployments, routes,*)
(* backends, profiles and operators, and however many revisions.           *)
(***************************************************************************)
EXTENDS ConfigRevision, TLAPS

-----------------------------------------------------------------------------
(* What a document may be.                                                 *)

LEMMA NoSnapType == NoSnap \in Documents
  BY DEF NoSnap, Documents, NodeStates, ModelRows, DepRows, RouteRows

LEMMA IdleType == Idle \in Drafts
  BY NoSnapType DEF Idle, Drafts

(* What config.Read returns is a snapshot of the tables.                   *)
LEMMA ReadType ==
  ASSUME ConfigTypeOK
  PROVE  /\ Read \in Snapshots /\ Read \in Documents
         /\ Read.nodes = cfg.nodes /\ Read.models = cfg.models /\ Read.deps = cfg.deps
         /\ Read.routes = cfg.routes /\ Read.limit = cfg.limit
         /\ Read.backends = cfg.backends /\ Read.policy = cfg.policy
         /\ Read.grants = readGrants
  BY DEF ConfigTypeOK, Read, Snapshots, Documents, readGrants

(* An upsert and a prune stay within the types of the rows.                *)
LEMMA MergeType ==
  ASSUME NEW D, NEW R, NEW have \in [D -> R], NEW want \in [D -> R]
  PROVE  Merge(have, want) \in [D -> R]
  BY DEF Merge

(* A document that is applied leaves a snapshot behind, and grants of      *)
(* users that are there.                                                   *)
LEMMA ApplyType ==
  ASSUME ConfigTypeOK, NEW want \in Documents, NEW p \in BOOLEAN, NEW u \in 1..rows,
         Apply(want, p, u)
  PROVE  /\ cfg' \in Snapshots /\ grants' \subseteq (1..rows) \X CRoutes /\ rows' = rows
         /\ extra' \in [restart : SUBSET CDeps, staging : SUBSET CModels, departed : SUBSET CNodes]
<1> DEFINE bs == MergedBackends(want)
           models == Merge(cfg.models, want.models)
           deps == Merge(cfg.deps, want.deps)
           routes == Merge(cfg.routes, want.routes)
           nodes == [n \in CNodes |-> IF want.nodes[n] # "none" THEN want.nodes[n] ELSE cfg.nodes[n]]
           left == prune(deps, want.deps, p)
           kept == Dependents(prune(routes, want.routes, p), left)
           held == applyGrants(want, p, u)
<1>1. cfg \in Documents /\ cfg.policy \in Profiles
  BY DEF ConfigTypeOK, Snapshots
<1>2. bs \in [Registered -> {"none", "openai", "other"}]
  BY <1>1 DEF MergedBackends, Documents
<1>3. models \in [CModels -> ModelRows] /\ deps \in [CDeps -> DepRows]
      /\ routes \in [CRoutes -> RouteRows]
  BY <1>1, MergeType DEF Documents
<1>4. nodes \in [CNodes -> NodeStates]
  BY <1>1 DEF Documents
<1>5. left \in [CDeps -> DepRows] /\ prune(routes, want.routes, p) \in [CRoutes -> RouteRows]
  BY <1>3 DEF prune, Documents
<1>6. kept \in [CRoutes -> RouteRows]
  <2> DEFINE rs == prune(routes, want.routes, p)
  <2>0. rs \in [CRoutes -> RouteRows]
    BY <1>5
  <2> HIDE DEF left, rs
  <2>1. \A r \in CRoutes : [rs[r] EXCEPT !.members = {d \in @ : left[d].in}] \in RouteRows
    <3> TAKE r \in CRoutes
    <3>1. CASE rs[r] = NoRoute
      <4>1. {d \in rs[r].members : left[d].in} = {}
        BY <3>1 DEF NoRoute
      <4>2. [rs[r] EXCEPT !.members = {d \in @ : left[d].in}] = NoRoute
        BY <3>1, <4>1 DEF NoRoute
      <4> QED BY <4>2 DEF RouteRows
    <3>2. CASE rs[r] \in [in : {TRUE}, members : SUBSET CDeps]
      BY <3>2 DEF RouteRows
    <3> QED BY <2>0, <3>1, <3>2 DEF RouteRows
  <2> QED BY <2>1 DEF Dependents, rs
<1>7. held \subseteq (1..rows) \X CRoutes
  <2>1. want.grants \subseteq CRoutes /\ grants \subseteq (1..rows) \X CRoutes
    BY DEF ConfigTypeOK, Documents
  <2>2. {<<u, r>> : r \in want.grants} \subseteq (1..rows) \X CRoutes
    BY <2>1
  <2> QED BY <2>1, <2>2 DEF applyGrants
<1>8. applyLimits(want, p) \in 0..1
  BY <1>1 DEF applyLimits, Documents
<1>9. cfg' = [nodes |-> nodes, models |-> prune(models, want.models, p), deps |-> left,
              routes |-> kept, limit |-> applyLimits(want, p),
              backends |-> prune(bs, want.backends, p), policy |-> cfg.policy, grants |-> {}]
      /\ grants' = {g \in held : kept[g[2]].in} /\ rows' = rows
      /\ extra'.restart \subseteq extra.restart /\ extra'.staging \subseteq extra.staging
      /\ extra' = [restart |-> extra'.restart, staging |-> extra'.staging, departed |-> extra.departed]
  BY DEF Apply
<1>10. prune(models, want.models, p) \in [CModels -> ModelRows]
       /\ prune(bs, want.backends, p) \in [Registered -> {"none", "openai", "other"}]
  BY <1>2, <1>3 DEF prune, Documents
<1> HIDE DEF bs, models, nodes, left, kept, held
<1>11. cfg' \in Snapshots
  BY <1>1, <1>4, <1>5, <1>6, <1>8, <1>9, <1>10 DEF Snapshots, Documents
<1>12. extra' \in [restart : SUBSET CDeps, staging : SUBSET CModels, departed : SUBSET CNodes]
  BY <1>9 DEF ConfigTypeOK
<1> QED BY <1>7, <1>9, <1>11, <1>12

-----------------------------------------------------------------------------
(* What an operator may put in a document.                                 *)

(* Replacing one table of a document by one of its type.                   *)
LEMMA ReplaceTable ==
  ASSUME NEW s \in Documents
  PROVE  /\ \A x \in [CNodes -> NodeStates] : [s EXCEPT !.nodes = x] \in Documents
         /\ \A x \in [CModels -> ModelRows] : [s EXCEPT !.models = x] \in Documents
         /\ \A x \in [CDeps -> DepRows] : [s EXCEPT !.deps = x] \in Documents
         /\ \A x \in [CRoutes -> RouteRows] : [s EXCEPT !.routes = x] \in Documents
         /\ \A x \in 0..1 : [s EXCEPT !.limit = x] \in Documents
         /\ \A x \in [Registered -> {"none", "openai", "other"}] : [s EXCEPT !.backends = x] \in Documents
         /\ \A x \in Profiles : [s EXCEPT !.policy = x] \in Documents
         /\ \A x \in SUBSET CRoutes : [s EXCEPT !.grants = x] \in Documents
  BY DEF Documents

(* The rows that are there.                                                *)
LEMMA RowsIn ==
  /\ \A x \in DepRows : x.in => x \in [in : {TRUE}, model : CModels, node : CNodes, backend : Backends,
                       cards : SUBSET CCards, port : {0} \cup CPorts, off : BOOLEAN]
  /\ \A x \in ModelRows : x.in => x \in [in : {TRUE}, backend : Backends, origin : Origins]
  /\ \A x \in RouteRows : x.in => x \in [in : {TRUE}, members : SUBSET CDeps]
  /\ \A x \in RouteRows : x.members \subseteq CDeps
<1>1. ~NoDep.in /\ ~NoModel.in /\ ~NoRoute.in /\ NoRoute.members = {}
  BY DEF NoDep, NoModel, NoRoute
<1> QED BY <1>1 DEF DepRows, ModelRows, RouteRows

(* The fields of a row that is there.                                      *)
LEMMA DepFields ==
  ASSUME NEW x \in DepRows, x.in
  PROVE  /\ x.model \in CModels /\ x.node \in CNodes /\ x.backend \in Backends
         /\ x.cards \subseteq CCards /\ x.port \in Nat
<1>1. x \in [in : {TRUE}, model : CModels, node : CNodes, backend : Backends,
             cards : SUBSET CCards, port : {0} \cup CPorts, off : BOOLEAN]
  BY RowsIn
<1>2. /\ x.model \in CModels /\ x.node \in CNodes /\ x.backend \in Backends
      /\ x.cards \in SUBSET CCards /\ x.port \in {0} \cup CPorts
  BY <1>1
<1>3. x.port \in Nat
  <2>1. CPorts \subseteq Nat
    BY ConfigAssumption
  <2>2. \A y \in {0} \cup CPorts : y \in Nat
    BY <2>1
  <2> QED BY <1>2, <2>2, Zenon
<1> QED BY <1>2, <1>3

LEMMA RouteFields ==
  ASSUME NEW x \in RouteRows
  PROVE  x = [in |-> x.in, members |-> x.members] /\ x.in \in BOOLEAN /\ x.members \subseteq CDeps
<1>1. CASE x = NoRoute
  BY <1>1 DEF NoRoute
<1>2. CASE x \in [in : {TRUE}, members : SUBSET CDeps]
  BY <1>2
<1> QED BY <1>1, <1>2 DEF RouteRows

LEMMA EditsType ==
  ASSUME NEW s \in Documents, NEW t \in Edits(s)
  PROVE  t \in Documents
<1>0. /\ s.nodes \in [CNodes -> NodeStates] /\ s.models \in [CModels -> ModelRows]
      /\ s.deps \in [CDeps -> DepRows] /\ s.routes \in [CRoutes -> RouteRows] /\ s.limit \in 0..1
      /\ s.backends \in [Registered -> {"none", "openai", "other"}] /\ s.grants \subseteq CRoutes
  BY DEF Documents
<1>1. ASSUME NEW d \in CDeps, t = [s EXCEPT !.deps[d] = NoDep]
      PROVE  t \in Documents
  <2>1. [s.deps EXCEPT ![d] = NoDep] \in [CDeps -> DepRows]
    BY <1>0 DEF DepRows
  <2> QED BY <1>1, <2>1, ReplaceTable
<1>2. ASSUME NEW d \in CDeps, s.deps[d].in,
             \/ \E c \in CCards : t = [s EXCEPT !.deps[d].cards = {c}]
             \/ \E q \in CPorts : t = [s EXCEPT !.deps[d].port = q]
             \/ \E b \in Backends : t = [s EXCEPT !.deps[d].backend = b]
      PROVE  t \in Documents
  <2>1. s.deps[d] \in [in : {TRUE}, model : CModels, node : CNodes, backend : Backends,
                       cards : SUBSET CCards, port : {0} \cup CPorts, off : BOOLEAN]
    BY <1>0, <1>2, RowsIn
  <2>2. ASSUME NEW y, y \in [in : {TRUE}, model : CModels, node : CNodes, backend : Backends,
                       cards : SUBSET CCards, port : {0} \cup CPorts, off : BOOLEAN],
               t = [s EXCEPT !.deps = [s.deps EXCEPT ![d] = y]]
        PROVE  t \in Documents
    <3>1. [s.deps EXCEPT ![d] = y] \in [CDeps -> DepRows]
      BY <1>0, <2>2 DEF DepRows
    <3> QED BY <3>1, <2>2, ReplaceTable
  <2>3. ASSUME NEW c \in CCards, t = [s EXCEPT !.deps[d].cards = {c}]
        PROVE  t \in Documents
    <3>1. [s.deps[d] EXCEPT !.cards = {c}]
            \in [in : {TRUE}, model : CModels, node : CNodes, backend : Backends,
                 cards : SUBSET CCards, port : {0} \cup CPorts, off : BOOLEAN]
      BY <2>1
    <3> QED BY <3>1, <2>2, <2>3
  <2>4. ASSUME NEW q \in CPorts, t = [s EXCEPT !.deps[d].port = q]
        PROVE  t \in Documents
    <3>1. [s.deps[d] EXCEPT !.port = q]
            \in [in : {TRUE}, model : CModels, node : CNodes, backend : Backends,
                 cards : SUBSET CCards, port : {0} \cup CPorts, off : BOOLEAN]
      BY <2>1
    <3> QED BY <3>1, <2>2, <2>4
  <2>5. ASSUME NEW b \in Backends, t = [s EXCEPT !.deps[d].backend = b]
        PROVE  t \in Documents
    <3>1. [s.deps[d] EXCEPT !.backend = b]
            \in [in : {TRUE}, model : CModels, node : CNodes, backend : Backends,
                 cards : SUBSET CCards, port : {0} \cup CPorts, off : BOOLEAN]
      BY <2>1
    <3> QED BY <3>1, <2>2, <2>5
  <2> QED BY <1>2, <2>3, <2>4, <2>5
<1>3. ASSUME NEW r \in CRoutes, t = [s EXCEPT !.routes[r] = NoRoute]
      PROVE  t \in Documents
  <2>1. [s.routes EXCEPT ![r] = NoRoute] \in [CRoutes -> RouteRows]
    BY <1>0 DEF RouteRows
  <2> QED BY <1>3, <2>1, ReplaceTable
<1>4. ASSUME NEW m \in CModels, t = [s EXCEPT !.models[m] = NoModel]
      PROVE  t \in Documents
  <2>1. [s.models EXCEPT ![m] = NoModel] \in [CModels -> ModelRows]
    BY <1>0 DEF ModelRows
  <2> QED BY <1>4, <2>1, ReplaceTable
<1>5. ASSUME NEW m \in CModels, s.models[m].in, NEW x \in Origins,
             t = [s EXCEPT !.models[m].origin = x]
      PROVE  t \in Documents
  <2>1. s.models[m] \in [in : {TRUE}, backend : Backends, origin : Origins]
    BY <1>0, <1>5, RowsIn
  <2>2. [s.models[m] EXCEPT !.origin = x] \in ModelRows
    BY <2>1 DEF ModelRows
  <2>3. [s.models EXCEPT ![m] = [s.models[m] EXCEPT !.origin = x]] \in [CModels -> ModelRows]
    BY <1>0, <2>2
  <2> QED BY <1>5, <2>3, ReplaceTable
<1>6. ASSUME NEW b \in Registered, NEW v \in {"none", "openai", "other"},
             t = [s EXCEPT !.backends[b] = v]
      PROVE  t \in Documents
  <2>1. [s.backends EXCEPT ![b] = v] \in [Registered -> {"none", "openai", "other"}]
    BY <1>0
  <2> QED BY <1>6, <2>1, ReplaceTable
<1>7. ASSUME \/ t = [s EXCEPT !.limit = 1 - @] \/ t = [s EXCEPT !.grants = CRoutes \ @]
             \/ \E q \in Profiles : t = [s EXCEPT !.policy = q]
      PROVE  t \in Documents
  <2>1. 1 - s.limit \in 0..1 /\ CRoutes \ s.grants \in SUBSET CRoutes
    BY <1>0
  <2> QED BY <1>7, <2>1, ReplaceTable
<1>8. ASSUME NEW n \in CNodes, t = [s EXCEPT !.nodes[n] = "draining"]
      PROVE  t \in Documents
  <2>1. [s.nodes EXCEPT ![n] = "draining"] \in [CNodes -> NodeStates]
    BY <1>0 DEF NodeStates
  <2> QED BY <1>8, <2>1, ReplaceTable
<1>9. CASE t \in DepEdits(s)
  <2>1. CASE t \in {[s EXCEPT !.deps[d] = NoDep] : d \in CDeps}
    BY <2>1, <1>1, Zenon
  <2>2. CASE t \in UNION {{[s EXCEPT !.deps[d].cards = {c}] : c \in CCards}
                            \cup {[s EXCEPT !.deps[d].port = p] : p \in CPorts}
                            \cup {[s EXCEPT !.deps[d].backend = b] : b \in Backends}
                           : d \in {x \in CDeps : s.deps[x].in}}
    <3>1. PICK d \in CDeps : /\ s.deps[d].in
                             /\ \/ \E c \in CCards : t = [s EXCEPT !.deps[d].cards = {c}]
                                \/ \E q \in CPorts : t = [s EXCEPT !.deps[d].port = q]
                                \/ \E b \in Backends : t = [s EXCEPT !.deps[d].backend = b]
      <4>1. PICK d \in {x \in CDeps : s.deps[x].in} :
              t \in {[s EXCEPT !.deps[d].cards = {c}] : c \in CCards}
                     \cup {[s EXCEPT !.deps[d].port = q] : q \in CPorts}
                     \cup {[s EXCEPT !.deps[d].backend = b] : b \in Backends}
        BY <2>2, ZenonT(30)
      <4>2. CASE t \in {[s EXCEPT !.deps[d].cards = {c}] : c \in CCards}
        BY <4>2, ZenonT(30)
      <4>3. CASE t \in {[s EXCEPT !.deps[d].port = q] : q \in CPorts}
        BY <4>3, ZenonT(30)
      <4>4. CASE t \in {[s EXCEPT !.deps[d].backend = b] : b \in Backends}
        BY <4>4, ZenonT(30)
      <4> QED BY <4>1, <4>2, <4>3, <4>4, ZenonT(30)
    <3> QED BY <3>1, <1>2
  <2> QED BY <1>9, <2>1, <2>2, Zenon DEF DepEdits
<1>10. CASE t \in ModelEdits(s)
  <2>1. CASE t \in {[s EXCEPT !.models[m] = NoModel] : m \in CModels}
    BY <2>1, <1>4, Zenon
  <2>2. CASE t \in UNION {{[s EXCEPT !.models[m].origin = x] : x \in Origins} : m \in {y \in CModels : s.models[y].in}}
    <3>1. PICK m \in CModels : s.models[m].in /\ \E x \in Origins : t = [s EXCEPT !.models[m].origin = x]
      BY <2>2, Zenon
    <3> QED BY <3>1, <1>5
  <2> QED BY <1>10, <2>1, <2>2, Zenon DEF ModelEdits
<1>12. CASE t \in BackendEdits(s)
  <2>1. PICK b \in Registered : \E v \in {"none", "openai", "other"} : t = [s EXCEPT !.backends[b] = v]
    BY <1>12, Zenon DEF BackendEdits
  <2> QED BY <2>1, <1>6
<1>11. CASE t \in OtherEdits(s)
  <2>1. \/ t = [s EXCEPT !.limit = 1 - @] \/ t = [s EXCEPT !.grants = CRoutes \ @]
        \/ \E r \in CRoutes : t = [s EXCEPT !.routes[r] = NoRoute]
        \/ \E q \in Profiles : t = [s EXCEPT !.policy = q]
        \/ \E n \in CNodes : t = [s EXCEPT !.nodes[n] = "draining"]
    BY <1>11, Zenon DEF OtherEdits
  <2> QED BY <2>1, <1>3, <1>7, <1>8, Zenon
<1> QED BY <1>9, <1>10, <1>11, <1>12 DEF Edits

-----------------------------------------------------------------------------
(* Every step is of one of seven kinds, whichever verb took it.            *)

(* A document is applied and recorded; a rollback that prunes says which   *)
(* revision it restores.                                                   *)
Applied(want, p, u, of) ==
  /\ Apply(want, p, u) /\ Record(of)
  /\ of # 0 => p /\ of \in DOMAIN revs /\ want = Get(of)
SomeApplied == \E want \in Documents, p \in BOOLEAN, u \in 1..rows, of \in Nat : Applied(want, p, u, of)

Switched == \E q \in Profiles : /\ cfg' = [cfg EXCEPT !.policy = q] /\ Record(0)
                                /\ UNCHANGED <<grants, rows, extra>>
Walked == \E n \in CNodes, to \in NodeStates : nodeTransition(n, to)
Joined == \E n \in CNodes : EnrollNode(n)
Noted == \E m \in CModels : modelRestart(m) \/ modelStageReset(m)
Quiet == UNCHANGED <<cfg, grants, rows, extra, revs>>

(* The documents the verbs make of what they read in their transaction.    *)
LEMMA OwnDocuments ==
  ASSUME ConfigTypeOK
  PROVE  /\ \A r \in CRoutes \cup {""}, M \in SUBSET CDeps :
              [Read EXCEPT !.routes[r] = [in |-> TRUE, members |-> M]] \in Documents
         /\ [Read EXCEPT !.limit = 1] \in Documents
         /\ \A m \in CModels, off \in BOOLEAN : SetDisabled(Read, m, off) \in Documents
<1>1. Read \in Documents /\ Read.routes \in [CRoutes -> RouteRows] /\ Read.deps \in [CDeps -> DepRows]
  BY ReadType DEF Documents
<1>2. \A r \in CRoutes \cup {""}, M \in SUBSET CDeps :
        [Read EXCEPT !.routes[r] = [in |-> TRUE, members |-> M]] \in Documents
  <2> TAKE r \in CRoutes \cup {""}, M \in SUBSET CDeps
  <2>1. [in |-> TRUE, members |-> M] \in RouteRows
    BY DEF RouteRows
  <2>2. [Read.routes EXCEPT ![r] = [in |-> TRUE, members |-> M]] \in [CRoutes -> RouteRows]
    BY <1>1, <2>1
  <2> QED BY <1>1, <2>2, ReplaceTable
<1>3. [Read EXCEPT !.limit = 1] \in Documents
  <2>1. 1 \in 0..1
    OBVIOUS
  <2> QED BY <1>1, <2>1, ReplaceTable
<1>4. \A m \in CModels, off \in BOOLEAN : SetDisabled(Read, m, off) \in Documents
  <2> TAKE m \in CModels, off \in BOOLEAN
  <2> DEFINE ds == [d \in CDeps |-> IF Read.deps[d].in /\ Read.deps[d].model = m
                                    THEN [Read.deps[d] EXCEPT !.off = off] ELSE Read.deps[d]]
  <2>1. ASSUME NEW d \in CDeps, Read.deps[d].in
        PROVE  [Read.deps[d] EXCEPT !.off = off] \in DepRows
    <3>1. Read.deps[d] \in [in : {TRUE}, model : CModels, node : CNodes, backend : Backends,
                       cards : SUBSET CCards, port : {0} \cup CPorts, off : BOOLEAN]
      BY <1>1, <2>1, RowsIn
    <3> QED BY <3>1 DEF DepRows
  <2>2. ds \in [CDeps -> DepRows]
    BY <1>1, <2>1
  <2> QED BY <1>1, <2>2, ReplaceTable DEF SetDisabled
<1> QED BY <1>2, <1>3, <1>4

LEMMA SeqAt ==
  ASSUME NEW S, NEW q \in Seq(S), NEW k \in DOMAIN q
  PROVE  k \in 1..Len(q) /\ Len(q) \in Nat /\ q[k] \in S
  OBVIOUS

LEMMA RevisionType ==
  ASSUME ConfigTypeOK, NEW k \in DOMAIN revs
  PROVE  /\ k \in Nat /\ k # 0 /\ k \in 1..Len(revs) /\ revs[k].snap \in Snapshots
         /\ Get(k) \in Snapshots /\ Get(k) \in Documents
<1>1. revs \in Seq([seq : Nat, prev : Nat, snap : Snapshots, of : Nat])
  BY DEF ConfigTypeOK
<1>2. k \in 1..Len(revs) /\ Len(revs) \in Nat /\ revs[k] \in [seq : Nat, prev : Nat, snap : Snapshots, of : Nat]
  BY <1>1, SeqAt
<1>3. k \in Nat /\ k # 0
  BY <1>2
<1>4. revs[k].snap \in Snapshots
  BY <1>2
<1> QED BY <1>2, <1>3, <1>4 DEF Get, Snapshots

(* The verbs on the host.                                                  *)
LEMMA HostKinds ==
  ASSUME ConfigTypeOK, HostNext
  PROVE  SomeApplied \/ Switched \/ Walked \/ Joined \/ Noted \/ ReAddUser \/ Quiet
<1>1. ASSUME NEW o \in Operators, exportConfig(o) \/ EditDocument(o) \/ Discard(o)
      PROVE  Quiet
  BY <1>1 DEF exportConfig, EditDocument, Discard, Quiet
<1>2. ASSUME NEW o \in Operators, NEW p \in BOOLEAN, cmdConfigApply(o, p)
      PROVE  SomeApplied
  <2>1. draft[o].doc \in Documents
    BY DEF ConfigTypeOK, Drafts
  <2>2. PICK u \in 1..rows : Apply(draft[o].doc, p, u)
    BY <1>2 DEF cmdConfigApply, applySnapshot
  <2>3. Applied(draft[o].doc, p, u, 0)
    BY <1>2, <2>2 DEF cmdConfigApply, applySnapshot, Applied
  <2> QED BY <2>1, <2>3 DEF SomeApplied
<1>3. ASSUME NEW k \in DOMAIN revs, NEW p \in BOOLEAN, cmdConfigRollback(k, p)
      PROVE  SomeApplied
  <2>1. Get(k) \in Documents /\ k \in Nat
    BY RevisionType
  <2>2. PICK u \in 1..rows : Apply(Get(k), p, u)
    BY <1>3 DEF cmdConfigRollback, applySnapshot
  <2>3. Applied(Get(k), p, u, IF p THEN k ELSE 0)
    BY <1>3, <2>2 DEF cmdConfigRollback, applySnapshot, Applied
  <2> QED BY <2>1, <2>3 DEF SomeApplied
<1>4. ASSUME NEW p \in Profiles, cmdPolicyApply(p)
      PROVE  Switched
  BY <1>4 DEF cmdPolicyApply, SetPolicy, Switched
<1>5. ASSUME NEW m \in CModels, NEW off \in BOOLEAN, cmdModelToggle(m, off)
      PROVE  SomeApplied
  <2>1. SetDisabled(Read, m, off) \in Documents
    BY OwnDocuments
  <2>2. PICK u \in 1..rows : Apply(SetDisabled(Read, m, off), FALSE, u)
    BY <1>5 DEF cmdModelToggle, Toggle, applyOne
  <2>3. Applied(SetDisabled(Read, m, off), FALSE, u, 0)
    BY <1>5, <2>2 DEF cmdModelToggle, Toggle, applyOne, Applied
  <2> QED BY <2>1, <2>3 DEF SomeApplied
<1> QED
  BY <1>1, <1>2, <1>3, <1>4, <1>5, Zenon DEF HostNext, Walked, Noted

(* The verbs of the API.                                                   *)
LEMMA ServerKinds ==
  ASSUME ConfigTypeOK, ServerNext
  PROVE  SomeApplied \/ Switched \/ Walked \/ Joined \/ Noted \/ ReAddUser \/ Quiet
<1>1. ASSUME NEW o \in Operators,
             \/ \E r \in CRoutes : \E e \in Singles : remoteRouteSet(o, r, e, {}) \/ remoteRouteSet(o, r, {}, e)
             \/ setRevisionETag(o) \/ Discard(o)
             \/ \E m \in CModels, d \in CDeps, n \in CNodes, c \in CCards, r \in CRoutes :
                  cmdModelRegister(o, m, d, n, c, r)
      PROVE  Quiet
  BY <1>1 DEF remoteRouteSet, setRevisionETag, Discard, cmdModelRegister, Quiet
<1>2. ASSUME NEW o \in Operators, cmdConfigApply(o, FALSE) \/ applyConfig(o, FALSE)
      PROVE  SomeApplied
  <2>1. draft[o].doc \in Documents
    BY DEF ConfigTypeOK, Drafts
  <2>2. PICK u \in 1..rows : Apply(draft[o].doc, FALSE, u)
    BY <1>2 DEF cmdConfigApply, applyConfig, applySnapshot
  <2>3. Applied(draft[o].doc, FALSE, u, 0)
    BY <1>2, <2>2 DEF cmdConfigApply, applyConfig, applySnapshot, Applied
  <2> QED BY <2>1, <2>3 DEF SomeApplied
<1>3. ASSUME NEW o \in Operators, putRoute(o)
      PROVE  SomeApplied
  <2> DEFINE want == [Read EXCEPT !.routes[draft[o].route] = [in |-> TRUE, members |-> draft[o].members]]
  <2>1. draft[o].route \in CRoutes \cup {""} /\ draft[o].members \in SUBSET CDeps
    BY DEF ConfigTypeOK, Drafts
  <2>2. want \in Documents
    BY <2>1, OwnDocuments
  <2>3. applyOne(want)
    BY <1>3 DEF putRoute
  <2> HIDE DEF want
  <2>4. PICK u \in 1..rows : Apply(want, FALSE, u)
    BY <2>3 DEF applyOne
  <2>5. Applied(want, FALSE, u, 0)
    BY <2>3, <2>4 DEF applyOne, Applied
  <2> QED BY <2>2, <2>5 DEF SomeApplied
<1>4. ASSUME NEW r \in CRoutes, NEW e \in Singles, cmdRouteSet(r, e, {}) \/ cmdRouteSet(r, {}, e)
      PROVE  SomeApplied
  <2>1. PICK M \in SUBSET CDeps : applyOne([Read EXCEPT !.routes[r] = [in |-> TRUE, members |-> M]])
    <3>0. cfg.routes[r].members \subseteq CDeps
      BY RowsIn DEF ConfigTypeOK, Snapshots, Documents
    <3>1. editRoute(cfg.routes[r].members, e, {}) \in SUBSET CDeps
          /\ editRoute(cfg.routes[r].members, {}, e) \in SUBSET CDeps
      BY <3>0 DEF editRoute, Singles
    <3> QED BY <1>4, <3>1 DEF cmdRouteSet
  <2> DEFINE want == [Read EXCEPT !.routes[r] = [in |-> TRUE, members |-> M]]
  <2>2. want \in Documents
    BY OwnDocuments
  <2> HIDE DEF want
  <2>3. applyOne(want)
    BY <2>1 DEF want
  <2>4. PICK u \in 1..rows : Apply(want, FALSE, u)
    BY <2>3 DEF applyOne
  <2>5. Applied(want, FALSE, u, 0)
    BY <2>3, <2>4 DEF applyOne, Applied
  <2> QED BY <2>2, <2>5 DEF SomeApplied
<1>5. ASSUME cmdLimitsSet \/ \E etag \in {LatestSeq - 1, LatestSeq} : putLimit(etag)
      PROVE  SomeApplied
  <2>1. applyOne([Read EXCEPT !.limit = 1])
    BY <1>5 DEF cmdLimitsSet, putLimit
  <2>2. PICK u \in 1..rows : Apply([Read EXCEPT !.limit = 1], FALSE, u)
    BY <2>1 DEF applyOne
  <2>3. Applied([Read EXCEPT !.limit = 1], FALSE, u, 0)
    BY <2>1, <2>2 DEF applyOne, Applied
  <2> QED BY <2>3, OwnDocuments DEF SomeApplied
<1>6. ASSUME NEW etag \in {LatestSeq - 1, LatestSeq}, NEW k \in DOMAIN revs, NEW p \in BOOLEAN,
             rollback(k, p, etag)
      PROVE  SomeApplied
  <2>1. Get(k) \in Documents /\ k \in Nat
    BY RevisionType
  <2>2. PICK u \in 1..rows : Apply(Get(k), p, u)
    BY <1>6 DEF rollback, applySnapshot
  <2>3. Applied(Get(k), p, u, IF p THEN k ELSE 0)
    BY <1>6, <2>2 DEF rollback, applySnapshot, Applied
  <2> QED BY <2>1, <2>3 DEF SomeApplied
<1>7. ASSUME NEW etag \in {LatestSeq - 1, LatestSeq}, NEW p \in Profiles, applyPolicy(p, etag)
      PROVE  Switched
  BY <1>7 DEF applyPolicy, SetPolicy, Switched
<1>8. ASSUME NEW etag \in {LatestSeq - 1, LatestSeq}, NEW m \in CModels, NEW off \in BOOLEAN,
             modelToggle(m, off, etag)
      PROVE  SomeApplied
  <2>1. SetDisabled(Read, m, off) \in Documents
    BY OwnDocuments
  <2>2. PICK u \in 1..rows : Apply(SetDisabled(Read, m, off), FALSE, u)
    BY <1>8 DEF modelToggle, Toggle, applyOne
  <2>3. Applied(SetDisabled(Read, m, off), FALSE, u, 0)
    BY <1>8, <2>2 DEF modelToggle, Toggle, applyOne, Applied
  <2> QED BY <2>1, <2>3 DEF SomeApplied
<1>9. ASSUME NEW o \in Operators,
             \/ \E r \in CRoutes : \E e \in Singles : remoteRouteSet(o, r, e, {}) \/ remoteRouteSet(o, r, {}, e)
             \/ setRevisionETag(o) \/ putRoute(o) \/ Discard(o)
             \/ \E m \in CModels, d \in CDeps, n \in CNodes, c \in CCards, r \in CRoutes :
                  cmdModelRegister(o, m, d, n, c, r)
             \/ cmdConfigApply(o, FALSE) \/ applyConfig(o, FALSE)
      PROVE  SomeApplied \/ Quiet
  BY <1>1, <1>2, <1>3, <1>9
<1>10. ASSUME NEW etag \in {LatestSeq - 1, LatestSeq},
              \/ putLimit(etag)
              \/ \E k \in DOMAIN revs, p \in BOOLEAN : rollback(k, p, etag)
              \/ \E p \in Profiles : applyPolicy(p, etag)
              \/ \E m \in CModels, off \in BOOLEAN : modelToggle(m, off, etag)
       PROVE  SomeApplied \/ Switched
  BY <1>5, <1>6, <1>7, <1>8, <1>10
<1> QED
  BY <1>4, <1>5, <1>9, <1>10, Zenon DEF ServerNext, Joined

LEMMA StepKinds ==
  ASSUME ConfigTypeOK, [ConfigNext]_configVars
  PROVE  SomeApplied \/ Switched \/ Walked \/ Joined \/ Noted \/ ReAddUser \/ Quiet
<1>1. CASE UNCHANGED configVars
  BY <1>1 DEF configVars, Quiet
<1> QED BY <1>1, HostKinds, ServerKinds DEF ConfigNext

-----------------------------------------------------------------------------
(* Type correctness.                                                       *)

(* A revision is appended.                                                 *)
LEMMA RecordType ==
  ASSUME ConfigTypeOK, NEW of \in Nat, Record(of), Read' \in Snapshots
  PROVE  /\ revs' \in Seq([seq : Nat, prev : Nat, snap : Snapshots, of : Nat])
         /\ Len(revs') = Len(revs) + 1
         /\ revs'[Len(revs) + 1] = [seq |-> Len(revs) + 1, prev |-> Len(revs), snap |-> Read', of |-> of]
         /\ \A i \in DOMAIN revs : revs'[i] = revs[i]
<1> DEFINE R == [seq : Nat, prev : Nat, snap : Snapshots, of : Nat]
           e == [seq |-> Len(revs) + 1, prev |-> Len(revs), snap |-> Read', of |-> of]
<1>1. revs \in Seq(R) /\ Len(revs) \in Nat
  BY DEF ConfigTypeOK
<1>2. e \in R
  BY <1>1
<1>3. revs' = Append(revs, e)
  BY DEF Record, LatestSeq
<1> HIDE DEF R, e
<1>4. /\ revs' \in Seq(R) /\ Len(revs') = Len(revs) + 1 /\ revs'[Len(revs) + 1] = e
      /\ \A i \in DOMAIN revs : revs'[i] = revs[i]
  BY <1>1, <1>2, <1>3
<1> QED BY <1>4 DEF R, e

(* What config.Read returns after a step.                                  *)
LEMMA ReadTypeNext ==
  ASSUME cfg' \in Snapshots
  PROVE  /\ Read' \in Snapshots /\ Read' \in Documents
         /\ Read.nodes' = cfg.nodes' /\ Read.models' = cfg.models' /\ Read.deps' = cfg.deps'
         /\ Read.routes' = cfg.routes' /\ Read.limit' = cfg.limit'
         /\ Read.backends' = cfg.backends' /\ Read.policy' = cfg.policy'
         /\ Read.grants' = readGrants'
  BY DEF Read, Snapshots, Documents, readGrants

(* The tables and the revisions keep their types.                          *)
LEMMA TablesType ==
  ASSUME ConfigTypeOK, [ConfigNext]_configVars
  PROVE  /\ cfg' \in Snapshots /\ grants' \subseteq (1..rows') \X CRoutes /\ rows' \in 1..2
         /\ extra' \in [restart : SUBSET CDeps, staging : SUBSET CModels, departed : SUBSET CNodes]
         /\ revs' \in Seq([seq : Nat, prev : Nat, snap : Snapshots, of : Nat])
<1>0. cfg \in Snapshots /\ cfg \in Documents /\ cfg.policy \in Profiles
  BY DEF ConfigTypeOK, Snapshots
<1>1. CASE SomeApplied
  <2>1. PICK want \in Documents, p \in BOOLEAN, u \in 1..rows, of \in Nat : Applied(want, p, u, of)
    BY <1>1 DEF SomeApplied
  <2>2. Apply(want, p, u) /\ Record(of)
    BY <2>1 DEF Applied
  <2>3. /\ cfg' \in Snapshots /\ grants' \subseteq (1..rows) \X CRoutes /\ rows' = rows
        /\ extra' \in [restart : SUBSET CDeps, staging : SUBSET CModels, departed : SUBSET CNodes]
    BY <2>2, ApplyType
  <2>4. revs' \in Seq([seq : Nat, prev : Nat, snap : Snapshots, of : Nat])
    BY <2>2, <2>3, RecordType, ReadTypeNext
  <2>5. rows' \in 1..2
    BY <2>3 DEF ConfigTypeOK
  <2> QED BY <2>3, <2>4, <2>5
<1>2. CASE Switched
  <2>1. cfg' \in Snapshots
    BY <1>0, <1>2 DEF Switched, Snapshots, Documents
  <2>2. revs' \in Seq([seq : Nat, prev : Nat, snap : Snapshots, of : Nat])
    BY <1>2, <2>1, RecordType, ReadTypeNext DEF Switched
  <2> QED BY <1>2, <2>1, <2>2 DEF Switched, ConfigTypeOK
<1>3. CASE Walked
  <2>1. PICK n \in CNodes, to \in NodeStates : nodeTransition(n, to)
    BY <1>3 DEF Walked
  <2>2. [cfg.nodes EXCEPT ![n] = to] \in [CNodes -> NodeStates]
    BY <1>0 DEF Documents
  <2>3. cfg' = [cfg EXCEPT !.nodes = [cfg.nodes EXCEPT ![n] = to]]
    BY <2>1 DEF nodeTransition
  <2>4. cfg' \in Snapshots
    BY <1>0, <2>2, <2>3 DEF Snapshots, Documents
  <2>5. revs' \in Seq([seq : Nat, prev : Nat, snap : Snapshots, of : Nat])
    BY <2>1, <2>4, RecordType, ReadTypeNext DEF nodeTransition
  <2>6. extra' \in [restart : SUBSET CDeps, staging : SUBSET CModels, departed : SUBSET CNodes]
    BY <2>1 DEF nodeTransition, ConfigTypeOK
  <2> QED BY <2>1, <2>4, <2>5, <2>6 DEF nodeTransition, ConfigTypeOK
<1>4. CASE Joined
  <2>1. PICK n \in CNodes : EnrollNode(n)
    BY <1>4 DEF Joined
  <2>2. [cfg.nodes EXCEPT ![n] = "pending"] \in [CNodes -> NodeStates]
    BY <1>0 DEF Documents, NodeStates
  <2>3. cfg' = [cfg EXCEPT !.nodes = [cfg.nodes EXCEPT ![n] = "pending"]]
    BY <2>1 DEF EnrollNode
  <2>4. cfg' \in Snapshots
    BY <1>0, <2>2, <2>3 DEF Snapshots, Documents
  <2> QED BY <2>1, <2>4 DEF EnrollNode, ConfigTypeOK
<1>5. CASE Noted
  BY <1>5 DEF Noted, modelRestart, modelStageReset, ConfigTypeOK
<1>6. CASE ReAddUser
  <2>1. rows = 1 /\ rows' = 2 /\ UNCHANGED <<cfg, grants, extra, revs>>
    BY <1>6 DEF ReAddUser
  <2>2. grants \subseteq (1..1) \X CRoutes
    BY <2>1 DEF ConfigTypeOK
  <2>3. grants \subseteq (1..2) \X CRoutes
    BY <2>2
  <2> QED BY <2>1, <2>3 DEF ConfigTypeOK
<1>7. CASE Quiet
  BY <1>7 DEF Quiet, ConfigTypeOK
<1> QED BY <1>1, <1>2, <1>3, <1>4, <1>5, <1>6, <1>7, StepKinds

(* Drafts and what operators were told keep their types.                   *)
LEMMA DraftType ==
  ASSUME ConfigTypeOK, [ConfigNext]_configVars
  PROVE  draft' \in [Operators -> Drafts] /\ told' \in [CRoutes -> SUBSET CDeps]
<1>0. /\ draft \in [Operators -> Drafts] /\ told \in [CRoutes -> SUBSET CDeps]
      /\ cfg \in Snapshots /\ Idle \in Drafts
  BY IdleType DEF ConfigTypeOK
<1>1. ASSUME NEW o \in Operators, exportConfig(o)
      PROVE  draft' \in [Operators -> Drafts] /\ told' = told
  <2>1. [Idle EXCEPT !.at = "read", !.kind = "doc", !.doc = Read] \in Drafts
    BY ReadType, IdleType DEF Drafts
  <2> QED BY <1>1, <2>1, <1>0 DEF exportConfig
<1>2. ASSUME NEW o \in Operators, EditDocument(o)
      PROVE  draft' \in [Operators -> Drafts] /\ told' = told
  <2>1. PICK s \in Edits(draft[o].doc) :
          draft' = [draft EXCEPT ![o] = [draft[o] EXCEPT !.doc = s, !.edits = @ + 1]]
    BY <1>2, <1>0 DEF EditDocument
  <2>2. draft[o] \in Drafts /\ draft[o].doc \in Documents
    BY <1>0 DEF Drafts
  <2>3. s \in Documents
    BY <2>2, EditsType
  <2>4. [draft[o] EXCEPT !.doc = s, !.edits = @ + 1] \in Drafts
    <3>0. draft[o].edits \in Nat
      BY <2>2 DEF Drafts
    <3>1. draft[o].edits + 1 \in Nat
      BY <3>0
    <3>2. \A x \in Drafts, y \in Nat : [x EXCEPT !.doc = s, !.edits = y] \in Drafts
      BY <2>3 DEF Drafts
    <3> QED BY <2>2, <3>1, <3>2
  <2> QED BY <1>0, <1>2, <2>1, <2>4 DEF EditDocument
<1>3. ASSUME NEW o \in Operators, Discard(o)
      PROVE  draft' \in [Operators -> Drafts] /\ told' = told
  BY <1>0, <1>3 DEF Discard
<1>4. ASSUME NEW o \in Operators, NEW r \in CRoutes, NEW add \in SUBSET CDeps, NEW del \in SUBSET CDeps,
             remoteRouteSet(o, r, add, del)
      PROVE  draft' \in [Operators -> Drafts] /\ told' = told
  <2> DEFINE at == IF cfg.routes[r].in THEN "read" ELSE "stamped"
             ms == editRoute(cfg.routes[r].members, add, del)
             y == [Idle EXCEPT !.at = at, !.kind = "route", !.route = r, !.add = add, !.del = del,
                               !.members = ms]
  <2>1. cfg.routes[r].members \subseteq CDeps
    BY <1>0, RowsIn DEF Snapshots, Documents
  <2>2. ms \in SUBSET CDeps /\ at \in {"read", "stamped"}
    BY <2>1 DEF editRoute
  <2>3. draft' = [draft EXCEPT ![o] = y] /\ told' = told
    BY <1>4 DEF remoteRouteSet
  <2> HIDE DEF at, ms
  <2>4. y \in Drafts
    BY <1>0, <2>2 DEF Drafts
  <2> HIDE DEF y
  <2> QED BY <1>0, <2>3, <2>4
<1>5. ASSUME NEW o \in Operators, setRevisionETag(o)
      PROVE  draft' \in [Operators -> Drafts] /\ told' = told
  <2>1. draft' = [draft EXCEPT ![o] = [draft[o] EXCEPT !.at = "stamped", !.etag = LatestSeq]]
    BY <1>5, <1>0 DEF setRevisionETag
  <2>2. LatestSeq \in Nat
    BY DEF LatestSeq, ConfigTypeOK
  <2>3. [draft[o] EXCEPT !.at = "stamped", !.etag = LatestSeq] \in Drafts
    BY <1>0, <2>2 DEF Drafts
  <2> QED BY <1>0, <1>5, <2>1, <2>3 DEF setRevisionETag
<1>6. ASSUME NEW o \in Operators, NEW m \in CModels, NEW d \in CDeps, NEW n \in CNodes, NEW c \in CCards,
             NEW r \in CRoutes, cmdModelRegister(o, m, d, n, c, r)
      PROVE  draft' \in [Operators -> Drafts] /\ told' = told
  <2>1. PICK b \in chooseBackend(n), p \in freePortOn(n), org \in Origins, g \in SUBSET {r} :
          draft' = [draft EXCEPT ![o] = [Idle EXCEPT !.at = "read", !.kind = "doc", !.edits = 1,
            !.doc = [NoSnap EXCEPT
              !.models[m] = [in |-> TRUE, backend |-> b, origin |-> org],
              !.deps[d] = [in |-> TRUE, model |-> m, node |-> n, backend |-> b,
                           cards |-> {c}, port |-> p, off |-> FALSE],
              !.routes[r] = [in |-> TRUE, members |-> {d}], !.grants = g]]]
    BY <1>6 DEF cmdModelRegister
  <2>2. b \in Backends /\ p \in CPorts
    BY DEF chooseBackend, freePortOn
  <2> DEFINE mrow == [in |-> TRUE, backend |-> b, origin |-> org]
             drow == [in |-> TRUE, model |-> m, node |-> n, backend |-> b,
                      cards |-> {c}, port |-> p, off |-> FALSE]
             rrow == [in |-> TRUE, members |-> {d}]
  <2>3. mrow \in ModelRows /\ drow \in DepRows /\ rrow \in RouteRows
    BY <2>2 DEF ModelRows, DepRows, RouteRows
  <2> HIDE DEF mrow, drow, rrow
  <2> DEFINE doc == [NoSnap EXCEPT !.models[m] = mrow, !.deps[d] = drow, !.routes[r] = rrow, !.grants = g]
  <2>4. /\ [NoSnap.models EXCEPT ![m] = mrow] \in [CModels -> ModelRows]
        /\ [NoSnap.deps EXCEPT ![d] = drow] \in [CDeps -> DepRows]
        /\ [NoSnap.routes EXCEPT ![r] = rrow] \in [CRoutes -> RouteRows]
    BY <2>3, NoSnapType DEF Documents
  <2>5. doc \in Documents
    BY <2>4, NoSnapType DEF Documents
  <2> HIDE DEF doc
  <2>6. [Idle EXCEPT !.at = "read", !.kind = "doc", !.edits = 1, !.doc = doc] \in Drafts
    BY <1>0, <2>5 DEF Drafts
  <2>7. draft' = [draft EXCEPT ![o] = [Idle EXCEPT !.at = "read", !.kind = "doc", !.edits = 1, !.doc = doc]]
    BY <2>1 DEF doc, mrow, drow, rrow
  <2> QED BY <1>0, <1>6, <2>6, <2>7 DEF cmdModelRegister
<1>7. ASSUME NEW want, Restated(want)
      PROVE  told' \in [CRoutes -> SUBSET CDeps]
  <2>1. \A r \in CRoutes :
          (IF want.routes[r].in \/ ~cfg'.routes[r].in THEN told[r] \cap cfg'.routes[r].members
           ELSE {d \in told[r] : cfg'.deps[d].in}) \in SUBSET CDeps
    BY <1>0
  <2> QED BY <1>7, <2>1 DEF Restated
<1>8. ASSUME NEW r, NEW add \in SUBSET CDeps, NEW del \in SUBSET CDeps, AddsTo(r, add, del)
      PROVE  told' \in [CRoutes -> SUBSET CDeps]
  BY <1>0, <1>8 DEF AddsTo
<1>9. ASSUME NEW o \in Operators, NEW p \in BOOLEAN, applyConfig(o, p) \/ cmdConfigApply(o, p)
      PROVE  draft' \in [Operators -> Drafts] /\ told' \in [CRoutes -> SUBSET CDeps]
  BY <1>0, <1>7, <1>9 DEF applyConfig, cmdConfigApply, applySnapshot
<1>10. ASSUME NEW o \in Operators, putRoute(o)
       PROVE  draft' \in [Operators -> Drafts] /\ told' \in [CRoutes -> SUBSET CDeps]
  <2>1. draft[o].add \in SUBSET CDeps /\ draft[o].del \in SUBSET CDeps
    BY <1>0 DEF Drafts
  <2> QED BY <1>0, <1>8, <1>10, <2>1 DEF putRoute
<1>11. ASSUME NEW k, NEW p, NEW etag, rollback(k, p, etag) \/ cmdConfigRollback(k, p)
       PROVE  draft' = draft /\ told' \in [CRoutes -> SUBSET CDeps]
  BY <1>7, <1>11 DEF rollback, cmdConfigRollback, applySnapshot
<1>12. ASSUME NEW r \in CRoutes, NEW e \in Singles, cmdRouteSet(r, e, {}) \/ cmdRouteSet(r, {}, e)
       PROVE  draft' = draft /\ told' \in [CRoutes -> SUBSET CDeps]
  BY <1>8, <1>12 DEF cmdRouteSet, Singles
<1>13. ASSUME HostNext
       PROVE  draft' \in [Operators -> Drafts] /\ told' \in [CRoutes -> SUBSET CDeps]
  <2>1. ASSUME \/ \E p \in Profiles : cmdPolicyApply(p)
               \/ \E m \in CModels : modelRestart(m) \/ modelStageReset(m) \/ \E off \in BOOLEAN : cmdModelToggle(m, off)
               \/ \E n \in CNodes, to \in NodeStates : nodeTransition(n, to)
               \/ ReAddUser
        PROVE  draft' = draft /\ told' = told
    BY <2>1 DEF cmdPolicyApply, SetPolicy, modelRestart, modelStageReset, cmdModelToggle, Toggle,
                nodeTransition, ReAddUser
  <2> QED BY <1>0, <1>1, <1>2, <1>3, <1>9, <1>11, <1>13, <2>1 DEF HostNext
<1>14. ASSUME ServerNext
       PROVE  draft' \in [Operators -> Drafts] /\ told' \in [CRoutes -> SUBSET CDeps]
  <2>1. ASSUME \/ cmdLimitsSet \/ \E n \in CNodes : EnrollNode(n)
               \/ \E etag \in {LatestSeq - 1, LatestSeq} :
                    \/ putLimit(etag)
                    \/ \E p \in Profiles : applyPolicy(p, etag)
                    \/ \E m \in CModels, off \in BOOLEAN : modelToggle(m, off, etag)
        PROVE  draft' = draft /\ told' = told
    BY <2>1 DEF cmdLimitsSet, EnrollNode, putLimit, applyPolicy, SetPolicy, modelToggle, Toggle
  <2>2. ASSUME NEW o \in Operators,
               \/ \E r \in CRoutes : \E e \in Singles : remoteRouteSet(o, r, e, {}) \/ remoteRouteSet(o, r, {}, e)
               \/ setRevisionETag(o) \/ putRoute(o) \/ Discard(o)
               \/ \E m \in CModels, d \in CDeps, n \in CNodes, c \in CCards, r \in CRoutes :
                    cmdModelRegister(o, m, d, n, c, r)
               \/ cmdConfigApply(o, FALSE) \/ applyConfig(o, FALSE)
        PROVE  draft' \in [Operators -> Drafts] /\ told' \in [CRoutes -> SUBSET CDeps]
    <3>1. \A e \in Singles : e \in SUBSET CDeps /\ {} \in SUBSET CDeps
      BY DEF Singles
    <3>2. CASE \E r \in CRoutes : \E e \in Singles : remoteRouteSet(o, r, e, {}) \/ remoteRouteSet(o, r, {}, e)
      BY <1>0, <1>4, <3>1, <3>2
    <3>3. CASE \E m \in CModels, d \in CDeps, n \in CNodes, c \in CCards, r \in CRoutes :
                 cmdModelRegister(o, m, d, n, c, r)
      BY <1>0, <1>6, <3>3
    <3>4. CASE setRevisionETag(o) \/ Discard(o)
      BY <1>0, <1>3, <1>5, <3>4
    <3>5. CASE cmdConfigApply(o, FALSE) \/ applyConfig(o, FALSE)
      BY <1>9, <3>5
    <3> QED BY <1>10, <2>2, <3>2, <3>3, <3>4, <3>5
  <2>3. ASSUME \E r \in CRoutes : \E e \in Singles : cmdRouteSet(r, e, {}) \/ cmdRouteSet(r, {}, e)
        PROVE  draft' \in [Operators -> Drafts] /\ told' \in [CRoutes -> SUBSET CDeps]
    BY <1>0, <1>12, <2>3
  <2>4. ASSUME NEW etag, NEW k \in DOMAIN revs, NEW p \in BOOLEAN, rollback(k, p, etag)
        PROVE  draft' \in [Operators -> Drafts] /\ told' \in [CRoutes -> SUBSET CDeps]
    BY <1>0, <1>11, <2>4
  <2> QED BY <1>0, <1>14, <2>1, <2>2, <2>3, <2>4, Zenon DEF ServerNext
<1> QED BY <1>0, <1>13, <1>14 DEF ConfigNext, configVars

LEMMA TypeStep == ConfigTypeOK /\ [ConfigNext]_configVars => ConfigTypeOK'
  BY TablesType, DraftType DEF ConfigTypeOK

LEMMA TypeInit == ConfigInit => ConfigTypeOK
<1> SUFFICES ASSUME ConfigInit PROVE ConfigTypeOK
  OBVIOUS
<1>1. First \in Snapshots /\ First \in Documents /\ First.grants \subseteq CRoutes
  BY FirstAssumption DEF Snapshots, Documents
<1>2. cfg \in Snapshots
  BY <1>1 DEF ConfigInit, Snapshots, Documents
<1>3. grants \subseteq (1..rows) \X CRoutes /\ rows \in 1..2
  BY <1>1 DEF ConfigInit
<1>4. revs \in Seq([seq : Nat, prev : Nat, snap : Snapshots, of : Nat])
  <2> DEFINE R == [seq : Nat, prev : Nat, snap : Snapshots, of : Nat]
             e == [seq |-> 1, prev |-> 0, snap |-> First, of |-> 0]
  <2>1. e \in R /\ revs = <<e>>
    BY <1>1 DEF ConfigInit
  <2> HIDE DEF R, e
  <2>2. revs \in Seq(R)
    BY <2>1
  <2> QED BY <2>2 DEF R
<1>5. extra \in [restart : SUBSET CDeps, staging : SUBSET CModels, departed : SUBSET CNodes]
  BY DEF ConfigInit
<1>6. draft \in [Operators -> Drafts] /\ told \in [CRoutes -> SUBSET CDeps]
  BY IdleType DEF ConfigInit
<1> QED BY <1>2, <1>3, <1>4, <1>5, <1>6 DEF ConfigTypeOK

(* Type correctness of the configuration: whatever documents operators     *)
(* edit, send, roll back or register, the tables, every revision and every *)
(* draft stay snapshots and documents of config/snapshot.go.               *)
THEOREM ConfigTypeCorrect == ConfigSpec => []ConfigTypeOK
  BY TypeInit, TypeStep, PTL DEF ConfigSpec

-----------------------------------------------------------------------------
(* Refinement: every change is one revision that holds what it left.       *)

(* What is read does not depend on the user a name has now.                *)
LEMMA SameRead ==
  ASSUME ConfigTypeOK, cfg' = cfg, grants' = grants, rows' = rows \/ (rows = 1 /\ rows' = 2)
  PROVE  Read' = Read
<1>1. grants \subseteq (1..rows) \X CRoutes /\ rows \in 1..2
  BY DEF ConfigTypeOK
<1>2. \A r \in CRoutes : (\E u \in 1..rows' : <<u, r>> \in grants') <=> (\E u \in 1..rows : <<u, r>> \in grants)
  BY <1>1
<1>3. readGrants' = readGrants
  BY <1>2 DEF readGrants
<1> QED BY <1>3 DEF Read

(* The snapshots of the revisions, as Versioned sees them.                 *)
Snaps == [i \in DOMAIN revs |-> revs[i].snap]

LEMMA AppendIs ==
  ASSUME NEW S, NEW q \in Seq(S), NEW x \in S, NEW f \in [1..(Len(q) + 1) -> S],
         \A i \in 1..Len(q) : f[i] = q[i], f[Len(q) + 1] = x
  PROVE  f = Append(q, x)
<1>1. Append(q, x) \in Seq(S) /\ Len(Append(q, x)) = Len(q) + 1 /\ Len(q) \in Nat
  OBVIOUS
<1>2. \A i \in 1..Len(q) : Append(q, x)[i] = q[i]
  OBVIOUS
<1>3. Append(q, x)[Len(q) + 1] = x
  OBVIOUS
<1>4. Append(q, x) \in [1..(Len(q) + 1) -> S]
  <2> DEFINE t == Append(q, x)
  <2>1. t \in Seq(S) /\ Len(t) = Len(q) + 1
    BY <1>1
  <2> HIDE DEF t
  <2>2. t \in [1..Len(t) -> S]
    BY <2>1
  <2> QED BY <2>1, <2>2 DEF t
<1>5. \A i \in 1..(Len(q) + 1) : f[i] = Append(q, x)[i]
  BY <1>1, <1>2, <1>3
<1> QED BY <1>4, <1>5

LEMMA SnapsAppended ==
  ASSUME ConfigTypeOK, NEW of \in Nat, Record(of), cfg' \in Snapshots
  PROVE  Snaps' = Append(Snaps, Read')
<1>0. /\ revs' \in Seq([seq : Nat, prev : Nat, snap : Snapshots, of : Nat])
      /\ Len(revs') = Len(revs) + 1
      /\ \A i \in DOMAIN revs : revs'[i] = revs[i]
      /\ revs'[Len(revs) + 1] = [seq |-> Len(revs) + 1, prev |-> Len(revs), snap |-> Read', of |-> of]
  BY RecordType, ReadTypeNext
<1>1. /\ revs' \in Seq([seq : Nat, prev : Nat, snap : Snapshots, of : Nat])
      /\ Len(revs') = Len(revs) + 1 /\ revs'[Len(revs) + 1].snap = Read'
      /\ \A i \in DOMAIN revs : revs'[i] = revs[i]
  BY <1>0
<1>2. DOMAIN revs = 1..Len(revs) /\ Len(revs) \in Nat /\ DOMAIN revs' = 1..(Len(revs) + 1)
  BY <1>1 DEF ConfigTypeOK
<1>3. Snaps \in Seq(Snapshots) /\ Len(Snaps) = Len(revs)
  <2>1. \A i \in DOMAIN revs : revs[i].snap \in Snapshots
    BY RevisionType
  <2> QED BY <1>2, <2>1 DEF Snaps
<1>4. Snaps' = [i \in 1..(Len(revs) + 1) |-> revs'[i].snap]
  BY <1>2 DEF Snaps
<1>5. \A i \in 1..Len(revs) : revs'[i].snap = Snaps[i]
  BY <1>1, <1>2 DEF Snaps
<1>6. Read' \in Snapshots
  BY ReadTypeNext
<1>7. \A i \in 1..(Len(revs) + 1) : revs'[i].snap \in Snapshots
  <2> TAKE i \in 1..(Len(revs) + 1)
  <2>1. CASE i \in 1..Len(revs)
    <3>1. Snaps[i] \in Snapshots
      BY <1>2, <2>1, RevisionType DEF Snaps
    <3> QED BY <1>5, <2>1, <3>1
  <2>2. CASE i = Len(revs) + 1
    BY <1>1, <1>6, <2>2
  <2> QED BY <1>2, <2>1, <2>2
<1> HIDE DEF Snaps
<1>8. Snaps' \in [1..(Len(Snaps) + 1) -> Snapshots]
  BY <1>3, <1>4, <1>7
<1>9. \A i \in 1..Len(Snaps) : Snaps'[i] = Snaps[i]
  BY <1>2, <1>3, <1>4, <1>5
<1>10. Snaps'[Len(Snaps) + 1] = Read'
  BY <1>1, <1>2, <1>3, <1>4
<1> QED BY <1>3, <1>6, <1>8, <1>9, <1>10, AppendIs

LEMMA VersionedStep ==
  ASSUME ConfigTypeOK, [ConfigNext]_configVars
  PROVE  [V!VersionedNext]_<<Read, Snaps>>
<1>0. cfg' \in Snapshots
  BY TablesType
<1>1. ASSUME NEW of \in Nat, Record(of)
      PROVE  V!VersionedNext
  BY <1>0, <1>1, SnapsAppended DEF V!VersionedNext, V!Commit, Snaps
<1>2. CASE SomeApplied
  BY <1>1, <1>2 DEF SomeApplied, Applied
<1>3. CASE Switched
  BY <1>1, <1>3 DEF Switched
<1>4. CASE Walked
  BY <1>1, <1>4 DEF Walked, nodeTransition
<1>5. CASE Joined
  <2>1. PICK n \in CNodes : EnrollNode(n)
    BY <1>5 DEF Joined
  <2>2. Read.nodes = cfg.nodes /\ DOMAIN Read.nodes = CNodes /\ Read.nodes[n] = "none"
    BY <2>1, ReadType DEF EnrollNode, Snapshots, Documents
  <2>3. readGrants' = readGrants /\ Snaps' = Snaps
    BY <2>1 DEF EnrollNode, readGrants, Snaps
  <2>4. Read' = [Read EXCEPT !.nodes[n] = "pending"]
    <3>1. cfg \in Documents /\ cfg' = [cfg EXCEPT !.nodes[n] = "pending"]
      BY <2>1 DEF EnrollNode, ConfigTypeOK, Snapshots
    <3>2. Read = [cfg EXCEPT !.grants = readGrants]
          /\ Read' = [[cfg EXCEPT !.nodes[n] = "pending"] EXCEPT !.grants = readGrants]
      BY <2>3, <3>1 DEF Read
    <3> QED BY <3>1, <3>2 DEF Documents
  <2> QED BY <2>2, <2>3, <2>4 DEF V!VersionedNext, V!Join, Snaps
<1>6. CASE Noted \/ ReAddUser \/ Quiet
  <2>1. Read' = Read
    BY <1>6, SameRead DEF Noted, modelRestart, modelStageReset, ReAddUser, Quiet
  <2>2. Snaps' = Snaps
    BY <1>6 DEF Noted, modelRestart, modelStageReset, ReAddUser, Quiet, Snaps
  <2> QED BY <2>1, <2>2
<1> QED BY <1>2, <1>3, <1>4, <1>5, <1>6, StepKinds

(* The configuration implements Versioned (the run's ImplementsVersioned), *)
(* for every instance: a change of what config.Read returns, by whichever  *)
(* verb of the API or the host, is one revision that holds the value       *)
(* afterwards, and only enrolling a node moves the value without one.      *)
THEOREM RefinesVersioned == ConfigSpec => ImplementsVersioned
<1>1. ConfigInit => Snaps # <<>> /\ Read = Snaps[Len(Snaps)]
  <2> SUFFICES ASSUME ConfigInit PROVE Snaps # <<>> /\ Read = Snaps[Len(Snaps)]
    OBVIOUS
  <2>1. First \in Documents /\ First.grants \subseteq CRoutes
    BY FirstAssumption DEF Snapshots, Documents
  <2>2. readGrants = First.grants
    BY <2>1 DEF readGrants, ConfigInit
  <2>3. Read = First
    BY <2>1, <2>2 DEF Read, ConfigInit, Documents
  <2>4. Snaps = [i \in 1..1 |-> First]
    BY DEF ConfigInit, Snaps
  <2> QED BY <2>3, <2>4
<1>2. ConfigTypeOK /\ [ConfigNext]_configVars => [V!VersionedNext]_<<Read, Snaps>>
  BY VersionedStep
<1> QED BY <1>1, <1>2, ConfigTypeCorrect, PTL DEF ConfigSpec, ImplementsVersioned, V!VersionedSpec, Snaps

-----------------------------------------------------------------------------
(* The invariants.                                                         *)

(* What the chain of revisions adds to the properties of the tables: every *)
(* snapshot refers to what is in it, and a rollback is of an earlier one.  *)
SnapsSound == \A i \in DOMAIN revs : revs[i].of < i /\ ReferencesIn(revs[i].snap)

CInv == ConfigTypeOK /\ OneServer /\ References /\ RoutesSpeakOpenAI /\ Verify /\ SnapsSound /\ RollbackRestores

(* What a document that is applied has passed, and what it leaves.         *)
LEMMA ApplyResult ==
  ASSUME ConfigTypeOK, NEW want \in Documents, NEW p \in BOOLEAN, NEW u \in 1..rows,
         Apply(want, p, u)
  PROVE  /\ cfg'.nodes = [n \in CNodes |-> IF want.nodes[n] # "none" THEN want.nodes[n] ELSE cfg.nodes[n]]
         /\ cfg'.models = prune(Merge(cfg.models, want.models), want.models, p)
         /\ cfg'.deps = prune(Merge(cfg.deps, want.deps), want.deps, p)
         /\ cfg'.routes = Dependents(prune(Merge(cfg.routes, want.routes), want.routes, p), cfg'.deps)
         /\ cfg'.limit = applyLimits(want, p)
         /\ cfg'.backends = prune(MergedBackends(want), want.backends, p)
         /\ cfg'.policy = cfg.policy
         /\ grants' = {g \in applyGrants(want, p, u) : cfg'.routes[g[2]].in}
         /\ extra'.restart = {d \in extra.restart : cfg'.deps[d].in}
         /\ extra'.staging = {m \in extra.staging : cfg'.models[m].in}
         /\ checkPolicy(want) /\ applyBackends(want) /\ applyModels(want, MergedBackends(want))
         /\ applyDeployments(want, Merge(cfg.models, want.models), Merge(cfg.deps, want.deps), MergedBackends(want))
         /\ \A d \in CDeps : cfg'.deps[d].in => cfg'.models[cfg'.deps[d].model].in
         /\ pruneBackends(want, p, cfg'.deps)
         /\ checkRouteDialects(cfg'.routes, cfg'.deps, cfg'.backends)
  BY DEF Apply

(* The row of a deployment after a document: the document's, or the one    *)
(* that was there.                                                         *)
LEMMA DepAfter ==
  ASSUME ConfigTypeOK, NEW want \in Documents, NEW p \in BOOLEAN, NEW u \in 1..rows,
         Apply(want, p, u), NEW d \in CDeps, cfg'.deps[d].in
  PROVE  \/ want.deps[d].in /\ cfg'.deps[d] = want.deps[d]
         \/ ~want.deps[d].in /\ cfg'.deps[d] = cfg.deps[d] /\ ~p
<1>1. cfg.deps \in [CDeps -> DepRows] /\ want.deps \in [CDeps -> DepRows]
  BY DEF ConfigTypeOK, Snapshots, Documents
<1>2. cfg'.deps = prune(Merge(cfg.deps, want.deps), want.deps, p)
  BY ApplyResult
<1> QED BY <1>1, <1>2 DEF prune, Merge

(* No card and no port is given to two deployments by a document.          *)
LEMMA ApplyOneServer ==
  ASSUME ConfigTypeOK, OneServer, NEW want \in Documents, NEW p \in BOOLEAN, NEW u \in 1..rows,
         Apply(want, p, u)
  PROVE  OneServer'
<1> SUFFICES ASSUME NEW d \in CDeps, NEW e \in CDeps, d # e, cfg'.deps[d].in, cfg'.deps[e].in,
                    cfg'.deps[d].node = cfg'.deps[e].node
             PROVE  /\ cfg'.deps[d].cards \cap cfg'.deps[e].cards = {}
                    /\ cfg'.deps[d].port = cfg'.deps[e].port => cfg'.deps[d].port = 0
  BY DEF OneServer, OneServerIn
<1>0. /\ cfg.deps \in [CDeps -> DepRows] /\ want.deps \in [CDeps -> DepRows]
      /\ CDeps \subseteq Int /\ CPorts \subseteq Nat
  BY ConfigAssumption DEF ConfigTypeOK, Snapshots, Documents
<1>1. applyDeployments(want, Merge(cfg.models, want.models), Merge(cfg.deps, want.deps), MergedBackends(want))
  BY ApplyResult
<1>2. \A x \in CDeps : want.deps[x].in => Claim(x, want)
  BY <1>1 DEF applyDeployments
<1>3. checkPorts(want, Merge(cfg.deps, want.deps))
  BY <1>1 DEF applyDeployments
<1>4. \A x \in CDeps : want.deps[x].in => want.deps[x].port \in Nat
  BY <1>0, DepFields
<1>5. CASE want.deps[d].in /\ want.deps[e].in
  <2>1. cfg'.deps[d] = want.deps[d] /\ cfg'.deps[e] = want.deps[e]
    BY <1>5, DepAfter
  <2>2. want.deps[d].cards \cap want.deps[e].cards = {}
    <3>1. CASE e < d
      BY <1>2, <1>5, <2>1, <3>1 DEF Claim
    <3>2. CASE d < e
      BY <1>2, <1>5, <2>1, <3>2 DEF Claim
    <3> QED BY <1>0, <3>1, <3>2
  <2>3. Merge(cfg.deps, want.deps)[e] = want.deps[e]
    BY <1>0, <1>5 DEF Merge
  <2>4. want.deps[d].port > 0 => want.deps[d].port # want.deps[e].port
    BY <1>3, <1>5, <2>1, <2>3 DEF checkPorts
  <2> QED BY <1>4, <1>5, <2>1, <2>2, <2>4
<1>6. ASSUME NEW x \in CDeps, NEW y \in CDeps, x # y, want.deps[x].in, ~want.deps[y].in,
             cfg.deps[y].node = want.deps[x].node
      PROVE  /\ want.deps[x].cards \cap cfg.deps[y].cards = {}
             /\ want.deps[x].port = cfg.deps[y].port => want.deps[x].port = 0
  <2>1. cfg.deps[y].cards \cap want.deps[x].cards = {}
    BY <1>2, <1>6 DEF Claim
  <2>2. Merge(cfg.deps, want.deps)[y] = cfg.deps[y]
    BY <1>0, <1>6 DEF Merge
  <2>3. want.deps[x].port > 0 => want.deps[x].port # cfg.deps[y].port
    BY <1>3, <1>6, <2>2 DEF checkPorts
  <2> QED BY <1>4, <1>6, <2>1, <2>3
<1>7. CASE want.deps[d].in /\ ~want.deps[e].in
  BY <1>6, <1>7, DepAfter
<1>8. CASE ~want.deps[d].in /\ want.deps[e].in
  BY <1>6, <1>8, DepAfter
<1>9. CASE ~want.deps[d].in /\ ~want.deps[e].in
  BY <1>9, DepAfter DEF OneServer, OneServerIn
<1> QED BY <1>5, <1>7, <1>8, <1>9

(* A document leaves no dangling reference and no foreign member.          *)
LEMMA ApplyReferences ==
  ASSUME ConfigTypeOK, References, NEW want \in Documents, NEW p \in BOOLEAN, NEW u \in 1..rows,
         Apply(want, p, u)
  PROVE  References' /\ RoutesSpeakOpenAI'
<1>0. /\ cfg.deps \in [CDeps -> DepRows] /\ want.deps \in [CDeps -> DepRows]
      /\ cfg.nodes \in [CNodes -> NodeStates] /\ want.nodes \in [CNodes -> NodeStates]
  BY DEF ConfigTypeOK, Snapshots, Documents
<1>1. /\ cfg' \in Snapshots /\ cfg'.routes \in [CRoutes -> RouteRows]
      /\ cfg'.deps \in [CDeps -> DepRows]
  BY ApplyType DEF Snapshots, Documents
<1>2. ASSUME NEW d \in CDeps, cfg'.deps[d].in
      PROVE  cfg'.models[cfg'.deps[d].model].in /\ cfg'.nodes[cfg'.deps[d].node] # "none"
  <2>1. cfg'.models[cfg'.deps[d].model].in
    BY <1>2, ApplyResult
  <2>2. cfg'.nodes = [n \in CNodes |-> IF want.nodes[n] # "none" THEN want.nodes[n] ELSE cfg.nodes[n]]
    BY ApplyResult
  <2>3. cfg'.deps[d].node \in CNodes
    BY <1>1, <1>2, DepFields
  <2>4. cfg.nodes[cfg'.deps[d].node] # "none"
    <3>1. CASE want.deps[d].in /\ cfg'.deps[d] = want.deps[d]
      <4>1. applyDeployments(want, Merge(cfg.models, want.models), Merge(cfg.deps, want.deps), MergedBackends(want))
        BY ApplyResult
      <4> QED BY <3>1, <4>1 DEF applyDeployments
    <3>2. CASE cfg'.deps[d] = cfg.deps[d]
      BY <1>2, <3>2, ReadType DEF References, ReferencesIn
    <3> QED BY <1>2, <3>1, <3>2, DepAfter
  <2> QED BY <2>1, <2>2, <2>3, <2>4
<1>3. ASSUME NEW r \in CRoutes, NEW d \in cfg'.routes[r].members
      PROVE  cfg'.deps[d].in
  <2> DEFINE rs == prune(Merge(cfg.routes, want.routes), want.routes, p)
  <2>1. cfg'.routes = Dependents(rs, cfg'.deps)
    BY ApplyResult
  <2>2. rs \in [CRoutes -> RouteRows]
    BY MergeType DEF prune, ConfigTypeOK, Snapshots, Documents
  <2> HIDE DEF rs
  <2>3. cfg'.routes[r] = [rs[r] EXCEPT !.members = {x \in @ : cfg'.deps[x].in}]
    BY <2>1 DEF Dependents
  <2>4. rs[r] = [in |-> rs[r].in, members |-> rs[r].members]
    BY <2>2, RouteFields
  <2>5. cfg'.routes[r].members = {x \in rs[r].members : cfg'.deps[x].in}
    BY <2>3, <2>4
  <2> QED BY <1>3, <2>5
<1>4. ASSUME NEW r \in readGrants'
      PROVE  cfg'.routes[r].in
  <2>1. PICK v \in 1..rows' : <<v, r>> \in grants'
    BY DEF readGrants
  <2>2. grants' = {g \in applyGrants(want, p, u) : cfg'.routes[g[2]].in}
    BY ApplyResult
  <2> QED BY <2>1, <2>2
<1>5. ReferencesIn(Read)'
  BY <1>1, <1>2, <1>3, <1>4, ReadTypeNext DEF ReferencesIn
<1>6. (\A d \in extra'.restart : cfg'.deps[d].in) /\ (\A m \in extra'.staging : cfg'.models[m].in)
  BY ApplyResult
<1>7. RoutesSpeakOpenAI'
  BY ApplyResult DEF RoutesSpeakOpenAI, SpeaksOpenAI, checkRouteDialects
<1> QED BY <1>5, <1>6, <1>7 DEF References

(* Steps that touch neither deployments, models, routes nor grants.        *)
LEMMA QuietReferences ==
  ASSUME ConfigTypeOK, References, RoutesSpeakOpenAI, OneServer, cfg' \in Snapshots,
         cfg'.deps = cfg.deps, cfg'.models = cfg.models, cfg'.routes = cfg.routes,
         cfg'.backends = cfg.backends, readGrants' = readGrants,
         \A n \in CNodes : cfg.nodes[n] # "none" => cfg'.nodes[n] # "none",
         \A d \in extra'.restart : d \in extra.restart \/ cfg.deps[d].in,
         \A m \in extra'.staging : m \in extra.staging \/ cfg.models[m].in
  PROVE  References' /\ RoutesSpeakOpenAI' /\ OneServer'
<1>1. /\ Read.deps' = Read.deps /\ Read.models' = Read.models /\ Read.routes' = Read.routes
      /\ Read.grants' = Read.grants /\ Read.nodes' = cfg.nodes' /\ Read.nodes = cfg.nodes
  BY ReadType, ReadTypeNext
<1>2. \A d \in CDeps : cfg.deps[d].in => cfg.deps[d].node \in CNodes
  BY DepFields DEF ConfigTypeOK, Snapshots, Documents
<1>3. ReferencesIn(Read)'
  BY <1>1, <1>2, ReadType DEF References, ReferencesIn
<1>4. (\A d \in extra'.restart : cfg'.deps[d].in) /\ (\A m \in extra'.staging : cfg'.models[m].in)
  BY DEF References
<1>5. RoutesSpeakOpenAI' /\ OneServer'
  BY DEF RoutesSpeakOpenAI, SpeaksOpenAI, OneServer, OneServerIn
<1> QED BY <1>3, <1>4, <1>5 DEF References

(* The tables refer to what is there, and give no card twice, after a step.*)
LEMMA TablesSound ==
  ASSUME ConfigTypeOK, OneServer, References, RoutesSpeakOpenAI, [ConfigNext]_configVars
  PROVE  OneServer' /\ References' /\ RoutesSpeakOpenAI'
<1>0. cfg' \in Snapshots /\ cfg \in Documents
  BY TablesType DEF ConfigTypeOK, Snapshots
<1>1. CASE SomeApplied
  <2>1. PICK want \in Documents, p \in BOOLEAN, u \in 1..rows, of \in Nat : Applied(want, p, u, of)
    BY <1>1 DEF SomeApplied
  <2>2. Apply(want, p, u)
    BY <2>1 DEF Applied
  <2> QED BY <2>2, ApplyOneServer, ApplyReferences
<1>2. CASE Switched
  <2>1. /\ cfg'.deps = cfg.deps /\ cfg'.models = cfg.models /\ cfg'.routes = cfg.routes
        /\ cfg'.backends = cfg.backends /\ cfg'.nodes = cfg.nodes /\ extra' = extra
    BY <1>0, <1>2 DEF Switched, Documents
  <2>2. readGrants' = readGrants
    BY <1>2 DEF Switched, readGrants
  <2> QED BY <1>0, <2>1, <2>2, QuietReferences
<1>3. CASE Walked
  <2>1. PICK n \in CNodes, to \in NodeStates : nodeTransition(n, to)
    BY <1>3 DEF Walked
  <2>2. cfg' = [cfg EXCEPT !.nodes[n] = to] /\ to # "none"
    BY <2>1 DEF nodeTransition
  <2>3. /\ cfg'.deps = cfg.deps /\ cfg'.models = cfg.models /\ cfg'.routes = cfg.routes
        /\ cfg'.backends = cfg.backends /\ cfg'.nodes = [cfg.nodes EXCEPT ![n] = to]
    BY <1>0, <2>2 DEF Documents
  <2>4. extra'.restart = extra.restart /\ extra'.staging = extra.staging
    BY <2>1 DEF nodeTransition, ConfigTypeOK
  <2>5. readGrants' = readGrants
    BY <2>1 DEF nodeTransition, readGrants
  <2>6. \A x \in CNodes : cfg.nodes[x] # "none" => cfg'.nodes[x] # "none"
    BY <1>0, <2>2, <2>3 DEF Documents
  <2> QED BY <1>0, <2>3, <2>4, <2>5, <2>6, QuietReferences
<1>4. CASE Joined
  <2>1. PICK n \in CNodes : EnrollNode(n)
    BY <1>4 DEF Joined
  <2>2. cfg' = [cfg EXCEPT !.nodes[n] = "pending"] /\ extra' = extra
    BY <2>1 DEF EnrollNode
  <2>3. /\ cfg'.deps = cfg.deps /\ cfg'.models = cfg.models /\ cfg'.routes = cfg.routes
        /\ cfg'.backends = cfg.backends /\ cfg'.nodes = [cfg.nodes EXCEPT ![n] = "pending"]
    BY <1>0, <2>2 DEF Documents
  <2>4. readGrants' = readGrants
    BY <2>1 DEF EnrollNode, readGrants
  <2>5. \A x \in CNodes : cfg.nodes[x] # "none" => cfg'.nodes[x] # "none"
    BY <1>0, <2>2, <2>3 DEF Documents
  <2> QED BY <1>0, <2>2, <2>3, <2>4, <2>5, QuietReferences
<1>5. CASE Noted
  <2>1. cfg' = cfg /\ readGrants' = readGrants
    BY <1>5 DEF Noted, modelRestart, modelStageReset, readGrants
  <2>2. /\ \A d \in extra'.restart : d \in extra.restart \/ cfg.deps[d].in
        /\ \A m \in extra'.staging : m \in extra.staging \/ cfg.models[m].in
    <3>1. ASSUME NEW m \in CModels, modelRestart(m)
          PROVE  <2>2!1 /\ <2>2!2
      BY <3>1 DEF modelRestart, ConfigTypeOK
    <3>2. ASSUME NEW m \in CModels, modelStageReset(m)
          PROVE  <2>2!1 /\ <2>2!2
      BY <3>2 DEF modelStageReset, ConfigTypeOK
    <3> QED BY <1>5, <3>1, <3>2 DEF Noted
  <2> QED BY <1>0, <2>1, <2>2, QuietReferences
<1>6. CASE ReAddUser
  <2>1. cfg' = cfg /\ extra' = extra
    BY <1>6 DEF ReAddUser
  <2>2. readGrants' = readGrants
    BY <1>6 DEF ReAddUser, readGrants, ConfigTypeOK
  <2> QED BY <1>0, <2>1, <2>2, QuietReferences
<1>7. CASE Quiet
  <2>1. cfg' = cfg /\ extra' = extra /\ readGrants' = readGrants
    BY <1>7 DEF Quiet, readGrants
  <2> QED BY <1>0, <2>1, QuietReferences
<1> QED BY <1>1, <1>2, <1>3, <1>4, <1>5, <1>6, <1>7, StepKinds
(* What a rollback that prunes leaves is the revision it names: nothing of *)
(* the document is lost to the rows it takes away, because the revision    *)
(* refers to nothing outside itself.                                       *)
LEMMA RollbackApplied ==
  ASSUME ConfigTypeOK, NEW want \in Snapshots, ReferencesIn(want), NEW u \in 1..rows,
         Apply(want, TRUE, u)
  PROVE  /\ [Read' EXCEPT !.nodes = want.nodes, !.grants = want.grants] = want
         /\ \A n \in CNodes : want.nodes[n] # "none" => Read'.nodes[n] = want.nodes[n]
         /\ rows = 1 => Read'.grants = want.grants
<1>0. want \in Documents /\ want.policy \in Profiles /\ cfg' \in Snapshots
  BY ApplyType DEF Snapshots
<1>1. Read' \in Documents
  BY <1>0, ReadTypeNext
<1>2. /\ Read'.models = want.models /\ Read'.deps = want.deps
      /\ Read'.backends = want.backends /\ Read'.limit = want.limit
  BY <1>0, ReadTypeNext, ApplyResult DEF prune, applyLimits
<1>3. Read'.policy = want.policy
  <2>1. checkPolicy(want) /\ cfg'.policy = cfg.policy
    BY <1>0, ApplyResult
  <2> QED BY <1>0, <2>1, ReadTypeNext, ConfigAssumption DEF checkPolicy
<1>4. Read'.routes = want.routes
  <2>1. cfg'.routes = Dependents(want.routes, want.deps)
    BY <1>0, ApplyResult DEF prune
  <2>2. want.routes \in [CRoutes -> RouteRows]
    BY <1>0 DEF Documents
  <2>3. \A r \in CRoutes : [want.routes[r] EXCEPT !.members = {d \in @ : want.deps[d].in}] = want.routes[r]
    <3> TAKE r \in CRoutes
    <3>1. want.routes[r] = [in |-> want.routes[r].in, members |-> want.routes[r].members]
      BY <2>2, RouteFields
    <3>2. {d \in want.routes[r].members : want.deps[d].in} = want.routes[r].members
      BY DEF ReferencesIn
    <3> QED BY <3>1, <3>2
  <2>4. Dependents(want.routes, want.deps) = want.routes
    BY <2>2, <2>3 DEF Dependents
  <2> QED BY <1>0, <2>1, <2>4, ReadTypeNext
<1>5. \A n \in CNodes : want.nodes[n] # "none" => Read'.nodes[n] = want.nodes[n]
  <2>1. cfg'.nodes = [n \in CNodes |-> IF want.nodes[n] # "none" THEN want.nodes[n] ELSE cfg.nodes[n]]
    BY <1>0, ApplyResult
  <2> QED BY <1>0, <2>1, ReadTypeNext
<1>6. ASSUME rows = 1
      PROVE  Read'.grants = want.grants
  <2>1. /\ grants' = {g \in applyGrants(want, TRUE, u) : cfg'.routes[g[2]].in}
        /\ rows' = 1 /\ u = 1 /\ grants \subseteq {1} \X CRoutes /\ cfg'.routes = want.routes
    <3>1. rows' = rows
      BY <1>0, ApplyType
    <3>2. u = 1 /\ grants \subseteq {1} \X CRoutes
      BY <1>6 DEF ConfigTypeOK
    <3>3. cfg'.routes = want.routes
      BY <1>0, <1>4, ReadTypeNext
    <3>4. grants' = {g \in applyGrants(want, TRUE, u) : cfg'.routes[g[2]].in}
      BY <1>0, ApplyResult
    <3> QED BY <1>6, <3>1, <3>2, <3>3, <3>4
  <2>2. want.grants \subseteq CRoutes /\ \A r \in want.grants : want.routes[r].in
    BY <1>0 DEF Documents, ReferencesIn
  <2>3. readGrants = {r \in CRoutes : <<1, r>> \in grants}
    BY <1>6 DEF readGrants
  <2>4. \A r \in CRoutes : <<1, r>> \in applyGrants(want, TRUE, u) <=> r \in want.grants
    BY <2>1, <2>2, <2>3 DEF applyGrants
  <2>5. \A r \in CRoutes : <<1, r>> \in grants' <=> r \in want.grants
    BY <2>1, <2>2, <2>4
  <2>6. readGrants' = {r \in CRoutes : <<1, r>> \in grants'}
    BY <2>1 DEF readGrants
  <2>7. readGrants' = want.grants
    BY <2>2, <2>5, <2>6
  <2> QED BY <1>0, <2>7, ReadTypeNext
<1>7. [Read' EXCEPT !.nodes = want.nodes, !.grants = want.grants] = want
  BY <1>0, <1>1, <1>2, <1>3, <1>4 DEF Documents
<1> QED BY <1>5, <1>6, <1>7
(* A step appends at most one revision, and the users of the name are not  *)
(* fewer after it.                                                         *)
LEMMA RevsGrow ==
  ASSUME ConfigTypeOK, [ConfigNext]_configVars
  PROVE  /\ rows' = 1 => rows = 1
         /\ \/ revs' = revs
            \/ \E of \in Nat :
                 /\ Record(of)
                 /\ of # 0 => \E u \in 1..rows : of \in DOMAIN revs /\ Apply(Get(of), TRUE, u)
<1>1. CASE SomeApplied
  <2>1. PICK want \in Documents, p \in BOOLEAN, u \in 1..rows, of \in Nat : Applied(want, p, u, of)
    BY <1>1 DEF SomeApplied
  <2>2. Apply(want, p, u) /\ Record(of) /\ (of # 0 => p /\ of \in DOMAIN revs /\ want = Get(of))
    BY <2>1 DEF Applied
  <2>3. rows' = rows
    BY <2>2, ApplyType
  <2>4. of # 0 => of \in DOMAIN revs /\ Apply(Get(of), TRUE, u)
    BY <2>2
  <2> QED BY <2>2, <2>3, <2>4
<1>2. CASE Switched \/ Walked
  <2>1. Record(0) /\ rows' = rows
    BY <1>2 DEF Switched, Walked, nodeTransition
  <2> QED BY <2>1
<1>3. CASE Joined \/ Noted \/ ReAddUser \/ Quiet
  BY <1>3 DEF Joined, EnrollNode, Noted, modelRestart, modelStageReset, ReAddUser, Quiet
<1> QED BY <1>1, <1>2, <1>3, StepKinds

(* The history stays a chain that can be gone back to.                     *)
LEMMA HistoryStep ==
  ASSUME CInv, [ConfigNext]_configVars
  PROVE  Verify' /\ SnapsSound' /\ RollbackRestores'
<1>0. /\ ConfigTypeOK /\ OneServer /\ References /\ RoutesSpeakOpenAI /\ Verify /\ SnapsSound /\ RollbackRestores
      /\ cfg' \in Snapshots
  BY TablesType DEF CInv
<1>1. Read' \in Snapshots /\ ReferencesIn(Read')
  <2>1. References'
    BY <1>0, TablesSound
  <2> QED BY <1>0, <2>1, ReadTypeNext DEF References
<1>2. revs \in Seq([seq : Nat, prev : Nat, snap : Snapshots, of : Nat]) /\ DOMAIN revs = 1..Len(revs) /\ Len(revs) \in Nat
  BY <1>0 DEF ConfigTypeOK
<1>3. CASE revs' = revs
  <2>1. Verify' /\ SnapsSound'
    BY <1>0, <1>3 DEF Verify, SnapsSound
  <2>2. rows' = 1 => rows = 1
    BY <1>0, RevsGrow
  <2> QED BY <1>0, <1>3, <2>1, <2>2 DEF RollbackRestores, Get
<1>4. ASSUME NEW of \in Nat, Record(of),
             of # 0 => \E u \in 1..rows : of \in DOMAIN revs /\ Apply(Get(of), TRUE, u)
      PROVE  Verify' /\ SnapsSound' /\ RollbackRestores'
  <2> DEFINE k == Len(revs) + 1
  <2>1. /\ revs' \in Seq([seq : Nat, prev : Nat, snap : Snapshots, of : Nat])
        /\ Len(revs') = k
        /\ revs'[k] = [seq |-> k, prev |-> k - 1, snap |-> Read', of |-> of]
        /\ \A i \in DOMAIN revs : revs'[i] = revs[i]
    <3>1. k - 1 = Len(revs)
      BY <1>2
    <3>2. /\ revs' \in Seq([seq : Nat, prev : Nat, snap : Snapshots, of : Nat])
          /\ Len(revs') = k
          /\ revs'[k] = [seq |-> k, prev |-> Len(revs), snap |-> Read', of |-> of]
          /\ \A i \in DOMAIN revs : revs'[i] = revs[i]
      BY <1>0, <1>1, <1>4, RecordType
    <3> QED BY <3>1, <3>2
  <2>2. DOMAIN revs' = DOMAIN revs \cup {k}
    BY <1>2, <2>1
  <2>3. Verify'
    BY <1>0, <2>1, <2>2 DEF Verify
  <2>4. of < k
    <3>1. of # 0 => of \in 1..Len(revs)
      BY <1>2, <1>4
    <3> QED BY <1>2, <3>1
  <2>5. SnapsSound'
    BY <1>0, <1>1, <2>1, <2>2, <2>4 DEF SnapsSound
  <2>6. ASSUME NEW i \in DOMAIN revs', revs'[i].of # 0
        PROVE  LET was == revs'[revs'[i].of].snap
                   now == revs'[i].snap
               IN  /\ [now EXCEPT !.nodes = was.nodes, !.grants = was.grants] = was
                   /\ \A n \in CNodes : was.nodes[n] # "none" => now.nodes[n] = was.nodes[n]
                   /\ rows' = 1 => now.grants = was.grants
    <3>0. rows' = 1 => rows = 1
      BY <1>0, RevsGrow
    <3>1. CASE i \in DOMAIN revs
      <4>1. revs'[i] = revs[i] /\ revs[i].of < i /\ revs[i].of \in Nat /\ revs[i].of # 0
        <5>1. revs'[i] = revs[i]
          BY <2>1, <3>1
        <5>2. revs[i] \in [seq : Nat, prev : Nat, snap : Snapshots, of : Nat]
          BY <1>2, <3>1, SeqAt
        <5>3. revs[i].of < i
          BY <1>0, <3>1 DEF SnapsSound
        <5> QED BY <2>6, <5>1, <5>2, <5>3
      <4>2. revs[i].of \in DOMAIN revs
        BY <1>2, <3>1, <4>1
      <4>3. revs'[revs[i].of] = revs[revs[i].of]
        BY <2>1, <4>2
      <4> DEFINE was == revs[revs[i].of].snap
                 now == revs[i].snap
      <4>4. /\ [now EXCEPT !.nodes = was.nodes, !.grants = was.grants] = was
            /\ \A n \in CNodes : was.nodes[n] # "none" => now.nodes[n] = was.nodes[n]
            /\ rows = 1 => now.grants = was.grants
        BY <1>0, <3>1, <4>1 DEF RollbackRestores, Get
      <4>5. revs'[revs'[i].of].snap = was /\ revs'[i].snap = now
        BY <4>1, <4>3
      <4> HIDE DEF was, now
      <4> QED BY <3>0, <4>4, <4>5
    <3>2. CASE i = k
      <4>1. revs'[i].of = of /\ of # 0 /\ revs'[i].snap = Read'
        BY <2>1, <2>6, <3>2
      <4>2. PICK u \in 1..rows : of \in DOMAIN revs /\ Apply(Get(of), TRUE, u)
        BY <1>4, <4>1
      <4>3. Get(of) \in Snapshots /\ ReferencesIn(Get(of)) /\ revs'[of].snap = Get(of)
        <5>1. revs[of] \in [seq : Nat, prev : Nat, snap : Snapshots, of : Nat]
          BY <1>2, <4>2, SeqAt
        <5>2. ReferencesIn(revs[of].snap)
          BY <1>0, <4>2 DEF SnapsSound
        <5>3. revs'[of] = revs[of]
          BY <2>1, <4>2
        <5> QED BY <5>1, <5>2, <5>3 DEF Get
      <4> DEFINE was == Get(of)
      <4>4. /\ [Read' EXCEPT !.nodes = was.nodes, !.grants = was.grants] = was
            /\ \A n \in CNodes : was.nodes[n] # "none" => Read'.nodes[n] = was.nodes[n]
            /\ rows = 1 => Read'.grants = was.grants
        BY <1>0, <4>2, <4>3, RollbackApplied
      <4>5. revs'[revs'[i].of].snap = was /\ revs'[i].snap = Read'
        BY <4>1, <4>3
      <4> HIDE DEF was
      <4> QED BY <3>0, <4>4, <4>5
    <3> QED BY <2>2, <3>1, <3>2
  <2>7. RollbackRestores'
    BY <2>6 DEF RollbackRestores, Get
  <2> QED BY <2>3, <2>5, <2>7
<1> QED BY <1>0, <1>3, <1>4, RevsGrow

LEMMA CInvInit == ConfigInit => CInv
<1> SUFFICES ASSUME ConfigInit PROVE CInv
  OBVIOUS
<1>0. ConfigTypeOK
  BY TypeInit
<1>1. First \in Snapshots /\ First \in Documents /\ OneServerIn(First) /\ ReferencesIn(First) /\ SpeaksOpenAI(First)
  BY FirstAssumption DEF Snapshots
<1>2. /\ cfg.deps = First.deps /\ cfg.models = First.models /\ cfg.routes = First.routes
      /\ cfg.backends = First.backends /\ cfg.nodes = First.nodes
  BY <1>1 DEF ConfigInit, Documents
<1>3. readGrants = First.grants
  <2>1. First.grants \subseteq CRoutes
    BY <1>1 DEF Documents
  <2> QED BY <2>1 DEF readGrants, ConfigInit
<1>4. OneServer /\ RoutesSpeakOpenAI
  BY <1>1, <1>2 DEF OneServer, OneServerIn, RoutesSpeakOpenAI, SpeaksOpenAI
<1>5. ReferencesIn(Read)
  BY <1>0, <1>1, <1>2, <1>3, ReadType DEF ReferencesIn
<1>6. References
  BY <1>5 DEF References, ConfigInit
<1>7. DOMAIN revs = {1} /\ revs[1] = [seq |-> 1, prev |-> 0, snap |-> First, of |-> 0]
  BY DEF ConfigInit
<1>8. Verify /\ SnapsSound /\ RollbackRestores
  BY <1>1, <1>7 DEF Verify, SnapsSound, RollbackRestores
<1> QED BY <1>0, <1>4, <1>6, <1>8 DEF CInv

LEMMA CInvStep == CInv /\ [ConfigNext]_configVars => CInv'
<1> SUFFICES ASSUME CInv, [ConfigNext]_configVars PROVE CInv'
  OBVIOUS
<1>1. ConfigTypeOK' /\ OneServer' /\ References' /\ RoutesSpeakOpenAI'
  BY TypeStep, TablesSound DEF CInv
<1>2. Verify' /\ SnapsSound' /\ RollbackRestores'
  BY HistoryStep
<1> QED BY <1>1, <1>2 DEF CInv

LEMMA CInvCorrect == ConfigSpec => []CInv
  BY CInvInit, CInvStep, PTL DEF ConfigSpec

(* No card and no loopback port of a node is ever given to two             *)
(* deployments (the run's OneServer), although Claim and checkPorts look   *)
(* only at the rows one document names.                                    *)
THEOREM OneServerCorrect == ConfigSpec => []OneServer
<1>1. CInv => OneServer
  BY DEF CInv
<1> QED BY <1>1, CInvCorrect, PTL

(* The chain of revisions has no hole, and a rollback that prunes leaves   *)
(* what the revision it names said (the run's HistoryHolds).               *)
THEOREM HistoryCorrect == ConfigSpec => []HistoryHolds
<1>1. CInv => HistoryHolds
  BY DEF CInv, HistoryHolds
<1> QED BY <1>1, CInvCorrect, PTL
-----------------------------------------------------------------------------
(* What a step never does.                                                 *)

(* Only a document moves models and descriptors.                           *)
LEMMA RowsMove ==
  ASSUME ConfigTypeOK, [ConfigNext]_configVars, ~SomeApplied
  PROVE  cfg'.models = cfg.models /\ cfg'.backends = cfg.backends
<1>1. cfg \in Documents
  BY DEF ConfigTypeOK, Snapshots
<1>2. CASE Switched
  BY <1>1, <1>2 DEF Switched, Documents
<1>3. CASE Walked
  BY <1>1, <1>3 DEF Walked, nodeTransition, Documents
<1>4. CASE Joined
  BY <1>1, <1>4 DEF Joined, EnrollNode, Documents
<1>5. CASE Noted \/ ReAddUser \/ Quiet
  BY <1>5 DEF Noted, modelRestart, modelStageReset, ReAddUser, Quiet
<1> QED BY <1>2, <1>3, <1>4, <1>5, StepKinds

LEMMA BackendsStep ==
  ASSUME ConfigTypeOK, [ConfigNext]_configVars, NEW d \in CDeps,
         cfg.deps[d].in, cfg'.deps[d].in, cfg'.deps[d].backend = cfg.deps[d].backend,
         BackendFor(cfg.backends, cfg.deps[d].backend) # "none"
  PROVE  BackendFor(cfg'.backends, cfg.deps[d].backend) # "none"
<1> DEFINE b == cfg.deps[d].backend
<1>0. b \in Backends /\ cfg.backends \in [Registered -> {"none", "openai", "other"}]
  BY DepFields DEF ConfigTypeOK, Snapshots, Documents
<1>1. CASE ~SomeApplied
  BY <1>1, RowsMove
<1>2. CASE b \in Builtins
  <2>1. \A f : BackendFor(f, b) = "openai"
    BY <1>2, ConfigAssumption DEF BackendFor
  <2> QED BY <2>1
<1>3. CASE SomeApplied /\ b \notin Builtins
  <2>1. PICK want \in Documents, p \in BOOLEAN, u \in 1..rows, of \in Nat : Applied(want, p, u, of)
    BY <1>3 DEF SomeApplied
  <2>2. Apply(want, p, u)
    BY <2>1 DEF Applied
  <2>3. b \in Registered /\ cfg.backends[b] # "none"
    BY <1>0, <1>3 DEF Backends, BackendFor
  <2>4. /\ cfg'.backends = prune(MergedBackends(want), want.backends, p)
        /\ pruneBackends(want, p, cfg'.deps)
    BY <2>2, ApplyResult
  <2>5. want.backends[b] # "none" \/ ~p
    BY <2>3, <2>4 DEF pruneBackends
  <2>6. cfg'.backends[b] # "none"
    BY <2>3, <2>4, <2>5 DEF prune, MergedBackends
  <2>7. \A f : BackendFor(f, b) = f[b]
    BY <1>3, <2>3 DEF BackendFor
  <2> QED BY <2>6, <2>7
<1> QED BY <1>1, <1>2, <1>3

(* What a row of the configuration names is there and fits, and is not     *)
(* taken from under it (the run's ReferencesHold): over any sequence of    *)
(* documents, rollbacks, registrations and single changes.                 *)
THEOREM ReferencesCorrect == ConfigSpec => ReferencesHold
<1>1. CInv => References /\ RoutesSpeakOpenAI /\ ConfigTypeOK
  BY DEF CInv
<1>2. ConfigTypeOK /\ [ConfigNext]_configVars =>
        [\A d \in CDeps :
           LET b == cfg.deps[d].backend
           IN  (cfg.deps[d].in /\ cfg'.deps[d].in /\ cfg'.deps[d].backend = b
                  /\ BackendFor(cfg.backends, b) # "none") => BackendFor(cfg'.backends, b) # "none"]_configVars
  BY BackendsStep
<1> QED BY <1>1, <1>2, CInvCorrect, PTL DEF ConfigSpec, ReferencesHold, BackendsKept

LEMMA PostureStep ==
  ASSUME ConfigTypeOK, [ConfigNext]_configVars
  PROVE  /\ \A m \in CModels : cfg'.models[m].in
               /\ ~(cfg.models[m].in /\ cfg.models[m].origin = cfg'.models[m].origin)
               => <<cfg'.policy, cfg'.models[m].origin>> \notin Denied
         /\ \A b \in Registered : cfg'.backends[b] \notin {"none", cfg.backends[b]}
               => cfg'.policy \in CustomAllowed
<1>0. cfg.models \in [CModels -> ModelRows] /\ cfg.backends \in [Registered -> {"none", "openai", "other"}]
  BY DEF ConfigTypeOK, Snapshots, Documents
<1>1. CASE ~SomeApplied
  BY <1>1, RowsMove
<1>2. CASE SomeApplied
  <2>1. PICK want \in Documents, p \in BOOLEAN, u \in 1..rows, of \in Nat : Applied(want, p, u, of)
    BY <1>2 DEF SomeApplied
  <2>2. Apply(want, p, u)
    BY <2>1 DEF Applied
  <2>3. /\ cfg'.models = prune(Merge(cfg.models, want.models), want.models, p)
        /\ cfg'.backends = prune(MergedBackends(want), want.backends, p)
        /\ cfg'.policy = cfg.policy /\ applyBackends(want) /\ applyModels(want, MergedBackends(want))
    BY <2>2, ApplyResult
  <2>4. ASSUME NEW m \in CModels, cfg'.models[m].in,
               ~(cfg.models[m].in /\ cfg.models[m].origin = cfg'.models[m].origin)
        PROVE  <<cfg'.policy, cfg'.models[m].origin>> \notin Denied
    <3>1. want.models[m].in /\ cfg'.models[m] = want.models[m]
      BY <1>0, <2>3, <2>4 DEF prune, Merge
    <3>2. checkOrigin(m, want.models[m])
      BY <2>3, <3>1 DEF applyModels
    <3> QED BY <2>3, <2>4, <3>1, <3>2 DEF checkOrigin
  <2>5. ASSUME NEW b \in Registered, cfg'.backends[b] \notin {"none", cfg.backends[b]}
        PROVE  cfg'.policy \in CustomAllowed
    <3>1. want.backends[b] # "none"
      BY <2>3, <2>5 DEF prune, MergedBackends
    <3> QED BY <2>3, <3>1 DEF applyBackends
  <2> QED BY <2>4, <2>5
<1> QED BY <1>1, <1>2

(* No step brings in a model or a descriptor that the profile in force     *)
(* denies (the run's PostureHolds): not a partial document, and not a      *)
(* rollback to a revision from before the profile.                         *)
THEOREM PostureCorrect == ConfigSpec => PostureHolds
<1>1. ConfigTypeOK /\ [ConfigNext]_configVars =>
        [/\ \A m \in CModels : cfg'.models[m].in
               /\ ~(cfg.models[m].in /\ cfg.models[m].origin = cfg'.models[m].origin)
               => <<cfg'.policy, cfg'.models[m].origin>> \notin Denied
         /\ \A b \in Registered : cfg'.backends[b] \notin {"none", cfg.backends[b]}
               => cfg'.policy \in CustomAllowed]_configVars
  BY PostureStep
<1> QED BY <1>1, ConfigTypeCorrect, PTL DEF ConfigSpec, PostureHolds
=============================================================================
