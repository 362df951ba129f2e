---------------------------- MODULE RolloutProofs ----------------------------
(***************************************************************************)
(* Proofs about the rolling restart: one roll over any number of replicas, *)
(* with any number of agent restarts and lost reports, never takes the     *)
(* last serving one, forgets no restart that was asked for, and reports    *)
(* none as done that does not serve; and the last of these for any number  *)
(* of rolls.                                                               *)
(***************************************************************************)
EXTENDS MCRollout, FiniteSetTheorems, TLAPS

-----------------------------------------------------------------------------
(* What every step does to one node, whichever of the bounds it is under.  *)

Units == {"serving", "loading", "failed"}
Spent == [rolls : {0, 1}, crashes : Nat, losses : Nat, deaths : Nat]

(* The types the argument needs.                                           *)
Typed ==
  /\ focus \in {"roll", "live"}
  /\ used \in Spent
  /\ row \in [Nodes -> [roll : {0, 1}, seq : Nat]]
  /\ pc \in [Nodes -> {"poll", "act"}] /\ offered \in [Nodes -> BOOLEAN]
  /\ restarting \in [Nodes -> BOOLEAN] /\ latest \in [Nodes -> {"none", "healthy", "unknown"}]
  /\ msg \in [Nodes -> [sent : BOOLEAN, state : {"ready", "starting", "failed"}, done : BOOLEAN]]
  /\ unit \in [Nodes -> Units] /\ sampled \in [Nodes -> BOOLEAN] /\ served \in [Nodes -> BOOLEAN]
  /\ cycled \in [Nodes -> BOOLEAN]

(* Nothing is asked, offered or reported before the one roll; its rows     *)
(* have their own places; what was noted as restarted was cycled.          *)
OneRoll ==
  /\ used.rolls = 0 =>
       \A n \in Nodes : row[n] = NoRow /\ ~offered[n] /\ ~restarting[n] /\ ~msg[n].done
  /\ \A n \in Nodes : row[n] # NoRow => row[n].roll = 1
  /\ \A m, n \in Nodes : (row[m] # NoRow /\ row[n] # NoRow /\ m # n) => row[m].seq # row[n].seq
  /\ \A n \in Nodes : /\ restarting[n] => cycled[n]
                      /\ msg[n].done => cycled[n] /\ msg[n].sent

(* In the family "roll" a unit is down only while its node is first in the *)
(* roll: the row stays until the unit serves, and an offer is acted on     *)
(* before anything can take the row away.                                  *)
FirstInRoll ==
  focus = "roll" =>
    \A n \in Nodes :
      /\ unit[n] # "serving" => OfferedRestart(n)
      /\ offered[n] => pc[n] = "act" /\ OfferedRestart(n)
      /\ msg[n].sent => pc[n] = "poll"
      /\ msg[n].done => unit[n] = "serving"
      /\ sampled[n] /\ latest[n] = "healthy" => unit[n] = "serving"
      /\ unit[n] = "serving" => served[n]

RolloutInv == Typed /\ OneRoll /\ FirstInRoll

LEMMA NoRowTyped == NoRow \in [roll : {0, 1}, seq : Nat] /\ NoRow.roll = 0
BY DEF NoRow

LEMMA NoMsgTyped ==
  /\ NoMsg \in [sent : BOOLEAN, state : {"ready", "starting", "failed"}, done : BOOLEAN]
  /\ ~NoMsg.sent /\ ~NoMsg.done
BY DEF NoMsg

-----------------------------------------------------------------------------
(* What the steps that depend on a bound do under any of them.             *)

polled == <<row, msg, restarting, latest, unit, sampled, served, used, cycled, focus>>

PollDoes(n) ==
  /\ pc[n] = "poll" /\ (focus = "roll" => ~msg[n].sent)
  /\ offered' = [offered EXCEPT ![n] = OfferedRestart(n)]
  /\ pc' = [pc EXCEPT ![n] = "act"]
  /\ UNCHANGED polled

HeartbeatDoes(n) ==
  /\ msg[n].sent
  /\ row' = IF msg[n].done THEN [row EXCEPT ![n] = NoRow] ELSE row
  /\ msg' = [msg EXCEPT ![n] = NoMsg]
  /\ UNCHANGED <<pc, offered, restarting, latest, unit, sampled, served, used, cycled, focus>>

(* A poll is over: with a restart, with one that failed, with none, or     *)
(* with the agent.                                                         *)
CycleDoes(n) ==
  /\ offered[n]
  /\ pc' = [pc EXCEPT ![n] = "poll"] /\ offered' = [offered EXCEPT ![n] = FALSE]
  /\ unit' = [unit EXCEPT ![n] = "loading"]
  /\ restarting' = [restarting EXCEPT ![n] = TRUE]
  /\ sampled' = [sampled EXCEPT ![n] = FALSE]
  /\ served' = [served EXCEPT ![n] = FALSE]
  /\ cycled' = [cycled EXCEPT ![n] = TRUE]
  /\ UNCHANGED <<row, latest, msg, used, focus>>

DropsDoes(n) ==
  /\ pc' = [pc EXCEPT ![n] = "poll"] /\ offered' = [offered EXCEPT ![n] = FALSE]
  /\ \/ unit' = unit
     \/ focus # "roll" /\ unit' = [unit EXCEPT ![n] = "failed"]
  /\ \/ UNCHANGED <<restarting, latest>>
     \/ /\ restarting' = [restarting EXCEPT ![n] = FALSE]
        /\ latest' = [latest EXCEPT ![n] = "none"]
  /\ used'.rolls = used.rolls /\ used' \in Spent
  /\ UNCHANGED <<row, msg, sampled, served, cycled, focus>>

HealthDoes(n) ==
  /\ latest' = [latest EXCEPT ![n] = IF unit[n] = "serving" THEN "healthy" ELSE "unknown"]
  /\ sampled' = [sampled EXCEPT ![n] = TRUE]
  /\ UNCHANGED <<row, pc, offered, restarting, msg, unit, served, used, cycled, focus>>

ReportDoes(n) ==
  /\ ~msg[n].sent /\ (focus = "roll" => sampled[n] /\ pc[n] = "poll")
  /\ \E s \in ObservedStates(n) :
       /\ msg' = [msg EXCEPT ![n] = [sent |-> TRUE, state |-> s, done |-> RestartFinished(n, s)]]
       /\ restarting' = [restarting EXCEPT ![n] = @ /\ ~RestartFinished(n, s)]
  /\ UNCHANGED <<row, pc, offered, latest, unit, sampled, served, used, cycled, focus>>

LoseDoes(n) ==
  /\ msg' = [msg EXCEPT ![n] = NoMsg]
  /\ used'.rolls = used.rolls /\ used' \in Spent
  /\ UNCHANGED <<row, pc, offered, restarting, latest, unit, sampled, served, cycled, focus>>

UnitDoes(n) ==
  /\ \/ unit' = [unit EXCEPT ![n] = "serving"] /\ served' = [served EXCEPT ![n] = TRUE]
     \/ focus # "roll" /\ unit' = [unit EXCEPT ![n] = "failed"] /\ served' = served
  /\ used'.rolls = used.rolls /\ used' \in Spent
  /\ UNCHANGED <<row, pc, offered, restarting, latest, msg, sampled, cycled, focus>>

TickDoes ==
  UNCHANGED <<row, pc, offered, restarting, latest, msg, unit, sampled, served, used, cycled, focus>>

RequestDoes(targets) ==
  /\ targets \subseteq Nodes /\ used.rolls = 0 /\ used'.rolls = 1 /\ used' \in Spent
  /\ row' = [n \in Nodes |-> IF n \in targets THEN [roll |-> 1, seq |-> Sequence(targets, n)]
                             ELSE row[n]]
  /\ cycled' = [n \in Nodes |-> cycled[n] /\ n \notin targets]
  /\ UNCHANGED <<pc, offered, restarting, latest, msg, unit, sampled, served, focus>>

Does ==
  \/ \E n \in Nodes : \/ PollDoes(n) \/ HeartbeatDoes(n) \/ CycleDoes(n) \/ DropsDoes(n) \/ HealthDoes(n)
                      \/ ReportDoes(n) \/ LoseDoes(n) \/ UnitDoes(n) \/ TickDoes
  \/ \E targets \in SUBSET Nodes : RequestDoes(targets)

LEMMA SpentMore ==
  ASSUME used \in Spent,
         \/ used' = [used EXCEPT !.crashes = @ + 1] \/ used' = [used EXCEPT !.losses = @ + 1]
         \/ used' = [used EXCEPT !.deaths = @ + 1]
  PROVE  used' \in Spent /\ used'.rolls = used.rolls
BY DEF Spent

LEMMA RollDoes ==
  ASSUME MaxRolls <= 1, Typed, NEW n \in Nodes, focus = "roll", UNCHANGED focus, Roll!NodeStep(n)
  PROVE  Does
<1>0. used \in Spent
  BY DEF Typed
<1>1. CASE Roll!Heartbeat(n)
  BY <1>1 DEF Roll!Heartbeat, Does, HeartbeatDoes, Roll!NoRow, Roll!NoMsg, NoRow, NoMsg, Roll!unitVars
<1>2. CASE Roll!Poll(n)
  BY <1>2 DEF Roll!Poll, Does, PollDoes, Roll!OfferedRestart, OfferedRestart, Roll!cpVars, Roll!unitVars,
     Roll!NoRow, NoRow, polled
<1>3. CASE Roll!Cycle(n)
  BY <1>3 DEF Roll!Cycle, Does, CycleDoes, Roll!NextPoll, Roll!cpVars
<1>4. CASE Roll!CycleErrs(n)
  BY <1>0, <1>4 DEF Roll!CycleErrs, Spent
<1>5. CASE Roll!LeaveAlone(n)
  BY <1>0, <1>5 DEF Roll!LeaveAlone, Does, DropsDoes, Roll!NextPoll, Roll!cpVars, Roll!unitVars
<1>6. CASE Roll!HealthPoll(n)
  BY <1>6 DEF Roll!HealthPoll, Does, HealthDoes, Roll!cpVars
<1>7. CASE Roll!Report(n)
  BY <1>7 DEF Roll!Report, Does, ReportDoes, Roll!cpVars, Roll!unitVars, Roll!ObservedStates,
     ObservedStates, Roll!RestartFinished, RestartFinished
<1>8. CASE Roll!LoseReport(n)
  <2>1. used' \in Spent /\ used'.rolls = used.rolls
    BY <1>0, <1>8, SpentMore DEF Roll!LoseReport
  <2> QED BY <2>1, <1>8 DEF Roll!LoseReport, Does, LoseDoes, Roll!cpVars, Roll!unitVars, Roll!NoMsg, NoMsg
<1>9. CASE Roll!AgentCrash(n)
  <2>1. used' \in Spent /\ used'.rolls = used.rolls
    BY <1>0, <1>9, SpentMore DEF Roll!AgentCrash
  <2> QED BY <2>1, <1>9 DEF Roll!AgentCrash, Does, DropsDoes, Roll!cpVars, Roll!unitVars
<1>10. CASE Roll!Load(n)
  BY <1>0, <1>10 DEF Roll!Load, Does, UnitDoes, Roll!cpVars, Roll!agentVars
<1>11. CASE Roll!Die(n)
  BY <1>0, <1>11 DEF Roll!Die, Spent
<1>12. CASE Roll!Tick(n)
  BY <1>12 DEF Roll!Tick, Does, TickDoes, Roll!cpVars
<1> QED BY <1>1, <1>2, <1>3, <1>4, <1>5, <1>6, <1>7, <1>8, <1>9, <1>10, <1>11, <1>12
        DEF Roll!NodeStep

LEMMA LiveDoes ==
  ASSUME Typed, NEW n \in Nodes, focus = "live", UNCHANGED focus, Live!NodeStep(n)
  PROVE  Does
<1>0. used \in Spent
  BY DEF Typed
<1>1. CASE Live!Heartbeat(n)
  BY <1>1 DEF Live!Heartbeat, Does, HeartbeatDoes, Live!NoRow, Live!NoMsg, NoRow, NoMsg, Live!unitVars
<1>2. CASE Live!Poll(n)
  BY <1>2 DEF Live!Poll, Does, PollDoes, Live!OfferedRestart, OfferedRestart, Live!cpVars, Live!unitVars,
     Live!NoRow, NoRow, polled
<1>3. CASE Live!Cycle(n)
  BY <1>3 DEF Live!Cycle, Does, CycleDoes, Live!NextPoll, Live!cpVars
<1>4. CASE Live!CycleErrs(n)
  <2>1. used' \in Spent /\ used'.rolls = used.rolls
    BY <1>0, <1>4, SpentMore DEF Live!CycleErrs
  <2>2. unit' = unit \/ unit' = [unit EXCEPT ![n] = "failed"]
    BY <1>4 DEF Live!CycleErrs
  <2> QED BY <2>1, <2>2, <1>4 DEF Live!CycleErrs, Does, DropsDoes, Live!NextPoll, Live!cpVars
<1>5. CASE Live!LeaveAlone(n)
  BY <1>0, <1>5 DEF Live!LeaveAlone, Does, DropsDoes, Live!NextPoll, Live!cpVars, Live!unitVars
<1>6. CASE Live!HealthPoll(n)
  BY <1>6 DEF Live!HealthPoll, Does, HealthDoes, Live!cpVars
<1>7. CASE Live!Report(n)
  BY <1>7 DEF Live!Report, Does, ReportDoes, Live!cpVars, Live!unitVars, Live!ObservedStates,
     ObservedStates, Live!RestartFinished, RestartFinished
<1>8. CASE Live!LoseReport(n)
  <2>1. used' \in Spent /\ used'.rolls = used.rolls
    BY <1>0, <1>8 DEF Live!LoseReport, Spent
  <2> QED BY <2>1, <1>8 DEF Live!LoseReport, Does, LoseDoes, Live!cpVars, Live!unitVars, Live!NoMsg, NoMsg
<1>9. CASE Live!AgentCrash(n)
  <2>1. used' \in Spent /\ used'.rolls = used.rolls
    BY <1>0, <1>9 DEF Live!AgentCrash, Spent
  <2> QED BY <2>1, <1>9 DEF Live!AgentCrash, Does, DropsDoes, Live!cpVars, Live!unitVars
<1>10. CASE Live!Load(n)
  BY <1>0, <1>10 DEF Live!Load, Does, UnitDoes, Live!cpVars, Live!agentVars
<1>11. CASE Live!Die(n)
  <2>1. used' \in Spent /\ used'.rolls = used.rolls
    BY <1>0, <1>11, SpentMore DEF Live!Die
  <2> QED BY <2>1, <1>11 DEF Live!Die, Does, UnitDoes, Live!cpVars, Live!agentVars
<1>12. CASE Live!Tick(n)
  BY <1>12 DEF Live!Tick, Does, TickDoes, Live!cpVars
<1> QED BY <1>1, <1>2, <1>3, <1>4, <1>5, <1>6, <1>7, <1>8, <1>9, <1>10, <1>11, <1>12
        DEF Live!NodeStep

LEMMA OperatorDoes ==
  ASSUME MaxRolls <= 1, Typed, UNCHANGED focus, Roll!Operator \/ Live!Operator
  PROVE  Does
<1>0. used \in Spent /\ MaxRolls \in Nat
  BY RolloutAssumption DEF Typed
<1>1. PICK targets \in {Nodes} \cup {{n} : n \in Nodes}, allow \in Flags :
        Roll!RequestRestart(targets, allow) \/ Live!RequestRestart(targets, allow)
  BY DEF Roll!Operator, Live!Operator
<1>2. targets \subseteq Nodes
  BY <1>1
<1>3. used.rolls < MaxRolls /\ used.rolls = 0
  BY <1>0, <1>1 DEF Roll!RequestRestart, Live!RequestRestart, Spent
<1>4. used' = [used EXCEPT !.rolls = @ + 1]
  BY <1>1 DEF Roll!RequestRestart, Live!RequestRestart
<1>5. used' \in Spent /\ used'.rolls = 1
  BY <1>0, <1>3, <1>4 DEF Spent
<1>6. /\ row' = [n \in Nodes |-> IF n \in targets THEN [roll |-> used.rolls + 1, seq |-> Sequence(targets, n)]
                                 ELSE row[n]]
      /\ cycled' = [n \in Nodes |-> cycled[n] /\ n \notin targets]
      /\ UNCHANGED <<pc, offered, restarting, latest, msg, unit, sampled, served>>
  <2>0. ASSUME NEW n
        PROVE  Roll!Sequence(targets, n) = Sequence(targets, n)
               /\ Live!Sequence(targets, n) = Sequence(targets, n)
    BY DEF Roll!Sequence, Live!Sequence, Sequence, Roll!Cardinality, Live!Cardinality, Cardinality
  <2>1. CASE Roll!RequestRestart(targets, allow)
    BY <2>0, <2>1 DEF Roll!RequestRestart, Roll!agentVars, Roll!unitVars
  <2>2. CASE Live!RequestRestart(targets, allow)
    BY <2>0, <2>2 DEF Live!RequestRestart, Live!agentVars, Live!unitVars
  <2> QED BY <1>1, <2>1, <2>2
<1>7. used.rolls + 1 = 1
  BY <1>3
<1>8. RequestDoes(targets)
  BY <1>2, <1>3, <1>5, <1>6, <1>7 DEF RequestDoes
<1> QED BY <1>2, <1>8 DEF Does
-----------------------------------------------------------------------------
(* Places in a roll.                                                       *)

(* Different replicas have different places.                               *)
LEMMA PlacesDiffer ==
  ASSUME NEW targets \in SUBSET Nodes, NEW m \in targets, NEW n \in targets, m < n
  PROVE  Sequence(targets, m) # Sequence(targets, n)
<1> DEFINE M == {k \in targets : k < m}
           N == {k \in targets : k < n}
<1>1. IsFiniteSet(targets) /\ targets \subseteq Int
  BY RolloutAssumption, FS_Subset
<1>2. IsFiniteSet(N)
  BY <1>1, FS_Subset
<1>4. M \subseteq N /\ m \in N /\ m \notin M
  <2>1. m \in Int /\ n \in Int /\ \A k \in targets : k \in Int
    BY <1>1
  <2>2. \A k \in targets : k < m => k < n
    BY <2>1
  <2>3. M \subseteq N
    BY <2>2
  <2>4. m \in N /\ ~(m < m)
    BY <2>1
  <2> QED BY <2>3, <2>4
<1>3. Cardinality(M) # Cardinality(N)
  <2> HIDE DEF M, N
  <2> QED BY <1>2, <1>4, FS_Subset
<1> QED BY <1>3 DEF Sequence

LEMMA PlaceIsNatural ==
  ASSUME NEW targets \in SUBSET Nodes, NEW n
  PROVE  Sequence(targets, n) \in Nat
<1>1. IsFiniteSet({k \in targets : k < n})
  BY RolloutAssumption, FS_Subset
<1> QED BY <1>1, FS_CardinalityType DEF Sequence

(* Who is first in the roll stays so while another's row goes.             *)
LEMMA FirstStays ==
  ASSUME OneRoll, Typed, NEW n \in Nodes, row' = [row EXCEPT ![n] = NoRow],
         NEW m \in Nodes, m # n, OfferedRestart(m)
  PROVE  OfferedRestart(m)'
<1>1. row[m] # NoRow /\ row[m].roll = 1 /\ row'[m] = row[m]
  BY DEF OneRoll, Typed, OfferedRestart
<1>2. \A k \in Nodes : row'[k] = row[k] \/ row'[k].roll = 0
  BY NoRowTyped DEF Typed
<1>3. ~\E k \in Nodes : row'[k].roll = row'[m].roll /\ row'[k].seq < row'[m].seq
  BY <1>1, <1>2 DEF OfferedRestart
<1> QED BY <1>1, <1>3 DEF OfferedRestart

(* Only one is.                                                            *)
LEMMA OneIsFirst ==
  ASSUME OneRoll, Typed, NEW m \in Nodes, NEW n \in Nodes, OfferedRestart(m), OfferedRestart(n)
  PROVE  m = n
<1>1. row[m] # NoRow /\ row[n] # NoRow /\ row[m].roll = 1 /\ row[n].roll = 1
  BY DEF OneRoll, OfferedRestart
<1>2. row[m].seq \in Nat /\ row[n].seq \in Nat
  BY DEF Typed
<1>3. ~(row[m].seq < row[n].seq) /\ ~(row[n].seq < row[m].seq)
  BY <1>1 DEF OfferedRestart
<1> QED BY <1>1, <1>2, <1>3 DEF OneRoll

-----------------------------------------------------------------------------
(* Each step keeps the invariant.                                          *)

(* Nobody's place changes when no row does.                                *)
LEMMA SameRows ==
  ASSUME UNCHANGED row
  PROVE  \A n : OfferedRestart(n)' = OfferedRestart(n)
BY DEF OfferedRestart

LEMMA PollKeeps == ASSUME RolloutInv, NEW n \in Nodes, PollDoes(n) PROVE RolloutInv'
<1>1. Typed'
  BY DEF RolloutInv, Typed, PollDoes, polled, OfferedRestart
<1>2. OneRoll'
  BY DEF RolloutInv, Typed, OneRoll, PollDoes, polled, OfferedRestart
<1>3. FirstInRoll'
  BY SameRows DEF RolloutInv, Typed, FirstInRoll, PollDoes, polled
<1> QED BY <1>1, <1>2, <1>3 DEF RolloutInv

LEMMA HeartbeatKeeps == ASSUME RolloutInv, NEW n \in Nodes, HeartbeatDoes(n) PROVE RolloutInv'
<1>1. Typed'
  BY NoRowTyped, NoMsgTyped DEF RolloutInv, Typed, HeartbeatDoes
<1>2. OneRoll'
  BY NoMsgTyped DEF RolloutInv, Typed, OneRoll, HeartbeatDoes
<1>3. FirstInRoll'
  <2> SUFFICES ASSUME focus = "roll", NEW m \in Nodes
               PROVE  /\ unit[m] # "serving" => OfferedRestart(m)'
                      /\ offered[m] => pc[m] = "act" /\ OfferedRestart(m)'
                      /\ msg'[m].sent => pc[m] = "poll"
                      /\ msg'[m].done => unit[m] = "serving"
                      /\ sampled[m] /\ latest[m] = "healthy" => unit[m] = "serving"
                      /\ unit[m] = "serving" => served[m]
    BY DEF FirstInRoll, HeartbeatDoes
  <2>1. /\ unit[m] # "serving" => OfferedRestart(m)
        /\ offered[m] => pc[m] = "act" /\ OfferedRestart(m)
        /\ msg[m].sent => pc[m] = "poll"
        /\ msg[m].done => unit[m] = "serving"
        /\ sampled[m] /\ latest[m] = "healthy" => unit[m] = "serving"
        /\ unit[m] = "serving" => served[m]
    BY DEF RolloutInv, FirstInRoll
  <2>2. (msg'[m].sent => msg[m].sent) /\ (msg'[m].done => msg[m].done)
    BY NoMsgTyped DEF RolloutInv, Typed, HeartbeatDoes
  <2>3. CASE row' = row
    BY <2>1, <2>2, <2>3, SameRows
  <2>4. CASE msg[n].done /\ row' = [row EXCEPT ![n] = NoRow] /\ m # n
    BY <2>1, <2>2, <2>4, FirstStays DEF RolloutInv
  <2>5. CASE msg[n].done /\ m = n
    BY <2>1, <2>2, <2>5 DEF HeartbeatDoes
  <2> QED BY <2>3, <2>4, <2>5 DEF HeartbeatDoes
<1> QED BY <1>1, <1>2, <1>3 DEF RolloutInv

LEMMA CycleKeeps == ASSUME RolloutInv, NEW n \in Nodes, CycleDoes(n) PROVE RolloutInv'
<1>1. Typed'
  BY DEF RolloutInv, Typed, CycleDoes, Units
<1>2. OneRoll'
  BY DEF RolloutInv, Typed, OneRoll, CycleDoes
<1>3. FirstInRoll'
  BY SameRows DEF RolloutInv, Typed, OneRoll, FirstInRoll, CycleDoes
<1> QED BY <1>1, <1>2, <1>3 DEF RolloutInv

LEMMA DropsKeeps == ASSUME RolloutInv, NEW n \in Nodes, DropsDoes(n) PROVE RolloutInv'
<1>1. Typed'
  BY DEF RolloutInv, Typed, DropsDoes, Units
<1>2. OneRoll'
  <2>1. /\ UNCHANGED <<row, msg, cycled>> /\ used'.rolls = used.rolls
        /\ \A m \in Nodes : (offered'[m] => offered[m]) /\ (restarting'[m] => restarting[m])
    BY DEF RolloutInv, Typed, DropsDoes
  <2> QED BY <2>1 DEF RolloutInv, OneRoll
<1>3. FirstInRoll'
  BY SameRows DEF RolloutInv, Typed, FirstInRoll, DropsDoes
<1> QED BY <1>1, <1>2, <1>3 DEF RolloutInv

LEMMA HealthKeeps == ASSUME RolloutInv, NEW n \in Nodes, HealthDoes(n) PROVE RolloutInv'
<1>1. Typed'
  BY DEF RolloutInv, Typed, HealthDoes
<1>2. OneRoll'
  BY DEF RolloutInv, Typed, OneRoll, HealthDoes
<1>3. FirstInRoll'
  BY SameRows DEF RolloutInv, Typed, FirstInRoll, HealthDoes
<1> QED BY <1>1, <1>2, <1>3 DEF RolloutInv

LEMMA ReportKeeps == ASSUME RolloutInv, NEW n \in Nodes, ReportDoes(n) PROVE RolloutInv'
<1>1. PICK s \in ObservedStates(n) :
        /\ msg' = [msg EXCEPT ![n] = [sent |-> TRUE, state |-> s, done |-> RestartFinished(n, s)]]
        /\ restarting' = [restarting EXCEPT ![n] = @ /\ ~RestartFinished(n, s)]
  BY DEF ReportDoes
<1>2. s \in {"ready", "starting", "failed"} /\ (s = "ready" => latest[n] = "healthy")
  BY DEF ObservedStates
<1>3. PICK done \in BOOLEAN : done = RestartFinished(n, s)
  BY DEF RestartFinished
<1>4. done => restarting[n] /\ latest[n] = "healthy"
  BY <1>2, <1>3 DEF RestartFinished
<1>5. /\ msg' = [msg EXCEPT ![n] = [sent |-> TRUE, state |-> s, done |-> done]]
      /\ restarting' = [restarting EXCEPT ![n] = @ /\ ~done]
      /\ ~msg[n].sent /\ (focus = "roll" => sampled[n] /\ pc[n] = "poll")
      /\ UNCHANGED <<row, pc, offered, latest, unit, sampled, served, used, cycled, focus>>
  BY <1>1, <1>3 DEF ReportDoes
<1>6. Typed'
  BY <1>2, <1>5 DEF RolloutInv, Typed
<1>7. OneRoll'
  BY <1>4, <1>5 DEF RolloutInv, Typed, OneRoll
<1>8. FirstInRoll'
  BY <1>4, <1>5, SameRows DEF RolloutInv, Typed, FirstInRoll
<1> QED BY <1>6, <1>7, <1>8 DEF RolloutInv

LEMMA LoseKeeps == ASSUME RolloutInv, NEW n \in Nodes, LoseDoes(n) PROVE RolloutInv'
<1>1. Typed'
  BY NoMsgTyped DEF RolloutInv, Typed, LoseDoes
<1>2. OneRoll'
  BY NoMsgTyped DEF RolloutInv, Typed, OneRoll, LoseDoes
<1>3. FirstInRoll'
  BY NoMsgTyped, SameRows DEF RolloutInv, Typed, FirstInRoll, LoseDoes
<1> QED BY <1>1, <1>2, <1>3 DEF RolloutInv

LEMMA UnitKeeps == ASSUME RolloutInv, NEW n \in Nodes, UnitDoes(n) PROVE RolloutInv'
<1>1. Typed'
  BY DEF RolloutInv, Typed, UnitDoes, Units
<1>2. OneRoll'
  BY DEF RolloutInv, Typed, OneRoll, UnitDoes
<1>3. FirstInRoll'
  BY SameRows DEF RolloutInv, Typed, FirstInRoll, UnitDoes
<1> QED BY <1>1, <1>2, <1>3 DEF RolloutInv

LEMMA RequestKeeps == ASSUME RolloutInv, NEW targets \in SUBSET Nodes, RequestDoes(targets) PROVE RolloutInv'
<1>0. /\ used.rolls = 0 /\ used'.rolls = 1
      /\ \A n \in Nodes : row[n] = NoRow /\ ~offered[n] /\ ~restarting[n] /\ ~msg[n].done
  BY DEF RequestDoes, RolloutInv, OneRoll
<1>1. \A n \in Nodes : row'[n] = IF n \in targets THEN [roll |-> 1, seq |-> Sequence(targets, n)]
                                 ELSE row[n]
  BY DEF RequestDoes
<1>2. \A n \in targets : Sequence(targets, n) \in Nat
  BY PlaceIsNatural
<1>3. Typed'
  <2>1. row' \in [Nodes -> [roll : {0, 1}, seq : Nat]]
    BY <1>2 DEF RequestDoes, RolloutInv, Typed
  <2>2. cycled' \in [Nodes -> BOOLEAN]
    BY DEF RequestDoes, RolloutInv, Typed
  <2> QED BY <2>1, <2>2 DEF RequestDoes, RolloutInv, Typed
<1>4. \A m, n \in Nodes : (row'[m] # NoRow /\ row'[n] # NoRow /\ m # n) => row'[m].seq # row'[n].seq
  <2> SUFFICES ASSUME NEW m \in Nodes, NEW n \in Nodes, row'[m] # NoRow, row'[n] # NoRow, m # n
               PROVE  row'[m].seq # row'[n].seq
    OBVIOUS
  <2>1. m \in targets /\ n \in targets
    BY <1>0, <1>1
  <2>2. m < n \/ n < m
    BY RolloutAssumption
  <2>3. Sequence(targets, m) # Sequence(targets, n)
    BY <2>1, <2>2, PlacesDiffer
  <2>4. row'[m].seq = Sequence(targets, m) /\ row'[n].seq = Sequence(targets, n)
    <3>1. row'[m] = [roll |-> 1, seq |-> Sequence(targets, m)]
          /\ row'[n] = [roll |-> 1, seq |-> Sequence(targets, n)]
      BY <1>1, <2>1
    <3> QED BY <3>1
  <2> QED BY <2>3, <2>4
<1>5. OneRoll'
  BY <1>0, <1>1, <1>4 DEF RequestDoes, OneRoll
<1>6. FirstInRoll'
  <2> SUFFICES ASSUME focus = "roll", NEW m \in Nodes
               PROVE  /\ unit[m] = "serving" /\ ~offered[m]
                      /\ msg[m].sent => pc[m] = "poll"
                      /\ msg[m].done => unit[m] = "serving"
                      /\ sampled[m] /\ latest[m] = "healthy" => unit[m] = "serving"
                      /\ unit[m] = "serving" => served[m]
    BY DEF FirstInRoll, RequestDoes
  <2>1. ~OfferedRestart(m)
    BY <1>0 DEF OfferedRestart
  <2> QED BY <1>0, <2>1 DEF RolloutInv, FirstInRoll
<1> QED BY <1>3, <1>5, <1>6 DEF RolloutInv

LEMMA DoesKeeps == ASSUME RolloutInv, Does PROVE RolloutInv'
<1>1. ASSUME TickDoes PROVE RolloutInv'
  BY <1>1, SameRows DEF TickDoes, RolloutInv, Typed, OneRoll, FirstInRoll
<1> QED
  BY <1>1, PollKeeps, HeartbeatKeeps, CycleKeeps, DropsKeeps, HealthKeeps, ReportKeeps, LoseKeeps,
     UnitKeeps, RequestKeeps DEF Does

LEMMA StepDoes ==
  ASSUME MaxRolls <= 1, RolloutInv, FocusNext
  PROVE  Does
<1>1. Typed /\ UNCHANGED focus
  BY DEF RolloutInv, FocusNext
<1>2. CASE focus = "roll" /\ Roll!Next
  BY <1>1, <1>2, RollDoes, OperatorDoes DEF Roll!Next
<1>3. CASE focus = "live" /\ Live!Next
  BY <1>1, <1>3, LiveDoes, OperatorDoes DEF Live!Next
<1> QED BY <1>2, <1>3 DEF FocusNext

LEMMA RolloutInvStart == FocusInit => RolloutInv
<1> SUFFICES ASSUME FocusInit PROVE RolloutInv
  OBVIOUS
<1>1. used \in Spent
  BY DEF FocusInit, Init, Spent
<1>2. Typed
  BY <1>1, NoRowTyped, NoMsgTyped DEF FocusInit, Init, Typed, Units
<1>3. OneRoll
  BY NoMsgTyped DEF FocusInit, Init, OneRoll
<1>4. FirstInRoll
  BY NoMsgTyped DEF FocusInit, Init, FirstInRoll
<1> QED BY <1>2, <1>3, <1>4 DEF RolloutInv

LEMMA RolloutInvAlways ==
  ASSUME MaxRolls <= 1
  PROVE  FocusSpec => []RolloutInv
<1>1. FocusInit => RolloutInv
  BY RolloutInvStart
<1>2. RolloutInv /\ [FocusNext]_<<vars, focus>> => RolloutInv'
  <2>1. ASSUME RolloutInv, UNCHANGED <<vars, focus>> PROVE RolloutInv'
    BY <2>1, SameRows DEF vars, cpVars, agentVars, unitVars, RolloutInv, Typed, OneRoll, FirstInRoll
  <2>2. ASSUME RolloutInv, FocusNext PROVE RolloutInv'
    BY <2>2, StepDoes, DoesKeeps
  <2> QED BY <2>1, <2>2
<1> QED BY <1>1, <1>2, PTL DEF FocusSpec

-----------------------------------------------------------------------------
(* A rolling restart over any number of replicas, two at least, never      *)
(* takes the last serving one: at most the replica that is first in the    *)
(* roll is down, whichever agents die and reports are lost (OfferedRestarts*)
(* in fleet/transition.go, restartFinished).  One roll at a time.          *)
THEOREM OneAtATime ==
  ASSUME MaxRolls <= 1, NEW a \in Nodes, NEW b \in Nodes, a # b
  PROVE  FocusSpec => []RollKeepsServing
<1>1. RolloutInv => RollKeepsServing
  <2> SUFFICES ASSUME RolloutInv, focus = "roll" PROVE KeepsServing
    BY DEF RollKeepsServing
  <2>1. unit[a] = "serving" \/ unit[b] = "serving"
    BY OneIsFirst DEF RolloutInv, FirstInRoll
  <2> QED BY <2>1 DEF KeepsServing
<1> QED BY <1>1, RolloutInvAlways, PTL

(* No restart that was asked for is forgotten and none is reported that    *)
(* did not happen: a row goes only when its unit was cycled since, and, on *)
(* fresh health samples, a replica is reported done only when it serves    *)
(* (Heartbeat, restartFinished).  One roll at a time.                      *)
THEOREM NoRestartIsFeigned ==
  ASSUME MaxRolls <= 1
  PROVE  FocusSpec => RestartsAreReal
<1>1. RolloutInv /\ [FocusNext]_<<vars, focus>> =>
        [\A n \in Nodes : row[n] # NoRow /\ row'[n] = NoRow => cycled[n]]_vars
  <2> SUFFICES ASSUME RolloutInv, FocusNext, NEW n \in Nodes, row[n] # NoRow, row'[n] = NoRow
               PROVE  cycled[n]
    BY DEF vars
  <2>1. Does
    BY StepDoes
  <2>2. ~(row' = row)
    OBVIOUS
  <2>3. CASE \E m \in Nodes : HeartbeatDoes(m)
    BY <2>3 DEF HeartbeatDoes, RolloutInv, OneRoll, Typed
  <2>4. CASE \E targets \in SUBSET Nodes : RequestDoes(targets)
    BY <2>4 DEF RequestDoes, RolloutInv, OneRoll
  <2> QED BY <2>1, <2>2, <2>3, <2>4 DEF Does, PollDoes, polled, CycleDoes, DropsDoes, HealthDoes,
             ReportDoes, LoseDoes, UnitDoes, TickDoes
<1>2. RolloutInv /\ [FocusNext]_<<vars, focus>> =>
        [focus = "roll" => \A n \in Nodes : ~msg[n].sent /\ msg'[n].done => served[n]]_vars
  <2> SUFFICES ASSUME RolloutInv, FocusNext, focus = "roll", NEW n \in Nodes, ~msg[n].sent, msg'[n].done
               PROVE  served[n]
    BY DEF vars
  <2>1. Does
    BY StepDoes
  <2>2. ~msg[n].done
    BY DEF RolloutInv, OneRoll
  <2>3. msg' # msg
    BY <2>2
  <2>4. CASE \E m \in Nodes : HeartbeatDoes(m) \/ LoseDoes(m)
    BY <2>2, <2>4, NoMsgTyped DEF HeartbeatDoes, LoseDoes, RolloutInv, Typed
  <2>5. ASSUME NEW m \in Nodes, ReportDoes(m) PROVE served[n]
    <3>1. PICK s \in ObservedStates(m) :
            msg' = [msg EXCEPT ![m] = [sent |-> TRUE, state |-> s, done |-> RestartFinished(m, s)]]
      BY <2>5 DEF ReportDoes
    <3>2. m = n /\ RestartFinished(m, s) /\ sampled[m]
      BY <2>2, <2>5, <3>1 DEF RolloutInv, Typed, ReportDoes
    <3>3. latest[m] = "healthy"
      BY <3>2 DEF RestartFinished, ObservedStates
    <3> QED BY <3>2, <3>3 DEF RolloutInv, FirstInRoll
  <2> QED BY <2>1, <2>3, <2>4, <2>5 DEF Does, PollDoes, polled, CycleDoes, DropsDoes, HealthDoes,
             UnitDoes, TickDoes, RequestDoes
<1>3. FocusSpec => RequestedIsCycled
  BY <1>1, RolloutInvAlways, PTL DEF RequestedIsCycled, FocusSpec
<1>4. FocusSpec => RollDoneMeansServing
  BY <1>2, RolloutInvAlways, PTL DEF RollDoneMeansServing, FocusSpec
<1> QED BY <1>3, <1>4 DEF RestartsAreReal

-----------------------------------------------------------------------------
(* Any number of rolls.  What a second roll breaks is whose turn it is and *)
(* which request a report answers; what the report says stays true.        *)

(* A healthy sample taken since the unit was last cycled was of a unit     *)
(* that served, and it has served since, whatever became of it.            *)
SampleIsOfUnit ==
  /\ latest \in [Nodes -> {"none", "healthy", "unknown"}]
  /\ msg \in [Nodes -> [sent : BOOLEAN, state : {"ready", "starting", "failed"}, done : BOOLEAN]]
  /\ restarting \in [Nodes -> BOOLEAN] /\ unit \in [Nodes -> Units]
  /\ sampled \in [Nodes -> BOOLEAN] /\ served \in [Nodes -> BOOLEAN]
  /\ \A n \in Nodes : /\ unit[n] = "serving" => served[n]
                      /\ sampled[n] /\ latest[n] = "healthy" => served[n]
                      /\ msg[n].done => msg[n].sent

LEMMA SampleStart == Init => SampleIsOfUnit
BY NoMsgTyped DEF Init, SampleIsOfUnit, Units

(* What a report carries.                                                  *)
LEMMA ReportCarries ==
  ASSUME SampleIsOfUnit, NEW n \in Nodes, Report(n)
  PROVE  /\ ~msg[n].sent /\ (FreshHealth => sampled[n])
         /\ restarting' \in [Nodes -> BOOLEAN]
         /\ UNCHANGED <<latest, unit, sampled, served>>
         /\ \E s \in {"ready", "starting", "failed"}, d \in BOOLEAN :
              /\ msg' = [msg EXCEPT ![n] = [sent |-> TRUE, state |-> s, done |-> d]]
              /\ d => latest[n] = "healthy"
<1>1. PICK s \in ObservedStates(n) :
        /\ msg' = [msg EXCEPT ![n] = [sent |-> TRUE, state |-> s, done |-> RestartFinished(n, s)]]
        /\ restarting' = [restarting EXCEPT ![n] = @ /\ ~RestartFinished(n, s)]
  BY DEF Report
<1>2. s \in {"ready", "starting", "failed"} /\ (s = "ready" => latest[n] = "healthy")
  BY DEF ObservedStates
<1>3. RestartFinished(n, s) \in BOOLEAN
  BY DEF RestartFinished, SampleIsOfUnit
<1>4. restarting' \in [Nodes -> BOOLEAN]
  BY <1>1, <1>3 DEF SampleIsOfUnit
<1>5. RestartFinished(n, s) => latest[n] = "healthy"
  BY <1>2 DEF RestartFinished
<1>6. /\ ~msg[n].sent /\ (FreshHealth => sampled[n])
      /\ UNCHANGED <<latest, unit, sampled, served>>
  BY DEF Report, unitVars
<1> QED BY <1>1, <1>2, <1>3, <1>4, <1>5, <1>6

LEMMA SampleKept ==
  ASSUME SampleIsOfUnit, [Next]_vars
  PROVE  SampleIsOfUnit'
<1>1. CASE UNCHANGED vars
  BY <1>1 DEF vars, agentVars, unitVars, SampleIsOfUnit
<1>2. CASE Operator
  BY <1>2 DEF Operator, RequestRestart, agentVars, unitVars, SampleIsOfUnit
<1>3. ASSUME NEW n \in Nodes, Heartbeat(n) \/ LoseReport(n) PROVE SampleIsOfUnit'
  <2>1. msg' = [msg EXCEPT ![n] = NoMsg] /\ UNCHANGED <<latest, restarting, unit, sampled, served>>
    BY <1>3 DEF Heartbeat, LoseReport, unitVars
  <2>2. \A m \in Nodes : msg'[m] = IF m = n THEN NoMsg ELSE msg[m]
    BY <2>1 DEF SampleIsOfUnit
  <2> QED BY <2>1, <2>2, NoMsgTyped DEF SampleIsOfUnit
<1>4. ASSUME NEW n \in Nodes, Poll(n) \/ LeaveAlone(n) \/ Tick(n) PROVE SampleIsOfUnit'
  BY <1>4 DEF Poll, LeaveAlone, Tick, NextPoll, unitVars, SampleIsOfUnit
<1>5. ASSUME NEW n \in Nodes, Cycle(n) PROVE SampleIsOfUnit'
  BY <1>5 DEF Cycle, SampleIsOfUnit, Units
<1>6. ASSUME NEW n \in Nodes, CycleErrs(n) PROVE SampleIsOfUnit'
  BY <1>6 DEF CycleErrs, SampleIsOfUnit, Units
<1>7. ASSUME NEW n \in Nodes, HealthPoll(n) PROVE SampleIsOfUnit'
  BY <1>7 DEF HealthPoll, SampleIsOfUnit
<1>8. ASSUME NEW n \in Nodes, Report(n) PROVE SampleIsOfUnit'
  <2>1. PICK s \in {"ready", "starting", "failed"}, d \in BOOLEAN :
          msg' = [msg EXCEPT ![n] = [sent |-> TRUE, state |-> s, done |-> d]]
    BY <1>8, ReportCarries
  <2>2. \A m \in Nodes :
          msg'[m] = IF m = n THEN [sent |-> TRUE, state |-> s, done |-> d] ELSE msg[m]
    BY <2>1 DEF SampleIsOfUnit
  <2>3. restarting' \in [Nodes -> BOOLEAN] /\ UNCHANGED <<latest, unit, sampled, served>>
    BY <1>8, ReportCarries
  <2> QED BY <2>1, <2>2, <2>3 DEF SampleIsOfUnit
<1>9. ASSUME NEW n \in Nodes, AgentCrash(n) PROVE SampleIsOfUnit'
  BY <1>9 DEF AgentCrash, unitVars, SampleIsOfUnit
<1>10. ASSUME NEW n \in Nodes, Load(n) PROVE SampleIsOfUnit'
  <2>1. /\ unit' = [unit EXCEPT ![n] = "serving"] /\ served' = [served EXCEPT ![n] = TRUE]
        /\ UNCHANGED <<latest, msg, restarting, sampled>>
    BY <1>10 DEF Load, agentVars
  <2> QED BY <2>1 DEF SampleIsOfUnit, Units
<1>11. ASSUME NEW n \in Nodes, Die(n) PROVE SampleIsOfUnit'
  <2>1. unit' = [unit EXCEPT ![n] = "failed"] /\ UNCHANGED <<latest, msg, restarting, sampled, served>>
    BY <1>11 DEF Die, agentVars
  <2> QED BY <2>1 DEF SampleIsOfUnit, Units
<1> QED BY <1>1, <1>2, <1>3, <1>4, <1>5, <1>6, <1>7, <1>8, <1>9, <1>10, <1>11 DEF Next, NodeStep

(* "Done means serving, not cycled" (run.go, restartFinished), whatever    *)
(* rolls, failed restarts, deaths of agents and units and lost reports     *)
(* come together: where a beat uses a sample taken since the restart, it   *)
(* says done only of a unit that has served since.                         *)
THEOREM FreshDoneMeansServing ==
  ASSUME FreshHealth
  PROVE  Spec => DoneMeansServing
<1>1. SampleIsOfUnit /\ [Next]_vars =>
        [\A n \in Nodes : ~msg[n].sent /\ msg'[n].done => served[n]]_vars
  <2> SUFFICES ASSUME SampleIsOfUnit, Next, NEW n \in Nodes, ~msg[n].sent, msg'[n].done
               PROVE  served[n]
    OBVIOUS
  <2>1. ~msg[n].done
    BY DEF SampleIsOfUnit
  <2>2. ASSUME NEW m \in Nodes, Report(m) PROVE served[n]
    BY <2>1, <2>2, ReportCarries DEF SampleIsOfUnit
  <2>3. ASSUME NEW m \in Nodes, Heartbeat(m) \/ LoseReport(m) PROVE FALSE
    BY <2>1, <2>3, NoMsgTyped DEF Heartbeat, LoseReport, SampleIsOfUnit
  <2>4. ASSUME msg' = msg PROVE FALSE
    BY <2>1, <2>4
  <2> QED BY <2>2, <2>3, <2>4 DEF Next, NodeStep, Operator, RequestRestart, Poll, Cycle, CycleErrs,
             LeaveAlone, HealthPoll, AgentCrash, Load, Die, Tick, agentVars
<1> QED BY <1>1, SampleStart, SampleKept, PTL DEF Spec, DoneMeansServing
=============================================================================
