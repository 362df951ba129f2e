----------------------------- MODULE NodeEvents -----------------------------
(***************************************************************************)
(* What happened on a node, on its way into the control plane's chain: the *)
(* agent's queue, its spill file and its count of what neither had room    *)
(* for (internal/agent events.go), the post at the end of a heartbeat      *)
(* (run.go), and the handler that records one event at a time              *)
(* (internal/api agent.go).  The heartbeat's goroutine is the only one     *)
(* that touches the queue; the post may be lost either way, the handler    *)
(* may stop half way, and the agent may die.                               *)
(*                                                                         *)
(* An event is its number; a report of a drop is the number 0.             *)
(***************************************************************************)
EXTENDS Integers, Sequences, SequencesExt

CONSTANTS
  EventsInMemory, EventsSpill, EventsPerPost,
  MaxEvents,     \* bound: events noted
  MaxEventFaults \* bound: lost posts, refused records, deaths, a full disk

ASSUME EventsAssumption ==
  /\ {EventsInMemory, EventsPerPost} \subseteq Nat \ {0}
  /\ {EventsSpill, MaxEvents, MaxEventFaults} \subseteq Nat

VARIABLES
  queue, spill, dropped,  \* Events
  noted,                  \* events added so far
  post,                   \* the batch in flight, and how much of it was accepted
  chain,                  \* the node's records, in order
  since,                  \* history: events added before the process started
  efaults

eventVars == <<queue, spill, dropped, noted, post, chain, since, efaults>>

NoPost == [at |-> "idle", batch |-> <<>>, accepted |-> 0]

EventsTypeOK ==
  /\ queue \in Seq(0..MaxEvents) /\ spill \in Seq(0..MaxEvents)
  /\ dropped \in Nat /\ post.accepted \in 0..Len(post.batch)
  /\ Len(post.batch) <= EventsPerPost /\ Len(spill) <= EventsSpill

EventFault == efaults < MaxEventFaults /\ efaults' = efaults + 1

(* spillOne: refused when the file is full, or when the disk says no.      *)
SpillAll(over, cap) ==
  LET fits == Len(spill) + Len(over) <= cap
      room == IF Len(spill) >= cap THEN 0 ELSE cap - Len(spill)
  IN  [spill |-> spill \o SubSeq(over, 1, IF fits THEN Len(over) ELSE room),
       dropped |-> dropped + IF fits THEN 0 ELSE Len(over) - room]

(* Add: beyond the bound, the oldest leave memory.                         *)
Queued(all) ==
  LET over == Len(all) - EventsInMemory
  IN  IF over <= 0 THEN [keep |-> all, out |-> <<>>]
      ELSE [keep |-> SubSeq(all, over + 1, Len(all)), out |-> SubSeq(all, 1, over)]

AddSilently(cap) ==
  LET q == Queued(Append(queue, noted + 1))
  IN  /\ queue' = q.keep /\ spill' = SpillAll(q.out, cap).spill /\ UNCHANGED dropped

Add(cap) ==
  LET q == Queued(Append(queue, noted + 1))
      s == SpillAll(q.out, cap)
  IN  queue' = q.keep /\ spill' = s.spill /\ dropped' = s.dropped

(* noteChange, while report is put together.                               *)
noteChange ==
  /\ post.at = "idle" /\ noted < MaxEvents /\ noted' = noted + 1
  /\ \/ Add(EventsSpill) /\ UNCHANGED efaults
     \/ EventFault /\ Add(0)
  /\ UNCHANGED <<post, chain, since>>

(* refill: the whole file, ahead of the queue, once the queue has room.    *)
refill(q) == IF Len(q) >= EventsInMemory THEN [queue |-> q, spill |-> spill]
             ELSE [queue |-> spill \o q, spill |-> <<>>]

(* Take: a drop is put at the head, the spill ahead of it.                 *)
Take ==
  /\ post.at = "idle"
  /\ LET q == refill(IF dropped > 0 THEN <<0>> \o queue ELSE queue)
     IN  /\ q.queue # <<>>
         /\ queue' = q.queue /\ spill' = q.spill /\ dropped' = 0
         /\ post' = [at |-> "sent", accepted |-> 0,
                     batch |-> SubSeq(q.queue, 1, IF Len(q.queue) > EventsPerPost THEN EventsPerPost
                                                  ELSE Len(q.queue))]
  /\ UNCHANGED <<noted, chain, since, efaults>>

(* agentEvents: one audit record each, in a transaction of its own, and    *)
(* the answer says how many.                                               *)
agentEvents ==
  /\ post.at = "sent"
  /\ \/ \E n \in 0..Len(post.batch) :
          /\ IF n < Len(post.batch) THEN EventFault ELSE UNCHANGED efaults
          /\ chain' = chain \o SubSeq(post.batch, 1, n)
          /\ post' = [post EXCEPT !.at = "answered", !.accepted = n]
     \/ EventFault /\ post' = NoPost /\ UNCHANGED chain
  /\ UNCHANGED <<queue, spill, dropped, noted, since>>

DeliveredBatch ==
  /\ post.at = "answered" /\ post' = NoPost
  /\ queue' = SubSeq(queue, Len(post.batch) + 1, Len(queue)) /\ UNCHANGED efaults
  /\ UNCHANGED <<spill, dropped, noted, chain, since>>

(* Delivered: what the control plane accepted; an answer may be lost.      *)
Delivered ==
  /\ post.at = "answered" /\ post' = NoPost
  /\ \/ queue' = SubSeq(queue, post.accepted + 1, Len(queue)) /\ UNCHANGED efaults
     \/ EventFault /\ UNCHANGED queue
  /\ UNCHANGED <<spill, dropped, noted, chain, since>>

(* The process dies with its memory; the spill file is found again.        *)
EventsDie ==
  /\ EventFault /\ queue' = <<>> /\ dropped' = 0 /\ post' = NoPost /\ since' = noted
  /\ UNCHANGED <<spill, noted, chain>>

EventsInit ==
  /\ queue = <<>> /\ spill = <<>> /\ dropped = 0 /\ noted = 0 /\ post = NoPost /\ chain = <<>>
  /\ since = 0 /\ efaults = 0

EventsNext == noteChange \/ Take \/ agentEvents \/ Delivered \/ EventsDie

EventsSpec == EventsInit /\ [][EventsNext]_eventVars

-----------------------------------------------------------------------------
(* Properties.                                                             *)

Held == ToSet(queue) \cup ToSet(spill) \cup ToSet(chain)

(* "The queue can lose events and cannot lose the fact that it did"        *)
(* (events.go), through outages, half accepted batches, repeated spills    *)
(* and refills: an event of this process that is nowhere is accounted for  *)
(* by the count or by a report of a drop.                                  *)
NoSilentLoss ==
  (\E e \in since + 1..noted : e \notin Held) => dropped > 0 \/ 0 \in Held

=============================================================================
