---------------------------- MODULE SwapMachine ----------------------------
(***************************************************************************)
(* swap-engine's deterministic swap machine (machine.rs, and its port      *)
(* web/swap_machine.js driven by web/swap_responder.js): Alice and Bob     *)
(* each feed their own copy with the events they observe and perform the   *)
(* actions it returns.  The schedule's chunks go through the legs one at a *)
(* time.  An event the stage does not expect is an error and changes       *)
(* nothing, so only accepted events are steps.  What the source leaves to  *)
(* an executor and an event source is the world below: the actions are     *)
(* performed asynchronously, and an event can be fed whenever the fact it  *)
(* reports holds.                                                          *)
(***************************************************************************)
EXTENDS Integers, Sequences, FiniteSets

CONSTANTS
  Chunks,   \* the schedule: a sequence of chunk values
  Aborts,   \* BOOLEAN: deadlines may pass (Event::Abort)
  Reorgs    \* BOOLEAN: Monero may drop or shallow a mature lock, once per chunk

ASSUME ScheduleAssumption ==
  /\ Chunks \in Seq(Nat \ {0}) /\ Len(Chunks) > 0
  /\ Aborts \in BOOLEAN /\ Reorgs \in BOOLEAN

VARIABLES
  stage, chunk,       \* per machine: Stage, and the chunk in flight (from 1)
  xno_settled, xmr_settled, xmr_in_flight,   \* its loss accounting
  todo,               \* actions returned and not yet performed
  lock,               \* each chunk's Monero lock on its chain
  facts               \* what has happened otherwise, as <<fact, chunk>>

values == <<xno_settled, xmr_settled, xmr_in_flight>>
world == <<lock, facts>>
vars == <<stage, chunk, values, todo, world>>

Role == {"Alice", "Bob"}                  \* XnoSeller, XmrSeller
Chunk == DOMAIN Chunks
Stage == {"AwaitBonds", "AwaitXmrLock", "AwaitPresign", "AwaitGuardConfirm",
          "AwaitXnoClaim", "AwaitXmrSweep", "Completed", "Aborted"}
Lock == {"none", "shallow", "mature", "swept", "gone"}
Fact == {"bonds", "presign", "rung", "cemented", "claim", "settled",
         "backstop", "reorged"}
Kind == {"LockXmrChunk", "DeliverPresign", "BroadcastGuard",
         "CompleteAndBroadcastClaim", "SweepXmr", "ReturnBonds",
         "TriggerRefundBackstop"}

\* Schedule.max_at_risk: the largest chunk.
MaxAtRisk == Chunks[CHOOSE i \in Chunk : \A j \in Chunk : Chunks[j] <= Chunks[i]]

Init ==
  /\ stage = [p \in Role |-> "AwaitBonds"]
  /\ chunk = [p \in Role |-> 1]
  /\ xno_settled = [p \in Role |-> 0]
  /\ xmr_settled = [p \in Role |-> 0]
  /\ xmr_in_flight = [p \in Role |-> 0]
  /\ todo = {}
  /\ lock = [i \in Chunk |-> "none"]
  /\ facts = {}

-----------------------------------------------------------------------------
(* handle *)

Abs(n) == IF n < 0 THEN -n ELSE n

\* check_invariant
Balanced(p) ==
  /\ Abs(xno_settled[p] - (xmr_settled[p] + xmr_in_flight[p])) <= MaxAtRisk
  /\ xmr_in_flight[p] <= MaxAtRisk

\* worst_case_loss
WorstCaseLoss(p) ==
  LET net == xno_settled[p] - xmr_settled[p]
      loss == IF p = "Alice" THEN net ELSE xmr_in_flight[p] - net
  IN IF loss > 0 THEN loss ELSE 0

\* actions_for: of the actions of a transition, those of this role.
For(p, role, kind, i) == IF p = role THEN {<<p, kind, i>>} ELSE {}

\* The tail of handle: a tripped invariant aborts and returns no actions.
Return(p, s, actions) ==
  IF Balanced(p)' THEN /\ stage' = [stage EXCEPT ![p] = s]
                       /\ todo' = todo \cup actions
                  ELSE /\ stage' = [stage EXCEPT ![p] = "Aborted"]
                       /\ UNCHANGED todo

BothBondsConfirmed(p) ==
  /\ stage[p] = "AwaitBonds"
  /\ UNCHANGED <<chunk, values, world>>
  /\ Return(p, "AwaitXmrLock", For(p, "Bob", "LockXmrChunk", chunk[p]))

\* Mutants of XmrLockObserved: a lock seen twice counts twice; no maturity gate.
XmrLockObservedTwice(p) ==
  LET i == chunk[p] IN
  /\ stage[p] = "AwaitXmrLock" /\ lock[i] \in {"shallow", "mature", "swept"}
  /\ xmr_in_flight' = [xmr_in_flight EXCEPT ![p] = @ + Chunks[i]]
  /\ UNCHANGED <<chunk, xno_settled, xmr_settled, world>>
  /\ IF lock[i] = "shallow"
       THEN Return(p, "AwaitXmrLock", {})
       ELSE Return(p, "AwaitPresign", For(p, "Alice", "DeliverPresign", i))
XmrLockObservedShallow(p) ==
  LET i == chunk[p] IN
  /\ stage[p] = "AwaitXmrLock" /\ lock[i] \in {"shallow", "mature", "swept"}
  /\ xmr_in_flight' = [xmr_in_flight EXCEPT ![p] = Chunks[i]]
  /\ UNCHANGED <<chunk, xno_settled, xmr_settled, world>>
  /\ Return(p, "AwaitPresign", For(p, "Alice", "DeliverPresign", i))

\* A lock counts from the moment it is seen; only a mature one is pre-signed for.
XmrLockObserved(p) ==
  LET i == chunk[p] IN
  /\ stage[p] = "AwaitXmrLock" /\ lock[i] \in {"shallow", "mature", "swept"}
  /\ xmr_in_flight' = [xmr_in_flight EXCEPT ![p] = Chunks[i]]
  /\ UNCHANGED <<chunk, xno_settled, xmr_settled, world>>
  /\ IF lock[i] = "shallow"
       THEN Return(p, "AwaitXmrLock", {})
       ELSE Return(p, "AwaitPresign", For(p, "Alice", "DeliverPresign", i))

\* Mutant of PresignDelivered: the secret is revealed before the rung confirms.
PresignDeliveredEager(p) ==
  /\ stage[p] = "AwaitPresign" /\ <<"presign", chunk[p]>> \in facts
  /\ UNCHANGED <<chunk, values, world>>
  /\ Return(p, "AwaitXnoClaim",
            For(p, "Bob", "CompleteAndBroadcastClaim", chunk[p]))

PresignDelivered(p) ==
  /\ stage[p] = "AwaitPresign" /\ <<"presign", chunk[p]>> \in facts
  /\ UNCHANGED <<chunk, values, world>>
  /\ Return(p, "AwaitGuardConfirm", For(p, "Bob", "BroadcastGuard", chunk[p]))

GuardConfirmed(p) ==
  /\ stage[p] = "AwaitGuardConfirm" /\ <<"cemented", chunk[p]>> \in facts
  /\ UNCHANGED <<chunk, values, world>>
  /\ Return(p, "AwaitXnoClaim",
            For(p, "Bob", "CompleteAndBroadcastClaim", chunk[p]))

\* Mutant of XnoClaimSettled: Bob is told to lock the next chunk at once.
XnoClaimSettledAhead(p) ==
  /\ stage[p] = "AwaitXnoClaim" /\ <<"settled", chunk[p]>> \in facts
  /\ xno_settled' = [xno_settled EXCEPT ![p] = @ + Chunks[chunk[p]]]
  /\ UNCHANGED <<chunk, xmr_settled, xmr_in_flight, world>>
  /\ Return(p, "AwaitXmrSweep",
            For(p, "Alice", "SweepXmr", chunk[p]) \cup
            IF chunk[p] < Len(Chunks) THEN For(p, "Bob", "LockXmrChunk", chunk[p] + 1)
                                      ELSE {})

XnoClaimSettled(p) ==
  /\ stage[p] = "AwaitXnoClaim" /\ <<"settled", chunk[p]>> \in facts
  /\ xno_settled' = [xno_settled EXCEPT ![p] = @ + Chunks[chunk[p]]]
  /\ UNCHANGED <<chunk, xmr_settled, xmr_in_flight, world>>
  /\ Return(p, "AwaitXmrSweep", For(p, "Alice", "SweepXmr", chunk[p]))

\* Mutants of XmrSweepConfirmed: a swept chunk stays in flight; the last chunk
\* waits for one more.
XmrSweepConfirmedKept(p) ==
  /\ stage[p] = "AwaitXmrSweep" /\ lock[chunk[p]] = "swept"
  /\ xmr_settled' = [xmr_settled EXCEPT ![p] = @ + xmr_in_flight[p]]
  /\ chunk' = [chunk EXCEPT ![p] = @ + 1]
  /\ UNCHANGED <<xno_settled, xmr_in_flight, world>>
  /\ IF chunk[p] = Len(Chunks)
       THEN Return(p, "Completed", {<<p, "ReturnBonds", chunk[p]>>})
       ELSE Return(p, "AwaitXmrLock", For(p, "Bob", "LockXmrChunk", chunk'[p]))
XmrSweepConfirmedPastEnd(p) ==
  /\ stage[p] = "AwaitXmrSweep" /\ lock[chunk[p]] = "swept"
  /\ xmr_settled' = [xmr_settled EXCEPT ![p] = @ + xmr_in_flight[p]]
  /\ xmr_in_flight' = [xmr_in_flight EXCEPT ![p] = 0]
  /\ chunk' = [chunk EXCEPT ![p] = @ + 1]
  /\ UNCHANGED <<xno_settled, world>>
  /\ IF chunk[p] = Len(Chunks) + 1
       THEN Return(p, "Completed", {<<p, "ReturnBonds", chunk[p]>>})
       ELSE Return(p, "AwaitXmrLock", For(p, "Bob", "LockXmrChunk", chunk'[p]))

XmrSweepConfirmed(p) ==
  /\ stage[p] = "AwaitXmrSweep" /\ lock[chunk[p]] = "swept"
  /\ xmr_settled' = [xmr_settled EXCEPT ![p] = @ + xmr_in_flight[p]]
  /\ xmr_in_flight' = [xmr_in_flight EXCEPT ![p] = 0]
  /\ chunk' = [chunk EXCEPT ![p] = @ + 1]
  /\ UNCHANGED <<xno_settled, world>>
  /\ IF chunk[p] = Len(Chunks)
       THEN Return(p, "Completed", {<<p, "ReturnBonds", chunk[p]>>})
       ELSE Return(p, "AwaitXmrLock", For(p, "Bob", "LockXmrChunk", chunk'[p]))

\* Mutant of AbortActions: a lock still maturing has no backstop.
AbortActionsLate(p) ==
  CASE /\ p = "Bob" /\ xmr_in_flight[p] > 0
       /\ stage[p] \in {"AwaitPresign", "AwaitGuardConfirm", "AwaitXnoClaim"}
         -> {<<p, "TriggerRefundBackstop", chunk[p]>>}
    [] p = "Alice" /\ stage[p] \in {"AwaitXnoClaim", "AwaitXmrSweep"}
         -> {<<p, "SweepXmr", chunk[p]>>}
    [] OTHER -> {}

\* abort_actions
AbortActions(p) ==
  CASE /\ p = "Bob" /\ xmr_in_flight[p] > 0
       /\ stage[p] \in {"AwaitXmrLock", "AwaitPresign", "AwaitGuardConfirm",
                        "AwaitXnoClaim"}
         -> {<<p, "TriggerRefundBackstop", chunk[p]>>}
    [] p = "Alice" /\ stage[p] \in {"AwaitXnoClaim", "AwaitXmrSweep"}
         -> {<<p, "SweepXmr", chunk[p]>>}
    [] OTHER -> {}

Abort(p) ==
  /\ stage[p] \notin {"Completed", "Aborted"}
  /\ \/ Aborts
     \/ /\ stage[p] \in {"AwaitPresign", "AwaitGuardConfirm", "AwaitXnoClaim"}
        /\ <<"reorged", chunk[p]>> \in facts        \* LockReorged
  /\ UNCHANGED <<chunk, values, world>>
  /\ Return(p, "Aborted", AbortActions(p))

Handle(p) ==
  \/ BothBondsConfirmed(p) \/ XmrLockObserved(p) \/ PresignDelivered(p)
  \/ GuardConfirmed(p) \/ XnoClaimSettled(p) \/ XmrSweepConfirmed(p) \/ Abort(p)

-----------------------------------------------------------------------------
(* The executors and the chains (external) *)

Note(f, i) == facts' = facts \cup {<<f, i>>} /\ UNCHANGED lock

\* What an executor may do now, and to which effect.
Perform(kind, i) ==
  CASE kind = "LockXmrChunk" ->
         lock[i] = "none" /\ lock' = [lock EXCEPT ![i] = "shallow"] /\ UNCHANGED facts
    [] kind = "DeliverPresign" -> Note("presign", i)
    [] kind = "BroadcastGuard" -> Note("rung", i)
    [] kind = "CompleteAndBroadcastClaim" -> Note("claim", i)
    [] kind = "SweepXmr" -> /\ lock[i] = "mature" /\ <<"settled", i>> \in facts
                            /\ lock' = [lock EXCEPT ![i] = "swept"] /\ UNCHANGED facts
    [] kind = "TriggerRefundBackstop" -> Note("backstop", i)
    [] kind = "ReturnBonds" -> UNCHANGED world

Dispatch ==
  /\ \E a \in todo : Perform(a[2], a[3]) /\ todo' = todo \ {a}
  /\ UNCHANGED <<stage, chunk, values>>

Chains ==
  /\ \E i \in Chunk :
       \/ lock[i] = "shallow" /\ lock' = [lock EXCEPT ![i] = "mature"]
            /\ UNCHANGED facts
       \/ <<"rung", i>> \in facts /\ <<"cemented", i>> \notin facts
            /\ Note("cemented", i)
       \/ <<"claim", i>> \in facts /\ <<"settled", i>> \notin facts
            /\ Note("settled", i)
  /\ UNCHANGED <<stage, chunk, values, todo>>

Reorg ==
  /\ Reorgs
  /\ \E i \in Chunk, l \in {"shallow", "gone"} :
       /\ lock[i] = "mature" /\ <<"reorged", i>> \notin facts
       /\ lock' = [lock EXCEPT ![i] = l]
       /\ facts' = facts \cup {<<"reorged", i>>}
  /\ UNCHANGED <<stage, chunk, values, todo>>

Next == (\E p \in Role : Handle(p)) \/ Dispatch \/ Chains \/ Reorg

Spec == Init /\ [][Next]_vars

\* An event source polls, an executor performs what it was handed, and both
\* chains make progress; nobody has to abort.
FairSpec == /\ Spec /\ WF_vars(Dispatch) /\ WF_vars(Chains)
            /\ \A p \in Role : WF_vars(Handle(p) /\ stage'[p] # "Aborted")

-----------------------------------------------------------------------------
(* Properties *)

TypeOK ==
  /\ stage \in [Role -> Stage]
  /\ chunk \in [Role -> 1..(Len(Chunks) + 1)]
  /\ xno_settled \in [Role -> Nat] /\ xmr_settled \in [Role -> Nat]
  /\ xmr_in_flight \in [Role -> Nat]
  /\ todo \subseteq Role \X Kind \X Chunk
  /\ lock \in [Chunk -> Lock] /\ facts \subseteq Fact \X Chunk

\* The I1 bound: check_invariant never trips, and what either party could lose
\* if the other vanished is at most the largest chunk, in every state.
LossBound == \A p \in Role : Balanced(p) /\ WorstCaseLoss(p) <= MaxAtRisk

\* "One chunk is in flight at a time": of the chunks Bob was told to lock, at
\* most one is neither swept by Alice nor lost to a reorg.
OneInFlight ==
  Cardinality({i \in Chunk : \/ lock[i] \in {"shallow", "mature"}
                             \/ <<"Bob", "LockXmrChunk", i>> \in todo}) <= 1

\* Confirm before reveal: a completed claim is out only over a cemented rung.
ConfirmBeforeReveal ==
  \A i \in Chunk : <<"claim", i>> \in facts => <<"cemented", i>> \in facts

\* Alice's pre-signature is out only for a lock that was mature.
PresignMature ==
  \A i \in Chunk : <<"presign", i>> \in facts =>
                     lock[i] \in {"mature", "swept"} \/ <<"reorged", i>> \in facts

\* abort_actions: a lock Bob's machine saw and whose chunk it did not see
\* settle has its backstop triggered, at whatever stage he aborts.
SeenLockBacked ==
  stage["Bob"] = "Aborted" /\ xmr_in_flight["Bob"] > 0 =>
    \/ xno_settled["Bob"] > xmr_settled["Bob"]
    \/ <<"Bob", "TriggerRefundBackstop", chunk["Bob"]>> \in todo
    \/ <<"backstop", chunk["Bob"]>> \in facts

\* machine.rs: once her pre-signature is out, aborting "is NOT a clean walk-away
\* - Alice must keep the sweep contingency".
SweepKept ==
  stage["Alice"] = "Aborted" =>
    \A i \in Chunk :
      <<"presign", i>> \in facts =>
        lock[i] = "swept" \/ <<"Alice", "SweepXmr", i>> \in todo

\* If no lock is reorged and neither side aborts, the swap completes on both
\* sides with nothing left at risk.
Undisturbed == /\ \A p \in Role : stage[p] # "Aborted"
               /\ \A i \in Chunk : <<"reorged", i>> \notin facts

Completes ==
  []Undisturbed => <>(\A p \in Role : stage[p] = "Completed" /\ WorstCaseLoss(p) = 0)
=============================================================================
