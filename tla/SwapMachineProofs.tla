------------------------- MODULE SwapMachineProofs -------------------------
(***************************************************************************)
(* Proofs about SwapMachine, for every non-empty schedule, with or without *)
(* aborts and reorgs: types, the loss bound I1, confirm-before-reveal, the *)
(* maturity gate, one chunk in flight, and the backstop of a seen lock; and *)
(* about ChunkSchedule, which makes the schedule: its bounds, its refusal  *)
(* and its sum.                                                            *)
(***************************************************************************)
EXTENDS SwapMachine, ChunkSchedule, FiniteSetTheorems, WellFoundedInduction, TLAPS

-----------------------------------------------------------------------------
(* The largest chunk *)

\* A non-empty set of naturals has a least element.
LEMMA LeastNatural ==
  ASSUME NEW S \in SUBSET Nat, S # {}
  PROVE  \E m \in S : \A k \in S : m <= k
<1>1. PICK m \in S : \A k \in S : ~ (<<k, m>> \in OpToRel(<, Nat))
  BY NatLessThanWellFounded, WFMin
<1>2. \A k \in S : ~ (k < m)
  BY <1>1 DEF OpToRel
<1> QED  BY <1>2

\* A non-empty list of naturals has a largest entry, so max_at_risk is a chunk
\* and no chunk exceeds it.
LEMMA LargestChunk ==
  /\ MaxAtRisk \in Nat
  /\ \A j \in Chunk : Chunks[j] \in Nat \ {0} /\ Chunks[j] <= MaxAtRisk
<1> DEFINE Tops(n) == {i \in 1..n : \A j \in 1..n : Chunks[j] <= Chunks[i]}
           Bad == {n \in 1..Len(Chunks) : Tops(n) = {}}
<1>1. /\ Chunk = 1..Len(Chunks) /\ Len(Chunks) \in Nat \ {0}
      /\ \A j \in Chunk : Chunks[j] \in Nat \ {0}
  BY ScheduleAssumption DEF Chunk
<1>2. Bad = {}
  <2> SUFFICES ASSUME Bad # {} PROVE FALSE
    OBVIOUS
  <2>0. Bad \in SUBSET Nat
    BY <1>1
  <2>1. PICK n \in Bad : \A k \in Bad : n <= k
    <3> HIDE DEF Bad
    <3> QED  BY LeastNatural, <2>0
  <2>2. n \in 1..Len(Chunks) /\ Tops(n) = {}
    OBVIOUS
  <2>3. CASE n = 1
    <3>1. 1 \in Tops(n)
      BY <2>3, <1>1
    <3> QED  BY <3>1, <2>2
  <2>4. CASE n > 1
    <3>0. n - 1 \in 1..Len(Chunks) /\ ~ (n <= n - 1)
      BY <2>2, <2>4, <1>1
    <3>1. n - 1 \notin Bad
      <4> HIDE DEF Bad
      <4> QED  BY <3>0, <2>1
    <3>2. PICK i \in 1..(n-1) : \A j \in 1..(n-1) : Chunks[j] <= Chunks[i]
      BY <3>0, <3>1
    <3>3. i \in Tops(n) \/ n \in Tops(n)
      <4>1. Chunks[i] \in Nat /\ Chunks[n] \in Nat /\ \A j \in 1..n : Chunks[j] \in Nat
        BY <1>1, <2>2, <3>2
      <4>2. CASE Chunks[n] <= Chunks[i]
        BY <3>2, <2>2, <4>1, <4>2
      <4>3. CASE Chunks[i] <= Chunks[n]
        BY <3>2, <2>2, <4>1, <4>3
      <4> QED  BY <4>1, <4>2, <4>3
    <3> QED  BY <3>3, <2>2
  <2> QED  BY <2>2, <2>3, <2>4, <1>1
<1>3. Tops(Len(Chunks)) # {}
  BY <1>1, <1>2
<1>4. \E i \in Chunk : \A j \in Chunk : Chunks[j] <= Chunks[i]
  BY <1>1, <1>3
<1> QED  BY <1>1, <1>4 DEF MaxAtRisk

-----------------------------------------------------------------------------
(* Types and accounts.  A machine's two sides are level except between a   *)
(* settled claim and its sweep, when the Nano side leads by the chunk in    *)
(* flight; the chunk in flight is recorded from the maturity gate on.       *)

Book(p) ==
  /\ stage[p] # "Completed" => chunk[p] \in Chunk
  /\ xmr_in_flight[p] <= MaxAtRisk
  /\ \/ xno_settled[p] = xmr_settled[p]
     \/ /\ stage[p] \in {"AwaitXmrSweep", "Aborted"}
        /\ xno_settled[p] = xmr_settled[p] + xmr_in_flight[p]
  /\ stage[p] \in {"AwaitPresign", "AwaitGuardConfirm", "AwaitXnoClaim"} =>
       xmr_in_flight[p] = Chunks[chunk[p]]
  /\ stage[p] = "AwaitXmrSweep" =>
       xno_settled[p] = xmr_settled[p] + xmr_in_flight[p]
  /\ stage[p] \in {"AwaitBonds", "AwaitXmrLock"} => xno_settled[p] = xmr_settled[p]

Books == TypeOK /\ \A p \in Role : Book(p)

\* The accounts of Book never trip check_invariant.
LEMMA BookBalanced ==
  ASSUME Books, NEW p \in Role
  PROVE  Balanced(p) /\ WorstCaseLoss(p) <= MaxAtRisk
<1>1. /\ xno_settled[p] \in Nat /\ xmr_settled[p] \in Nat
      /\ xmr_in_flight[p] \in Nat /\ MaxAtRisk \in Nat
      /\ xmr_in_flight[p] <= MaxAtRisk
      /\ \/ xno_settled[p] = xmr_settled[p]
         \/ xno_settled[p] = xmr_settled[p] + xmr_in_flight[p]
  BY LargestChunk DEF Books, Book, TypeOK
<1>2. Balanced(p)
  BY <1>1 DEF Balanced, Abs
<1>3. WorstCaseLoss(p) <= MaxAtRisk
  BY <1>1 DEF WorstCaseLoss
<1> QED  BY <1>2, <1>3

LEMMA BooksInit == Init => Books
  BY LargestChunk, ScheduleAssumption
     DEF Init, Books, Book, TypeOK, Role, Stage, Chunk, Lock

\* A machine's step: the other machine keeps its accounts, and whatever Return
\* adds to todo is well typed.
LEMMA ReturnTypes ==
  ASSUME TypeOK, NEW p \in Role, NEW s \in Stage, NEW acts,
         acts \subseteq Role \X Kind \X Chunk, Return(p, s, acts)
  PROVE  /\ stage' \in [Role -> Stage] /\ todo' \subseteq Role \X Kind \X Chunk
         /\ \A q \in Role \ {p} : stage'[q] = stage[q]
         /\ stage'[p] \in {s, "Aborted"}
  BY DEF Return, TypeOK, Stage

LEMMA BooksHandle ==
  ASSUME Books, NEW p \in Role, Handle(p)
  PROVE  Books'
<1> USE DEF Books
<1>0. /\ Chunk = 1..Len(Chunks) /\ Len(Chunks) \in Nat \ {0}
      /\ p \in {"Alice", "Bob"}
  BY ScheduleAssumption DEF Chunk, Role
<1>1. CASE BothBondsConfirmed(p)
  <2>1. For(p, "Bob", "LockXmrChunk", chunk[p]) \subseteq Role \X Kind \X Chunk
    BY <1>0, <1>1 DEF For, Kind, Book, BothBondsConfirmed, Role
  <2>2. /\ stage' \in [Role -> Stage] /\ todo' \subseteq Role \X Kind \X Chunk
        /\ \A q \in Role \ {p} : stage'[q] = stage[q]
        /\ stage'[p] \in {"AwaitXmrLock", "Aborted"}
    BY <1>1, <2>1, ReturnTypes DEF BothBondsConfirmed, Stage
  <2>3. UNCHANGED <<chunk, values, world>>
    BY <1>1 DEF BothBondsConfirmed
  <2>4. TypeOK'
    BY <2>2, <2>3 DEF TypeOK, values, world
  <2> QED  BY <1>1, <2>2, <2>3, <2>4 DEF Book, BothBondsConfirmed, values, world, TypeOK
<1>2. CASE XmrLockObserved(p)
  <2>0. chunk[p] \in Chunk /\ Chunks[chunk[p]] \in Nat /\ Chunks[chunk[p]] <= MaxAtRisk
    BY <1>2, LargestChunk DEF Book, XmrLockObserved
  <2>1. For(p, "Alice", "DeliverPresign", chunk[p]) \subseteq Role \X Kind \X Chunk
    BY <1>0, <2>0 DEF For, Kind, Role
  <2>2. /\ stage' \in [Role -> Stage] /\ todo' \subseteq Role \X Kind \X Chunk
        /\ \A q \in Role \ {p} : stage'[q] = stage[q]
        /\ stage'[p] \in {"AwaitXmrLock", "AwaitPresign", "Aborted"}
    <3>1. CASE lock[chunk[p]] = "shallow"
      <4>1. Return(p, "AwaitXmrLock", {})
        BY <1>2, <3>1 DEF XmrLockObserved
      <4> QED  BY <4>1, ReturnTypes DEF Stage
    <3>2. CASE lock[chunk[p]] # "shallow"
      <4>1. Return(p, "AwaitPresign", For(p, "Alice", "DeliverPresign", chunk[p]))
        BY <1>2, <3>2 DEF XmrLockObserved
      <4> QED  BY <4>1, <2>1, ReturnTypes DEF Stage
    <3> QED  BY <3>1, <3>2
  <2>3. /\ UNCHANGED <<chunk, xno_settled, xmr_settled, world>>
        /\ xmr_in_flight' = [xmr_in_flight EXCEPT ![p] = Chunks[chunk[p]]]
        /\ stage[p] = "AwaitXmrLock"
    BY <1>2 DEF XmrLockObserved
  <2>4. TypeOK'
    BY <2>0, <2>2, <2>3 DEF TypeOK, world
  <2> QED  BY <2>0, <2>2, <2>3, <2>4 DEF Book, world, TypeOK
<1>3. CASE PresignDelivered(p)
  <2>1. For(p, "Bob", "BroadcastGuard", chunk[p]) \subseteq Role \X Kind \X Chunk
    BY <1>0, <1>3 DEF For, Kind, Book, PresignDelivered, Role
  <2>2. /\ stage' \in [Role -> Stage] /\ todo' \subseteq Role \X Kind \X Chunk
        /\ \A q \in Role \ {p} : stage'[q] = stage[q]
        /\ stage'[p] \in {"AwaitGuardConfirm", "Aborted"}
    BY <1>3, <2>1, ReturnTypes DEF PresignDelivered, Stage
  <2>3. UNCHANGED <<chunk, values, world>> /\ stage[p] = "AwaitPresign"
    BY <1>3 DEF PresignDelivered
  <2>4. TypeOK'
    BY <2>2, <2>3 DEF TypeOK, values, world
  <2> QED  BY <2>2, <2>3, <2>4 DEF Book, values, world, TypeOK
<1>4. CASE GuardConfirmed(p)
  <2>1. For(p, "Bob", "CompleteAndBroadcastClaim", chunk[p]) \subseteq Role \X Kind \X Chunk
    BY <1>0, <1>4 DEF For, Kind, Book, GuardConfirmed, Role
  <2>2. /\ stage' \in [Role -> Stage] /\ todo' \subseteq Role \X Kind \X Chunk
        /\ \A q \in Role \ {p} : stage'[q] = stage[q]
        /\ stage'[p] \in {"AwaitXnoClaim", "Aborted"}
    BY <1>4, <2>1, ReturnTypes DEF GuardConfirmed, Stage
  <2>3. UNCHANGED <<chunk, values, world>> /\ stage[p] = "AwaitGuardConfirm"
    BY <1>4 DEF GuardConfirmed
  <2>4. TypeOK'
    BY <2>2, <2>3 DEF TypeOK, values, world
  <2> QED  BY <2>2, <2>3, <2>4 DEF Book, values, world, TypeOK
<1>5. CASE XnoClaimSettled(p)
  <2>0. chunk[p] \in Chunk /\ Chunks[chunk[p]] \in Nat /\ Chunks[chunk[p]] <= MaxAtRisk
    BY <1>5, LargestChunk DEF Book, XnoClaimSettled
  <2>1. For(p, "Alice", "SweepXmr", chunk[p]) \subseteq Role \X Kind \X Chunk
    BY <1>0, <2>0 DEF For, Kind, Role
  <2>2. /\ xno_settled' = [xno_settled EXCEPT ![p] = @ + Chunks[chunk[p]]]
        /\ UNCHANGED <<chunk, xmr_settled, xmr_in_flight, world>>
        /\ stage[p] = "AwaitXnoClaim"
        /\ Return(p, "AwaitXmrSweep", For(p, "Alice", "SweepXmr", chunk[p]))
    BY <1>5 DEF XnoClaimSettled
  <2>3. /\ stage' \in [Role -> Stage] /\ todo' \subseteq Role \X Kind \X Chunk
        /\ \A q \in Role \ {p} : stage'[q] = stage[q]
        /\ stage'[p] \in {"AwaitXmrSweep", "Aborted"}
    BY <2>1, <2>2, ReturnTypes DEF Stage
  <2>4. xno_settled'[p] = xmr_settled'[p] + xmr_in_flight'[p]
    BY <2>0, <2>2 DEF Book, TypeOK
  <2>5. TypeOK'
    <3>1. xno_settled[p] \in Nat /\ xno_settled[p] + Chunks[chunk[p]] \in Nat
      BY <2>0 DEF TypeOK
    <3>2. xno_settled' \in [Role -> Nat]
      BY <2>2, <3>1 DEF TypeOK
    <3> QED  BY <2>2, <2>3, <3>2 DEF TypeOK, world
  <2> QED  BY <2>0, <2>2, <2>3, <2>4, <2>5 DEF Book, world, TypeOK
<1>6. CASE XmrSweepConfirmed(p)
  <2>0. chunk[p] \in Chunk /\ stage[p] = "AwaitXmrSweep"
    BY <1>6, LargestChunk DEF Book, XmrSweepConfirmed
  <2>1. /\ xmr_settled' = [xmr_settled EXCEPT ![p] = @ + xmr_in_flight[p]]
        /\ xmr_in_flight' = [xmr_in_flight EXCEPT ![p] = 0]
        /\ chunk' = [chunk EXCEPT ![p] = @ + 1]
        /\ UNCHANGED <<xno_settled, world>>
    BY <1>6 DEF XmrSweepConfirmed
  <2>2. /\ xno_settled'[p] = xmr_settled'[p] /\ xmr_in_flight'[p] = 0
        /\ chunk' \in [Role -> 1..(Len(Chunks) + 1)] /\ chunk'[p] = chunk[p] + 1
    BY <1>0, <2>0, <2>1 DEF Book, TypeOK
  <2>3. CASE chunk[p] = Len(Chunks)
    <3>1. Return(p, "Completed", {<<p, "ReturnBonds", chunk[p]>>})
      BY <1>6, <2>3 DEF XmrSweepConfirmed
    <3>2. {<<p, "ReturnBonds", chunk[p]>>} \subseteq Role \X Kind \X Chunk
      BY <2>0 DEF Kind
    <3>3. /\ stage' \in [Role -> Stage] /\ todo' \subseteq Role \X Kind \X Chunk
          /\ \A q \in Role \ {p} : stage'[q] = stage[q]
          /\ stage'[p] \in {"Completed", "Aborted"}
      BY <3>1, <3>2, ReturnTypes DEF Stage
    <3>4. Balanced(p)'
      <4>1. xno_settled'[p] \in Nat /\ MaxAtRisk \in Nat /\ MaxAtRisk >= 0
        BY <2>1, LargestChunk DEF TypeOK
      <4>2. /\ Abs(xno_settled'[p] - (xmr_settled'[p] + xmr_in_flight'[p])) = 0
            /\ xmr_in_flight'[p] = 0
        BY <2>2, <4>1 DEF Abs
      <4> QED  BY <4>1, <4>2 DEF Balanced
    <3>5. stage'[p] = "Completed"
      BY <3>1, <3>4 DEF Return, TypeOK
    <3>6. TypeOK'
      BY <2>1, <2>2, <3>3 DEF TypeOK, world
    <3> QED  BY <2>1, <2>2, <3>3, <3>5, <3>6, LargestChunk DEF Book, TypeOK
  <2>4. CASE chunk[p] # Len(Chunks)
    <3>1. Return(p, "AwaitXmrLock", For(p, "Bob", "LockXmrChunk", chunk'[p]))
      BY <1>6, <2>4 DEF XmrSweepConfirmed
    <3>2. chunk'[p] \in Chunk
      BY <1>0, <2>0, <2>2, <2>4
    <3>3. For(p, "Bob", "LockXmrChunk", chunk'[p]) \subseteq Role \X Kind \X Chunk
      BY <1>0, <3>2 DEF For, Kind, Role
    <3>4. /\ stage' \in [Role -> Stage] /\ todo' \subseteq Role \X Kind \X Chunk
          /\ \A q \in Role \ {p} : stage'[q] = stage[q]
          /\ stage'[p] \in {"AwaitXmrLock", "Aborted"}
      BY <3>1, <3>3, ReturnTypes DEF Stage
    <3>5. TypeOK'
      BY <2>1, <2>2, <3>4 DEF TypeOK, world
    <3>6. Book(p)'
      <4>1. 0 <= MaxAtRisk
        BY LargestChunk
      <4> QED  BY <2>2, <3>2, <3>4, <4>1 DEF Book
    <3>7. ASSUME NEW q \in Role \ {p} PROVE Book(q)'
      <4>1. /\ xno_settled'[q] = xno_settled[q] /\ xmr_settled'[q] = xmr_settled[q]
            /\ xmr_in_flight'[q] = xmr_in_flight[q] /\ chunk'[q] = chunk[q]
        BY <2>1 DEF TypeOK
      <4>2. Book(q)
        OBVIOUS
      <4> QED  BY <3>4, <4>1, <4>2 DEF Book
    <3> QED  BY <3>5, <3>6, <3>7
  <2> QED  BY <2>3, <2>4
<1>7. CASE Abort(p)
  <2>1. UNCHANGED <<chunk, values, world>> /\ Return(p, "Aborted", AbortActions(p))
        /\ stage[p] \notin {"Completed", "Aborted"}
    BY <1>7 DEF Abort
  <2>2. AbortActions(p) \subseteq Role \X Kind \X Chunk
    BY <2>1 DEF AbortActions, Book, Kind
  <2>3. /\ stage' \in [Role -> Stage] /\ todo' \subseteq Role \X Kind \X Chunk
        /\ \A q \in Role \ {p} : stage'[q] = stage[q]
        /\ stage'[p] = "Aborted"
    BY <2>1, <2>2, ReturnTypes DEF Stage
  <2>4. TypeOK'
    BY <2>1, <2>3 DEF TypeOK, values, world
  <2> QED  BY <2>1, <2>3, <2>4 DEF Book, values, world, TypeOK
<1> QED  BY <1>1, <1>2, <1>3, <1>4, <1>5, <1>6, <1>7 DEF Handle

\* What an executor may change of the world.
LEMMA PerformEffect ==
  ASSUME NEW kind \in Kind, NEW i \in Chunk, Perform(kind, i)
  PROVE  \/ /\ UNCHANGED lock
            /\ \E f \in Fact \ {"reorged", "cemented", "settled"} :
                 facts' = facts \cup {<<f, i>>}
         \/ UNCHANGED facts /\ \E l \in Lock : lock' = [lock EXCEPT ![i] = l]
         \/ UNCHANGED world
<1>1. CASE kind \in {"LockXmrChunk", "SweepXmr"}
  BY <1>1 DEF Perform, Lock
<1>2. CASE kind = "DeliverPresign"
  <2>1. facts' = facts \cup {<<"presign", i>>} /\ UNCHANGED lock
    BY <1>2 DEF Perform, Note
  <2> QED  BY <2>1 DEF Fact
<1>3. CASE kind = "BroadcastGuard"
  <2>1. facts' = facts \cup {<<"rung", i>>} /\ UNCHANGED lock
    BY <1>3 DEF Perform, Note
  <2> QED  BY <2>1 DEF Fact
<1>4. CASE kind = "CompleteAndBroadcastClaim"
  <2>1. facts' = facts \cup {<<"claim", i>>} /\ UNCHANGED lock
    BY <1>4 DEF Perform, Note
  <2> QED  BY <2>1 DEF Fact
<1>5. CASE kind = "TriggerRefundBackstop"
  <2>1. facts' = facts \cup {<<"backstop", i>>} /\ UNCHANGED lock
    BY <1>5 DEF Perform, Note
  <2> QED  BY <2>1 DEF Fact
<1>6. CASE kind = "ReturnBonds"
  BY <1>6 DEF Perform
<1> QED  BY <1>1, <1>2, <1>3, <1>4, <1>5, <1>6 DEF Kind

LEMMA PerformTypes ==
  ASSUME TypeOK, NEW kind \in Kind, NEW i \in Chunk, Perform(kind, i)
  PROVE  lock' \in [Chunk -> Lock] /\ facts' \subseteq Fact \X Chunk
<1>1. CASE /\ UNCHANGED lock
           /\ \E f \in Fact \ {"reorged", "cemented", "settled"} :
                facts' = facts \cup {<<f, i>>}
  <2>1. PICK f \in Fact : facts' = facts \cup {<<f, i>>}
    BY <1>1
  <2>2. <<f, i>> \in Fact \X Chunk
    OBVIOUS
  <2> QED  BY <1>1, <2>1, <2>2 DEF TypeOK
<1>2. CASE UNCHANGED facts /\ \E l \in Lock : lock' = [lock EXCEPT ![i] = l]
  BY <1>2 DEF TypeOK
<1>3. CASE UNCHANGED world
  BY <1>3 DEF world, TypeOK
<1> QED  BY PerformEffect, <1>1, <1>2, <1>3

LEMMA BooksNext == Books /\ [Next]_vars => Books'
<1> SUFFICES ASSUME Books, [Next]_vars PROVE Books'
  OBVIOUS
<1>1. CASE \E p \in Role : Handle(p)
  BY <1>1, BooksHandle
<1>2. CASE Dispatch
  <2>1. PICK a \in todo : Perform(a[2], a[3]) /\ todo' = todo \ {a}
    BY <1>2 DEF Dispatch
  <2>2. a[2] \in Kind /\ a[3] \in Chunk /\ UNCHANGED <<stage, chunk, values>>
    BY <1>2 DEF Books, TypeOK, Dispatch
  <2>3. lock' \in [Chunk -> Lock] /\ facts' \subseteq Fact \X Chunk
    BY <2>1, <2>2, PerformTypes DEF Books
  <2> QED  BY <2>1, <2>2, <2>3 DEF Books, Book, TypeOK, values
<1>3. CASE Chains
  <2>1. PICK i \in Chunk :
          \/ lock[i] = "shallow" /\ lock' = [lock EXCEPT ![i] = "mature"]
               /\ UNCHANGED facts
          \/ Note("cemented", i)
          \/ Note("settled", i)
    BY <1>3 DEF Chains
  <2>2. lock' \in [Chunk -> Lock] /\ facts' \subseteq Fact \X Chunk
    <3>1. <<"cemented", i>> \in Fact \X Chunk /\ <<"settled", i>> \in Fact \X Chunk
      BY DEF Fact
    <3>2. lock \in [Chunk -> Lock] /\ facts \subseteq Fact \X Chunk /\ "mature" \in Lock
      BY DEF Books, TypeOK, Lock
    <3> QED  BY <2>1, <3>1, <3>2 DEF Note
  <2> QED  BY <1>3, <2>2 DEF Chains, Books, Book, TypeOK, values
<1>4. CASE Reorg
  <2>1. lock' \in [Chunk -> Lock] /\ facts' \subseteq Fact \X Chunk
    BY <1>4 DEF Reorg, Books, TypeOK, Lock, Fact
  <2> QED  BY <1>4, <2>1 DEF Reorg, Books, Book, TypeOK, values
<1>5. CASE UNCHANGED vars
  BY <1>5 DEF vars, values, world, Books, Book, TypeOK
<1> QED  BY <1>1, <1>2, <1>3, <1>4, <1>5 DEF Next

LEMMA BooksInvariant == Spec => []Books
  BY BooksInit, BooksNext, PTL DEF Spec

\* Every reachable state of two machines and their executors is well typed, for
\* every schedule.
THEOREM TypeCorrect == Spec => []TypeOK
  BY BooksInvariant, PTL DEF Books

\* I1 for every schedule: no sequence of events, aborts and reorgs makes
\* check_invariant trip or exposes more than the largest chunk.
THEOREM LossBounded == Spec => []LossBound
<1>1. Books => LossBound
  BY BookBalanced DEF LossBound
<1> QED  BY BooksInvariant, <1>1, PTL

-----------------------------------------------------------------------------
(* What stands in the world or is about to: a claim (Gates), a             *)
(* pre-signature (Gates), a Monero lock (Flight).                          *)

Gates ==
  \A i \in Chunk :
    /\ <<"claim", i>> \in facts \/ <<"Bob", "CompleteAndBroadcastClaim", i>> \in todo
         => <<"cemented", i>> \in facts
    /\ <<"presign", i>> \in facts \/ <<"Alice", "DeliverPresign", i>> \in todo
         => lock[i] \in {"mature", "swept"} \/ <<"reorged", i>> \in facts

Ordered(i) == <<"Bob", "LockXmrChunk", i>> \in todo

Flight ==
  \A i \in Chunk :
    /\ Ordered(i) => lock[i] = "none" /\ i <= chunk["Bob"]
    /\ lock[i] # "none" => i <= chunk["Bob"] /\ stage["Bob"] # "AwaitBonds"
    /\ i < chunk["Bob"] => lock[i] = "swept"
    /\ stage["Bob"] = "AwaitBonds" => ~ Ordered(i)

\* Only Alice's machine hands out her actions and only Bob's hands out his.
Owned == \A a \in todo : /\ a[2] = "DeliverPresign" => a[1] = "Alice"
                         /\ a[2] \in {"LockXmrChunk", "CompleteAndBroadcastClaim"}
                              => a[1] = "Bob"

Inv == Books /\ Gates /\ Flight /\ Owned

LEMMA InvInit == Init => Inv
<1> SUFFICES ASSUME Init PROVE Inv
  OBVIOUS
<1>1. Books
  BY BooksInit
<1>2. chunk["Bob"] = 1 /\ stage["Bob"] = "AwaitBonds" /\ todo = {} /\ facts = {}
      /\ \A i \in Chunk : lock[i] = "none" /\ i \in Nat /\ i >= 1
  BY ScheduleAssumption DEF Init, Role, Chunk
<1> QED  BY <1>1, <1>2 DEF Inv, Gates, Flight, Owned, Ordered

\* What a machine's step may add to the pending actions.
LEMMA HandleAdds ==
  ASSUME Inv, NEW p \in Role, Handle(p), NEW a \in todo', a \notin todo
  PROVE  /\ a \in Role \X Kind \X Chunk
         /\ a[2] = "DeliverPresign" => a[1] = "Alice" /\ lock[a[3]] \in {"mature", "swept"}
         /\ a[2] = "CompleteAndBroadcastClaim" =>
              a[1] = "Bob" /\ <<"cemented", a[3]>> \in facts
         /\ a[2] = "LockXmrChunk" =>
              /\ a[1] = "Bob" /\ p = "Bob" /\ a[3] = chunk'["Bob"]
              /\ stage["Bob"] \in {"AwaitBonds", "AwaitXmrSweep"}
<1>0. a \in Role \X Kind \X Chunk /\ p \in {"Alice", "Bob"} /\ chunk \in [Role -> Nat]
  <2>1. Books /\ Books'  BY BooksHandle DEF Inv
  <2>2. todo' \subseteq Role \X Kind \X Chunk  BY <2>1 DEF Books, TypeOK
  <2>3. chunk \in [Role -> Nat]
    <3>1. 1..(Len(Chunks) + 1) \subseteq Nat  BY ScheduleAssumption
    <3>2. chunk \in [Role -> 1..(Len(Chunks) + 1)]  BY <2>1 DEF Books, TypeOK
    <3> QED  BY <3>1, <3>2
  <2> QED  BY <2>2, <2>3 DEF Role
<1>1. CASE BothBondsConfirmed(p)
  <2>1. a \in For(p, "Bob", "LockXmrChunk", chunk[p]) /\ stage[p] = "AwaitBonds"
    BY <1>1 DEF BothBondsConfirmed, Return
  <2> QED  BY <1>0, <1>1, <2>1 DEF For, BothBondsConfirmed
<1>2. CASE XmrLockObserved(p)
  <2>1. a \in For(p, "Alice", "DeliverPresign", chunk[p]) /\ lock[chunk[p]] \in {"mature", "swept"}
    BY <1>2 DEF XmrLockObserved, Return
  <2> QED  BY <1>0, <2>1 DEF For
<1>3. CASE PresignDelivered(p)
  <2>1. a \in For(p, "Bob", "BroadcastGuard", chunk[p])
    BY <1>3 DEF PresignDelivered, Return
  <2> QED  BY <1>0, <2>1 DEF For
<1>4. CASE GuardConfirmed(p)
  <2>1. a \in For(p, "Bob", "CompleteAndBroadcastClaim", chunk[p])
        /\ <<"cemented", chunk[p]>> \in facts
    BY <1>4 DEF GuardConfirmed, Return
  <2> QED  BY <1>0, <2>1 DEF For
<1>5. CASE XnoClaimSettled(p)
  <2>1. a \in For(p, "Alice", "SweepXmr", chunk[p])
    BY <1>5 DEF XnoClaimSettled, Return
  <2> QED  BY <1>0, <2>1 DEF For
<1>6. CASE XmrSweepConfirmed(p)
  <2>1. a \in {<<p, "ReturnBonds", chunk[p]>>} \cup For(p, "Bob", "LockXmrChunk", chunk'[p])
        /\ stage[p] = "AwaitXmrSweep"
    BY <1>6 DEF XmrSweepConfirmed, Return
  <2> QED  BY <1>0, <2>1 DEF For
<1>7. CASE Abort(p)
  <2>1. a \in AbortActions(p)
    BY <1>7 DEF Abort, Return
  <2> QED  BY <1>0, <2>1 DEF AbortActions
<1> QED  BY <1>1, <1>2, <1>3, <1>4, <1>5, <1>6, <1>7 DEF Handle

\* How it moves Bob's chunk counter.
LEMMA HandleMoves ==
  ASSUME Inv, NEW p \in Role, Handle(p)
  PROVE  /\ UNCHANGED world
         /\ \/ p = "Alice" /\ stage'["Bob"] = stage["Bob"]
            \/ p = "Bob" /\ stage'["Bob"] # "AwaitBonds"
         /\ \/ chunk'["Bob"] = chunk["Bob"]
            \/ /\ p = "Bob" /\ chunk'["Bob"] = chunk["Bob"] + 1
               /\ chunk["Bob"] \in Chunk /\ lock[chunk["Bob"]] = "swept"
<1>0. /\ p \in {"Alice", "Bob"} /\ chunk \in [Role -> Nat] /\ stage \in [Role -> Stage]
      /\ stage["Bob"] # "Completed" => chunk["Bob"] \in Chunk
  BY ScheduleAssumption DEF Inv, Books, Book, TypeOK, Role
<1>1. UNCHANGED world
  BY DEF Handle, BothBondsConfirmed, XmrLockObserved, PresignDelivered,
         GuardConfirmed, XnoClaimSettled, XmrSweepConfirmed, Abort
<1>2. \/ p = "Alice" /\ stage'["Bob"] = stage["Bob"]
      \/ p = "Bob" /\ stage'["Bob"] # "AwaitBonds"
  <2>1. \E s \in Stage \ {"AwaitBonds"} : \E acts : Return(p, s, acts)
    BY DEF Handle, BothBondsConfirmed, XmrLockObserved, PresignDelivered,
           GuardConfirmed, XnoClaimSettled, XmrSweepConfirmed, Abort, Stage
  <2> QED  BY <1>0, <2>1 DEF Return, Role
<1>3. CASE XmrSweepConfirmed(p)
  <2>1. /\ chunk' = [chunk EXCEPT ![p] = @ + 1] /\ stage[p] = "AwaitXmrSweep"
        /\ lock[chunk[p]] = "swept"
    BY <1>3 DEF XmrSweepConfirmed
  <2>2. CASE p = "Alice"
    BY <1>0, <1>1, <1>2, <2>1, <2>2 DEF Role
  <2>3. CASE p = "Bob"
    BY <1>0, <1>1, <1>2, <2>1, <2>3 DEF Role
  <2> QED  BY <1>0, <2>2, <2>3
<1>4. CASE ~ XmrSweepConfirmed(p)
  <2>1. UNCHANGED chunk
    BY <1>4 DEF Handle, BothBondsConfirmed, XmrLockObserved, PresignDelivered,
           GuardConfirmed, XnoClaimSettled, Abort, values
  <2> QED  BY <1>1, <1>2, <2>1
<1> QED  BY <1>3, <1>4

LEMMA InvHandle ==
  ASSUME Inv, NEW p \in Role, Handle(p)
  PROVE  Inv'
<1>1. Books'
  BY BooksHandle DEF Inv
<1>2. lock' = lock /\ facts' = facts /\ chunk \in [Role -> Nat] /\ chunk["Bob"] \in Nat
      /\ todo \subseteq Role \X Kind \X Chunk
      /\ \A i \in Chunk : i \in Nat
  <2>1. lock' = lock /\ facts' = facts
    BY HandleMoves DEF world
  <2>2. Len(Chunks) \in Nat /\ Chunk = 1..Len(Chunks)
    BY ScheduleAssumption DEF Chunk
  <2>3. chunk \in [Role -> Nat] /\ todo \subseteq Role \X Kind \X Chunk
    BY <2>2 DEF Inv, Books, TypeOK
  <2> QED  BY <2>1, <2>2, <2>3 DEF Role
<1>3. Gates'
  <2> SUFFICES ASSUME NEW i \in Chunk
               PROVE  /\ <<"Bob", "CompleteAndBroadcastClaim", i>> \in todo'
                            => \/ <<"Bob", "CompleteAndBroadcastClaim", i>> \in todo
                               \/ <<"cemented", i>> \in facts
                      /\ <<"Alice", "DeliverPresign", i>> \in todo'
                            => \/ <<"Alice", "DeliverPresign", i>> \in todo
                               \/ lock[i] \in {"mature", "swept"}
    BY <1>2 DEF Gates, Inv
  <2> QED  BY HandleAdds
<1>4. Owned'
  <2> SUFFICES ASSUME NEW a \in todo', a \notin todo
               PROVE  /\ a[2] = "DeliverPresign" => a[1] = "Alice"
                      /\ a[2] \in {"LockXmrChunk", "CompleteAndBroadcastClaim"}
                            => a[1] = "Bob"
    BY DEF Owned, Inv
  <2> QED  BY HandleAdds
<1>5. Flight'
  <2> SUFFICES ASSUME NEW i \in Chunk
               PROVE  /\ Ordered(i)' => lock[i] = "none" /\ i <= chunk'["Bob"]
                      /\ lock[i] # "none" => i <= chunk'["Bob"] /\ stage'["Bob"] # "AwaitBonds"
                      /\ i < chunk'["Bob"] => lock[i] = "swept"
                      /\ stage'["Bob"] = "AwaitBonds" => ~ Ordered(i)'
    BY <1>2 DEF Flight
  <2>1. /\ Ordered(i) => lock[i] = "none" /\ i <= chunk["Bob"]
        /\ lock[i] # "none" => i <= chunk["Bob"] /\ stage["Bob"] # "AwaitBonds"
        /\ i < chunk["Bob"] => lock[i] = "swept"
        /\ stage["Bob"] = "AwaitBonds" => ~ Ordered(i)
    BY DEF Flight, Inv
  <2>2. \/ p = "Alice" /\ stage'["Bob"] = stage["Bob"]
        \/ p = "Bob" /\ stage'["Bob"] # "AwaitBonds"
    BY HandleMoves
  <2>3. \/ chunk'["Bob"] = chunk["Bob"]
        \/ chunk'["Bob"] = chunk["Bob"] + 1 /\ lock[chunk["Bob"]] = "swept"
    BY HandleMoves
  <2>4. Ordered(i)' =>
          \/ Ordered(i)
          \/ /\ p = "Bob" /\ i = chunk'["Bob"]
             /\ stage["Bob"] \in {"AwaitBonds", "AwaitXmrSweep"}
    <3>1. ASSUME <<"Bob", "LockXmrChunk", i>> \in todo', <<"Bob", "LockXmrChunk", i>> \notin todo
          PROVE  /\ p = "Bob" /\ i = chunk'["Bob"]
                 /\ stage["Bob"] \in {"AwaitBonds", "AwaitXmrSweep"}
      BY <3>1, HandleAdds
    <3> QED  BY <3>1 DEF Ordered
  <2>5. Ordered(i)' /\ ~ Ordered(i) => lock[i] = "none"
    <3>1. CASE BothBondsConfirmed(p)
      BY <2>1, <2>4, <3>1 DEF BothBondsConfirmed
    <3>2. CASE XmrSweepConfirmed(p)
      <4>1. p = "Bob" => chunk'["Bob"] = chunk["Bob"] + 1
        BY <1>2, <3>2 DEF XmrSweepConfirmed, Role
      <4> QED  BY <1>2, <2>1, <2>4, <4>1
    <3>3. CASE ~ BothBondsConfirmed(p) /\ ~ XmrSweepConfirmed(p)
      <4> SUFFICES ASSUME <<"Bob", "LockXmrChunk", i>> \in todo', ~ Ordered(i)
                   PROVE  FALSE
        BY DEF Ordered
      <4>1. \E acts : /\ <<"Bob", "LockXmrChunk", i>> \in acts
                      /\ \A a \in acts : a[2] # "LockXmrChunk"
        <5>1. PICK s, acts : Return(p, s, acts) /\ \A a \in acts : a[2] # "LockXmrChunk"
          BY <3>3 DEF Handle, XmrLockObserved, PresignDelivered, GuardConfirmed,
                 XnoClaimSettled, Abort, For, AbortActions
        <5> QED  BY <5>1 DEF Return, Ordered
      <4> QED  BY <4>1
    <3> QED  BY <3>1, <3>2, <3>3
  <2> QED  BY <1>2, <2>1, <2>2, <2>3, <2>4, <2>5
<1> QED  BY <1>1, <1>3, <1>4, <1>5 DEF Inv

\* Facts only accumulate, a lock goes on from "none" only when Bob was told to
\* lock it, and from "mature" only by a sweep or a recorded reorg.
LEMMA InvWorld ==
  ASSUME Inv, [Next]_vars, ~ \E p \in Role : Handle(p)
  PROVE  /\ UNCHANGED <<stage, chunk>> /\ todo' \subseteq todo
         /\ facts \subseteq facts'
         /\ \A i \in Chunk :
              /\ \/ lock'[i] = lock[i]
                 \/ lock[i] = "none" /\ Ordered(i) /\ ~ Ordered(i)'
                 \/ lock[i] = "shallow"
                 \/ lock[i] = "mature" /\ lock'[i] = "swept"
                 \/ lock[i] = "mature" /\ <<"reorged", i>> \in facts'
              /\ lock'[i] = "none" => lock[i] = "none"
              /\ <<"claim", i>> \in facts' =>
                   <<"claim", i>> \in facts \/ <<"Bob", "CompleteAndBroadcastClaim", i>> \in todo
              /\ <<"presign", i>> \in facts' =>
                   <<"presign", i>> \in facts \/ <<"Alice", "DeliverPresign", i>> \in todo
<1>0. lock \in [Chunk -> Lock] /\ todo \subseteq Role \X Kind \X Chunk
      /\ \A a \in todo : a = <<a[1], a[2], a[3]>> /\ a[2] \in Kind /\ a[3] \in Chunk
  BY DEF Inv, Books, TypeOK
<1>1. CASE Dispatch
  <2>1. PICK a \in todo : Perform(a[2], a[3]) /\ todo' = todo \ {a}
    BY <1>1 DEF Dispatch
  <2>2. UNCHANGED <<stage, chunk>>
    BY <1>1 DEF Dispatch
  <2>3. CASE a[2] = "LockXmrChunk"
    <3>1. a = <<"Bob", "LockXmrChunk", a[3]>>
      BY <1>0, <2>3 DEF Inv, Owned
    <3>2. lock[a[3]] = "none" /\ lock' = [lock EXCEPT ![a[3]] = "shallow"] /\ facts' = facts
      BY <2>1, <2>3 DEF Perform
    <3>3. Ordered(a[3]) /\ ~ Ordered(a[3])'
      BY <2>1, <3>1 DEF Ordered
    <3> QED  BY <1>0, <2>1, <2>2, <3>2, <3>3
  <2>4. CASE a[2] = "SweepXmr"
    <3>1. lock[a[3]] = "mature" /\ lock' = [lock EXCEPT ![a[3]] = "swept"] /\ facts' = facts
      BY <2>1, <2>4 DEF Perform
    <3> QED  BY <1>0, <2>1, <2>2, <3>1
  <2>5. CASE a[2] = "DeliverPresign"
    <3>1. lock' = lock /\ facts' = facts \cup {<<"presign", a[3]>>}
      BY <2>1, <2>5 DEF Perform, Note
    <3>2. a = <<"Alice", "DeliverPresign", a[3]>>
      BY <1>0, <2>5 DEF Inv, Owned
    <3> QED  BY <2>1, <2>2, <3>1, <3>2
  <2>6. CASE a[2] = "CompleteAndBroadcastClaim"
    <3>1. lock' = lock /\ facts' = facts \cup {<<"claim", a[3]>>}
      BY <2>1, <2>6 DEF Perform, Note
    <3>2. a = <<"Bob", "CompleteAndBroadcastClaim", a[3]>>
      BY <1>0, <2>6 DEF Inv, Owned
    <3> QED  BY <2>1, <2>2, <3>1, <3>2
  <2>7. CASE a[2] \in {"BroadcastGuard", "TriggerRefundBackstop", "ReturnBonds"}
    <3>1. lock' = lock /\ facts \subseteq facts'
          /\ \A i \in Chunk : /\ <<"claim", i>> \in facts' => <<"claim", i>> \in facts
                              /\ <<"presign", i>> \in facts' => <<"presign", i>> \in facts
      <4>1. CASE a[2] = "BroadcastGuard"
        <5>1. lock' = lock /\ facts' = facts \cup {<<"rung", a[3]>>}
          BY <2>1, <4>1 DEF Perform, Note
        <5> QED  BY <5>1
      <4>2. CASE a[2] = "TriggerRefundBackstop"
        <5>1. lock' = lock /\ facts' = facts \cup {<<"backstop", a[3]>>}
          BY <2>1, <4>2 DEF Perform, Note
        <5> QED  BY <5>1
      <4>3. CASE a[2] = "ReturnBonds"
        <5>1. lock' = lock /\ facts' = facts
          BY <2>1, <4>3 DEF Perform, world
        <5> QED  BY <5>1
      <4> QED  BY <2>7, <4>1, <4>2, <4>3
    <3> QED  BY <2>1, <2>2, <3>1
  <2> QED  BY <1>0, <2>1, <2>3, <2>4, <2>5, <2>6, <2>7 DEF Kind
<1>2. CASE Chains
  <2>1. UNCHANGED <<stage, chunk, todo>>
    BY <1>2 DEF Chains
  <2>2. PICK i \in Chunk :
          \/ lock[i] = "shallow" /\ lock' = [lock EXCEPT ![i] = "mature"] /\ facts' = facts
          \/ lock' = lock /\ facts' = facts \cup {<<"cemented", i>>}
          \/ lock' = lock /\ facts' = facts \cup {<<"settled", i>>}
    BY <1>2 DEF Chains, Note
  <2> QED  BY <1>0, <2>1, <2>2
<1>3. CASE Reorg
  <2>1. UNCHANGED <<stage, chunk, todo>>
    BY <1>3 DEF Reorg
  <2>2. PICK i \in Chunk, l \in {"shallow", "gone"} :
          /\ lock[i] = "mature" /\ lock' = [lock EXCEPT ![i] = l]
          /\ facts' = facts \cup {<<"reorged", i>>}
    BY <1>3 DEF Reorg
  <2> QED  BY <1>0, <2>1, <2>2
<1>4. CASE UNCHANGED vars
  BY <1>4 DEF vars, world
<1> QED  BY <1>1, <1>2, <1>3, <1>4 DEF Next

LEMMA InvNext == Inv /\ [Next]_vars => Inv'
<1> SUFFICES ASSUME Inv, [Next]_vars PROVE Inv'
  OBVIOUS
<1>1. CASE \E p \in Role : Handle(p)
  BY <1>1, InvHandle
<1>2. CASE ~ \E p \in Role : Handle(p)
  <2>1. Books'
    BY BooksNext DEF Inv
  <2>2. Gates'
    BY <1>2, InvWorld DEF Inv, Gates
  <2>3. Flight'
    BY <1>2, InvWorld DEF Inv, Flight, Ordered
  <2>4. Owned'
    BY <1>2, InvWorld DEF Inv, Owned
  <2> QED  BY <2>1, <2>2, <2>3, <2>4 DEF Inv
<1> QED  BY <1>1, <1>2

LEMMA WorldInvariant == Spec => []Inv
  BY InvInit, InvNext, PTL DEF Spec

\* A completed claim, which reveals Bob's secret, is never out before the guard
\* rung it stands on is cemented.
THEOREM ConfirmsBeforeReveal == Spec => []ConfirmBeforeReveal
<1>1. Inv => ConfirmBeforeReveal
  BY DEF Inv, Gates, ConfirmBeforeReveal
<1> QED  BY WorldInvariant, <1>1, PTL

\* Alice's pre-signature is never out for a lock that did not mature.
THEOREM PresignsMature == Spec => []PresignMature
<1>1. Inv => PresignMature
  BY DEF Inv, Gates, PresignMature
<1> QED  BY WorldInvariant, <1>1, PTL

\* Bob never has two chunks' Monero standing or about to stand: the chunks below
\* his counter are swept, those above it are not locked.
THEOREM OneChunkInFlight == Spec => []OneInFlight
<1> DEFINE S == {i \in Chunk : \/ lock[i] \in {"shallow", "mature"}
                               \/ <<"Bob", "LockXmrChunk", i>> \in todo}
<1>1. ASSUME Inv PROVE S \subseteq {chunk["Bob"]}
  <2> SUFFICES ASSUME NEW i \in S PROVE i = chunk["Bob"]
    OBVIOUS
  <2>1. i \in Nat /\ chunk["Bob"] \in Nat /\ i \in Chunk
    <3>1. Len(Chunks) \in Nat /\ Chunk = 1..Len(Chunks)
      BY ScheduleAssumption DEF Chunk
    <3> QED  BY <1>1, <3>1 DEF Inv, Books, TypeOK, Role
  <2>2. i <= chunk["Bob"] /\ ~ (i < chunk["Bob"])
    BY <1>1, <2>1 DEF Inv, Flight, Ordered
  <2> QED  BY <2>1, <2>2
<1>2. Inv => OneInFlight
  <2> SUFFICES ASSUME Inv PROVE Cardinality(S) <= 1
    BY DEF OneInFlight
  <2>1. S \subseteq {chunk["Bob"]}
    BY <1>1
  <2> HIDE DEF S
  <2>2. IsFiniteSet({chunk["Bob"]}) /\ Cardinality({chunk["Bob"]}) = 1
    BY FS_Singleton
  <2> QED  BY <2>1, <2>2, FS_Subset
<1> QED  BY WorldInvariant, <1>2, PTL

-----------------------------------------------------------------------------
(* A seen lock keeps its backstop.  Return never trips (BookBalanced), so  *)
(* Bob reaches "Aborted" only through Abort, and the action it hands out    *)
(* is dropped from todo only when the backstop has been triggered.          *)

Backed ==
  /\ SeenLockBacked
  /\ stage["Bob"] = "AwaitBonds" => xmr_in_flight["Bob"] = 0

LEMMA BackedHandle ==
  ASSUME Books, Backed, NEW p \in Role, Handle(p)
  PROVE  Backed'
<1>0. /\ Books' /\ Balanced(p)' /\ "Bob" \in Role /\ p \in {"Alice", "Bob"}
      /\ stage \in [Role -> Stage] /\ chunk \in [Role -> 1..(Len(Chunks) + 1)]
      /\ xno_settled \in [Role -> Nat] /\ xmr_settled \in [Role -> Nat]
      /\ xmr_in_flight \in [Role -> Nat]
  <2>1. Books'
    BY BooksHandle
  <2>2. Balanced(p)'
    BY <2>1, BookBalanced, PTL
  <2> QED  BY <2>1, <2>2 DEF Books, TypeOK, Role
<1>1. ASSUME NEW s, NEW acts, Return(p, s, acts)
      PROVE  stage' = [stage EXCEPT ![p] = s] /\ todo' = todo \cup acts
  BY <1>0, <1>1 DEF Return
<1>2. facts' = facts /\ todo \subseteq todo'
  BY <1>1 DEF Handle, BothBondsConfirmed, XmrLockObserved, PresignDelivered,
              GuardConfirmed, XnoClaimSettled, XmrSweepConfirmed, Abort, world
<1>3. CASE p = "Alice"
  <2>1. /\ stage'["Bob"] = stage["Bob"] /\ chunk'["Bob"] = chunk["Bob"]
        /\ xno_settled'["Bob"] = xno_settled["Bob"]
        /\ xmr_settled'["Bob"] = xmr_settled["Bob"]
        /\ xmr_in_flight'["Bob"] = xmr_in_flight["Bob"]
    BY <1>0, <1>1, <1>3
       DEF Handle, BothBondsConfirmed, XmrLockObserved, PresignDelivered,
           GuardConfirmed, XnoClaimSettled, XmrSweepConfirmed, Abort, values
  <2> QED  BY <1>2, <2>1 DEF Backed, SeenLockBacked
<1>4. CASE p = "Bob" /\ Abort(p)
  <2>1. /\ stage' = [stage EXCEPT !["Bob"] = "Aborted"]
        /\ todo' = todo \cup AbortActions("Bob")
        /\ UNCHANGED <<chunk, values>>
        /\ stage["Bob"] \in Stage \ {"Completed", "Aborted"}
    BY <1>0, <1>1, <1>4 DEF Abort
  <2>2. stage'["Bob"] = "Aborted"
    BY <1>0, <2>1
  <2>3. CASE stage["Bob"] \in {"AwaitXmrLock", "AwaitPresign", "AwaitGuardConfirm",
                               "AwaitXnoClaim"}
    <3>1. xmr_in_flight["Bob"] > 0 =>
            AbortActions("Bob") = {<<"Bob", "TriggerRefundBackstop", chunk["Bob"]>>}
      BY <2>3 DEF AbortActions
    <3> QED  BY <2>1, <2>2, <3>1 DEF Backed, SeenLockBacked, values
  <2>4. CASE stage["Bob"] = "AwaitXmrSweep"
    <3>1. /\ xno_settled["Bob"] = xmr_settled["Bob"] + xmr_in_flight["Bob"]
          /\ xmr_settled["Bob"] \in Nat /\ xmr_in_flight["Bob"] \in Nat
      BY <1>0, <2>4 DEF Books, Book
    <3> QED  BY <2>1, <2>2, <3>1 DEF Backed, SeenLockBacked, values
  <2>5. CASE stage["Bob"] = "AwaitBonds"
    BY <2>1, <2>2, <2>5 DEF Backed, SeenLockBacked, values
  <2> QED  BY <2>1, <2>3, <2>4, <2>5 DEF Stage
<1>5. CASE p = "Bob" /\ ~ Abort(p)
  <2>1. stage'["Bob"] \notin {"Aborted", "AwaitBonds"}
    BY <1>0, <1>1, <1>5
       DEF Handle, BothBondsConfirmed, XmrLockObserved, PresignDelivered,
           GuardConfirmed, XnoClaimSettled, XmrSweepConfirmed
  <2> QED  BY <2>1 DEF Backed, SeenLockBacked
<1> QED  BY <1>0, <1>3, <1>4, <1>5

LEMMA BackedWorld ==
  ASSUME Books, Backed, [Next]_vars, ~ \E p \in Role : Handle(p)
  PROVE  Backed'
<1>1. UNCHANGED <<stage, chunk, values>> /\ facts \subseteq facts'
  <2>1. CASE Dispatch
    <3>1. PICK a \in todo : Perform(a[2], a[3])
      BY <2>1 DEF Dispatch
    <3>2. a[2] \in Kind /\ a[3] \in Chunk
      BY DEF Books, TypeOK
    <3>3. facts \subseteq facts'
      BY <3>1, <3>2, PerformEffect DEF world
    <3> QED  BY <2>1, <3>3 DEF Dispatch
  <2> QED  BY <2>1 DEF Next, Chains, Note, Reorg, vars, world
<1>2. ASSUME NEW i \in Nat, <<"Bob", "TriggerRefundBackstop", i>> \in todo
      PROVE  \/ <<"Bob", "TriggerRefundBackstop", i>> \in todo'
             \/ <<"backstop", i>> \in facts'
  <2>1. CASE Dispatch
    <3>1. PICK a \in todo : Perform(a[2], a[3]) /\ todo' = todo \ {a}
      BY <2>1 DEF Dispatch
    <3>2. CASE a = <<"Bob", "TriggerRefundBackstop", i>>
      <4>1. Perform("TriggerRefundBackstop", i)
        BY <3>1, <3>2
      <4> QED  BY <4>1 DEF Perform, Note
    <3> QED  BY <1>2, <3>1, <3>2
  <2> QED  BY <1>2, <2>1 DEF Next, Chains, Reorg, vars
<1>3. chunk["Bob"] \in Nat
  BY ScheduleAssumption DEF Books, TypeOK, Role
<1> QED  BY <1>1, <1>2, <1>3 DEF Backed, SeenLockBacked, values

\* However the two machines are fed, an abort of Bob's never leaves a lock he
\* saw, and whose chunk he did not see settle, without its refund backstop.
THEOREM SeenLocksBacked == Spec => []SeenLockBacked
<1>1. Init => Backed
  BY DEF Init, Backed, SeenLockBacked, Role
<1>2. Books /\ Backed /\ [Next]_vars => Backed'
  BY BackedHandle, BackedWorld
<1>3. Backed => SeenLockBacked
  BY DEF Backed
<1> QED  BY BooksInvariant, <1>1, <1>2, <1>3, PTL DEF Spec

-----------------------------------------------------------------------------
(***************************************************************************)
(* The schedule the machines are given: what build returns, for every set  *)
(* of calls.  The cap on a chunk and on their number, that a call is       *)
(* refused exactly when the total does not fit, and that what it returns is *)
(* a schedule the machines accept.  While the loop runs with something left, *)
(* every chunk pushed so far is a full one (Accounted).                     *)
(***************************************************************************)

\* Past its argument checks a call has a positive cap and a minimum within it.
BoundsSane == result \in {"looping", "ok", "TooManyChunks"} =>
                args.total > 0 /\ args.max > 0 /\ args.min <= args.max

\* The chunks account for what was taken off the total.
Accounted ==
  result = "looping" =>
    IF remaining > 0 THEN args.total = remaining + Len(chunks) * args.max
                     ELSE args.total <= Len(chunks) * args.max

\* What is returned has a chunk in it: a total that is not zero is in chunks.
Nonempty == /\ result = "looping" => remaining > 0 \/ chunks # <<>>
            /\ result = "ok" => chunks # <<>>

BuildInv == BuildTypeOK /\ BoundsSane /\ Capped /\ Accounted /\ Refusal /\ Nonempty

\* The schedule build returns is one the machines take (ScheduleAssumption).
Runnable == result = "ok" => chunks \in Seq(Nat \ {0}) /\ Len(chunks) > 0

\* One or two chunks added to a sequence of capped chunks.
LEMMA PushOne ==
  ASSUME NEW s \in Seq(Nat), NEW c \in Nat
  PROVE  /\ s \o <<c>> \in Seq(Nat)
         /\ Len(s \o <<c>>) = Len(s) + 1
         /\ \A i \in DOMAIN (s \o <<c>>) :
              \/ i \in DOMAIN s /\ (s \o <<c>>)[i] = s[i]
              \/ (s \o <<c>>)[i] = c
  OBVIOUS

LEMMA PushTwo ==
  ASSUME NEW s \in Seq(Nat), NEW c \in Nat, NEW d \in Nat
  PROVE  /\ s \o <<c, d>> \in Seq(Nat)
         /\ Len(s \o <<c, d>>) = Len(s) + 2
         /\ \A i \in DOMAIN (s \o <<c, d>>) :
              \/ i \in DOMAIN s /\ (s \o <<c, d>>)[i] = s[i]
              \/ (s \o <<c, d>>)[i] \in {c, d}
  OBVIOUS

\* Multiplication by a natural number keeps the order.
LEMMA TimesMonotone ==
  ASSUME NEW m \in Nat, NEW a \in Nat, NEW b \in Nat, a <= b
  PROVE  a * m \in Nat /\ b * m \in Nat /\ a * m <= b * m
<1>1. b = a + (b - a) /\ b - a \in Nat  OBVIOUS
<1>2. (a + (b - a)) * m = a * m + (b - a) * m  BY <1>1
<1>3. a * m \in Nat /\ (b - a) * m \in Nat  BY <1>1
<1>4. b * m = a * m + (b - a) * m  BY <1>1, <1>2
<1> QED  BY <1>3, <1>4

\* The halves of a tail that is above the cap, and by less than the minimum.
LEMMA Halves ==
  ASSUME NEW r \in Nat, NEW m \in Nat, NEW n \in Nat, m > 0, n <= m, r > m, r - m < n
  PROVE  r \div 2 \in 1..m /\ r - r \div 2 \in 1..m
  OBVIOUS

LEMMA BuildInvInit == BuildInit => BuildInv
<1> SUFFICES ASSUME BuildInit PROVE BuildInv  OBVIOUS
<1>1. args \in [total : Nat, min : Nat, max : Nat, count : Nat]
  BY ArgsAssumption DEF BuildInit
<1>2. args.total \in Nat /\ args.min \in Nat /\ args.max \in Nat /\ args.count \in Nat
  BY <1>1
<1>3. result \in {"looping", "ZeroTotal", "BadBounds"}
      /\ (result = "looping" => args.total > 0 /\ args.max > 0 /\ args.min <= args.max)
  BY <1>2 DEF BuildInit
<1>4. BuildTypeOK  BY <1>2, <1>3 DEF BuildInit, BuildTypeOK, Result
<1>5. BoundsSane  BY <1>3 DEF BoundsSane
<1>6. Capped  BY <1>2 DEF BuildInit, Capped
<1>7. Accounted  BY <1>2, <1>3 DEF BuildInit, Accounted
<1>8. Refusal  BY <1>3 DEF Refusal
<1>9. Nonempty  BY <1>2, <1>3 DEF BuildInit, Nonempty
<1> QED  BY <1>4, <1>5, <1>6, <1>7, <1>8, <1>9 DEF BuildInv

LEMMA BuildInvNext == BuildInv /\ [BuildNext]_call => BuildInv'
<1> SUFFICES ASSUME BuildInv, [BuildNext]_call PROVE BuildInv'
  OBVIOUS
<1> DEFINE n == Len(chunks)
           m == args.max
<1>1. /\ args.total \in Nat /\ args.min \in Nat /\ m \in Nat /\ args.count \in Nat
      /\ n \in Nat /\ remaining \in Nat /\ chunks \in Seq(Nat) /\ n <= args.count
  BY ArgsAssumption DEF BuildInv, BuildTypeOK, Capped
<1> HIDE DEF n, m
<1>m. m = args.max /\ n = Len(chunks)  BY DEF m, n
<1>2. CASE LastChunk
  <2>1. /\ n + 1 <= args.count /\ remaining \in 1..m /\ result = "looping"
        /\ chunks' = chunks \o <<remaining>> /\ remaining' = 0
        /\ args' = args /\ result' = result
    BY <1>1, <1>2, <1>m DEF LastChunk, Iterate, Push
  <2>2. chunks' \in Seq(Nat) /\ Len(chunks') = n + 1
    BY <1>1, <1>m, <2>1, PushOne
  <2>3. \A i \in DOMAIN chunks' : chunks'[i] \in 1..m
    BY <1>1, <1>m, <2>1, PushOne DEF BuildInv, Capped
  <2>4. args.total = remaining + n * m  BY <1>m, <2>1 DEF BuildInv, Accounted
  <2>5. (n + 1) * m = n * m + m /\ n * m \in Nat  BY <1>1
  <2>6. args.total <= (n + 1) * m  BY <1>1, <2>1, <2>4, <2>5
  <2>7. BuildTypeOK'  BY <2>1, <2>2 DEF BuildInv, BuildTypeOK
  <2>8. BoundsSane' /\ Refusal'  BY <2>1 DEF BuildInv, BoundsSane, Refusal
  <2>9. Capped'  BY <1>1, <1>m, <2>1, <2>2, <2>3 DEF Capped
  <2>10. Accounted'  BY <1>m, <2>1, <2>2, <2>6 DEF Accounted
  <2>11. Nonempty'  BY <1>1, <2>2 DEF Nonempty
  <2> QED  BY <2>7, <2>8, <2>9, <2>10, <2>11 DEF BuildInv
<1>3. CASE SplitTail
  <2> DEFINE c == remaining \div 2
             d == remaining - remaining \div 2
  <2>1. /\ n + 2 <= args.count /\ remaining > m /\ remaining - m < args.min
        /\ result = "looping" /\ chunks' = chunks \o <<c, d>> /\ remaining' = 0
        /\ args' = args /\ result' = result
    BY <1>1, <1>3, <1>m DEF SplitTail, Iterate, Push
  <2>2. m > 0 /\ args.min <= m  BY <1>m, <2>1 DEF BuildInv, BoundsSane
  <2>3. c \in 1..m /\ d \in 1..m  BY <1>1, <2>1, <2>2, Halves
  <2>4. c \in Nat /\ d \in Nat  BY <1>1, <2>3
  <2> HIDE DEF c, d
  <2>5. chunks' \in Seq(Nat) /\ Len(chunks') = n + 2
    BY <1>1, <1>m, <2>1, <2>4, PushTwo
  <2>6. \A i \in DOMAIN chunks' : chunks'[i] \in 1..m
    <3>1. \A i \in DOMAIN chunks : chunks[i] \in 1..m  BY <1>m DEF BuildInv, Capped
    <3>2. \A i \in DOMAIN chunks' : \/ i \in DOMAIN chunks /\ chunks'[i] = chunks[i]
                                    \/ chunks'[i] \in {c, d}
      BY <1>1, <2>1, <2>4, PushTwo
    <3> QED  BY <2>3, <3>1, <3>2
  <2>7. args.total = remaining + n * m  BY <1>1, <1>m, <2>1 DEF BuildInv, Accounted
  <2>8. (n + 2) * m = n * m + m + m /\ n * m \in Nat  BY <1>1
  <2>9. args.total <= (n + 2) * m  BY <1>1, <2>1, <2>2, <2>7, <2>8
  <2>10. BuildTypeOK'  BY <2>1, <2>5 DEF BuildInv, BuildTypeOK
  <2>11. BoundsSane' /\ Refusal'  BY <2>1 DEF BuildInv, BoundsSane, Refusal
  <2>12. Capped'  BY <1>1, <1>m, <2>1, <2>5, <2>6 DEF Capped
  <2>13. Accounted'  BY <1>m, <2>1, <2>5, <2>9 DEF Accounted
  <2>14. Nonempty'  BY <1>1, <2>5 DEF Nonempty
  <2> QED  BY <2>10, <2>11, <2>12, <2>13, <2>14 DEF BuildInv
<1>4. CASE FullChunk
  <2>1. /\ n + 1 <= args.count /\ remaining > m /\ result = "looping"
        /\ chunks' = chunks \o <<m>> /\ remaining' = remaining - m
        /\ args' = args /\ result' = result
    BY <1>1, <1>4, <1>m DEF FullChunk, Iterate, Push
  <2>2. m > 0  BY <1>m, <2>1 DEF BuildInv, BoundsSane
  <2>3. chunks' \in Seq(Nat) /\ Len(chunks') = n + 1
    BY <1>1, <1>m, <2>1, PushOne
  <2>4. \A i \in DOMAIN chunks' : chunks'[i] \in 1..m
    BY <1>1, <1>m, <2>1, <2>2, PushOne DEF BuildInv, Capped
  <2>5. args.total = remaining + n * m  BY <1>1, <1>m, <2>1 DEF BuildInv, Accounted
  <2>6. (n + 1) * m = n * m + m /\ n * m \in Nat  BY <1>1
  <2>7. remaining' > 0 /\ remaining' \in Nat /\ args.total = remaining' + (n + 1) * m
    BY <1>1, <2>1, <2>5, <2>6
  <2>8. BuildTypeOK'  BY <2>1, <2>3, <2>7 DEF BuildInv, BuildTypeOK
  <2>9. BoundsSane' /\ Refusal'  BY <2>1 DEF BuildInv, BoundsSane, Refusal
  <2>10. Capped'  BY <1>1, <1>m, <2>1, <2>3, <2>4 DEF Capped
  <2>11. Accounted'  BY <1>m, <2>1, <2>3, <2>7 DEF Accounted
  <2>12. Nonempty'  BY <2>1, <2>7 DEF Nonempty
  <2> QED  BY <2>8, <2>9, <2>10, <2>11, <2>12 DEF BuildInv
<1>5. CASE TooManyChunks
  <2>1. /\ result = "looping" /\ remaining > 0 /\ result' = "TooManyChunks"
        /\ args' = args /\ chunks' = chunks /\ remaining' = remaining
        /\ n >= args.count \/ (remaining > m /\ n + 2 > args.count)
    BY <1>1, <1>5, <1>m DEF TooManyChunks
  <2>2. args.total = remaining + n * m  BY <1>1, <1>m, <2>1 DEF BuildInv, Accounted
  <2>3. args.total > args.count * m
    <3>1. n * m \in Nat /\ args.count * m \in Nat  BY <1>1
    <3>2. CASE n >= args.count
      <4>1. args.count * m <= n * m  BY <1>1, <3>2, TimesMonotone
      <4> QED  BY <1>1, <2>1, <2>2, <3>1, <4>1
    <3>3. CASE remaining > m /\ n + 2 > args.count
      <4>1. args.count <= n + 1  BY <1>1, <3>3
      <4>2. args.count * m <= (n + 1) * m  BY <1>1, <4>1, TimesMonotone
      <4>3. (n + 1) * m = n * m + m  BY <1>1
      <4> QED  BY <1>1, <2>2, <3>1, <3>3, <4>2, <4>3
    <3> QED  BY <2>1, <3>2, <3>3
  <2>4. BuildTypeOK' /\ BoundsSane' /\ Capped' /\ Accounted'
    BY <2>1 DEF BuildInv, BuildTypeOK, Result, BoundsSane, Capped, Accounted
  <2>5. Refusal'  BY <1>m, <2>1, <2>3 DEF Refusal
  <2>6. Nonempty'  BY <2>1 DEF Nonempty
  <2> QED  BY <2>4, <2>5, <2>6 DEF BuildInv
<1>6. CASE Done
  <2>1. /\ result = "looping" /\ remaining = 0 /\ result' = "ok"
        /\ args' = args /\ chunks' = chunks /\ remaining' = remaining
    BY <1>6 DEF Done
  <2>2. args.total <= n * m  BY <1>1, <1>m, <2>1 DEF BuildInv, Accounted
  <2>3. n * m <= args.count * m /\ n * m \in Nat /\ args.count * m \in Nat
    BY <1>1, TimesMonotone
  <2>4. args.total <= args.count * m  BY <1>1, <2>2, <2>3
  <2>5. BuildTypeOK' /\ BoundsSane' /\ Capped' /\ Accounted'
    BY <2>1 DEF BuildInv, BuildTypeOK, Result, BoundsSane, Capped, Accounted
  <2>6. Refusal'  BY <1>m, <2>1, <2>4 DEF Refusal
  <2>7. Nonempty'  BY <2>1 DEF BuildInv, Nonempty
  <2> QED  BY <2>5, <2>6, <2>7 DEF BuildInv
<1>7. CASE UNCHANGED call
  BY <1>7 DEF call, BuildInv, BuildTypeOK, BoundsSane, Capped, Accounted, Refusal,
              Nonempty
<1> QED  BY <1>2, <1>3, <1>4, <1>5, <1>6, <1>7 DEF BuildNext, Returned

LEMMA BuildInvariance == BuildSpec => []BuildInv
<1> QED  BY BuildInvInit, BuildInvNext, PTL DEF BuildSpec

\* Every state of every call is of its type; in particular nothing is taken
\* off the total that is not there (no u128 underflow in `remaining -=`).
THEOREM BuildTypeCorrect == BuildSpec => []BuildTypeOK
<1>1. BuildInv => BuildTypeOK  BY DEF BuildInv
<1> QED  BY <1>1, BuildInvariance, PTL

\* A schedule has no empty chunk, none above the cap and at most max_chunks.
THEOREM ChunksCapped == BuildSpec => []Capped
<1>1. BuildInv => Capped  BY DEF BuildInv
<1> QED  BY <1>1, BuildInvariance, PTL

\* build refuses for want of chunks only a total that does not fit, and
\* accepts none that does not.
THEOREM RefusalExact == BuildSpec => []Refusal
<1>1. BuildInv => Refusal  BY DEF BuildInv
<1> QED  BY <1>1, BuildInvariance, PTL

\* What build returns is a schedule the machines take: at least one chunk and
\* none of them empty, so that the theorems above hold for every swap built.
THEOREM ScheduleRuns == BuildSpec => []Runnable
<1>1. BuildInv => Runnable
  <2> SUFFICES ASSUME BuildInv, result = "ok" PROVE chunks \in Seq(Nat \ {0}) /\ Len(chunks) > 0
    BY DEF Runnable
  <2>1. chunks \in Seq(Nat) /\ remaining \in Nat /\ \A i \in DOMAIN chunks : chunks[i] \in Nat \ {0}
    BY DEF BuildInv, BuildTypeOK, Capped
  <2>2. chunks # <<>>
    BY DEF BuildInv, Nonempty
  <2> QED  BY <2>1, <2>2
<1> QED  BY <1>1, BuildInvariance, PTL

-----------------------------------------------------------------------------
(* The sum of a schedule *)

\* c adds up to t.
Adds(c, t) ==
  \E s \in [0 .. Len(c) -> Nat] :
    s[0] = 0 /\ s[Len(c)] = t /\ \A i \in 1 .. Len(c) : s[i] = s[i - 1] + c[i]

LEMMA AddsMore ==
  ASSUME NEW c \in Seq(Nat), NEW t \in Nat, NEW x \in Nat, Adds(c, t)
  PROVE  Adds(c \o <<x>>, t + x)
<1> DEFINE n == Len(c)
           d == c \o <<x>>
<1>1. PICK s \in [0 .. n -> Nat] :
        s[0] = 0 /\ s[n] = t /\ \A i \in 1 .. n : s[i] = s[i - 1] + c[i]
  BY DEF Adds
<1>2. n \in Nat /\ Len(d) = n + 1 /\ d[n + 1] = x /\ \A i \in 1 .. n : d[i] = c[i]
  OBVIOUS
<1> HIDE DEF n, d
<1> DEFINE r == [i \in 0 .. n + 1 |-> IF i <= n THEN s[i] ELSE t + x]
<1>3. r \in [0 .. n + 1 -> Nat] /\ r[0] = 0 /\ r[n + 1] = t + x
  BY <1>1, <1>2
<1>4. ASSUME NEW i \in 1 .. n + 1 PROVE r[i] = r[i - 1] + d[i]
  <2>1. CASE i \in 1 .. n
    BY <1>1, <1>2, <2>1
  <2>2. CASE i = n + 1
    <3>1. n \in 0 .. n + 1 /\ n + 1 \in 0 .. n + 1  BY <1>2
    <3>2. r[n] = s[n]  BY <1>2, <3>1
    <3> QED  BY <1>1, <1>2, <1>3, <2>2, <3>2
  <2> QED  BY <1>2, <2>1, <2>2
<1> HIDE DEF r
<1>5. Adds(d, t + x)
  BY <1>2, <1>3, <1>4 DEF Adds
<1> QED  BY <1>5 DEF d

\* A sum computed chunk by chunk is what they add up to.
LEMMA Computed ==
  ASSUME NEW c \in Seq(Nat), NEW t \in Nat, Adds(c, t)
  PROVE  LET sum[i \in 0 .. Len(c)] == IF i = 0 THEN 0 ELSE sum[i - 1] + c[i]
         IN sum[Len(c)] = t
<1> DEFINE n == Len(c)
           Rec(f) == f = [i \in 0 .. n |-> IF i = 0 THEN 0 ELSE f[i - 1] + c[i]]
           sum == CHOOSE f : Rec(f)
<1>0. n \in Nat
  OBVIOUS
<1>1. PICK s \in [0 .. n -> Nat] :
        s[0] = 0 /\ s[n] = t /\ \A i \in 1 .. n : s[i] = s[i - 1] + c[i]
  BY DEF Adds
<1> HIDE DEF n
<1>2. Rec(s)
  BY <1>0, <1>1
<1>3. Rec(sum)
  BY <1>2
<1> HIDE DEF sum
<1>4. \A i \in 0 .. n : sum[i] = IF i = 0 THEN 0 ELSE sum[i - 1] + c[i]
  BY <1>3
<1>5. \A i \in 0 .. n : sum[i] = s[i]
  <2> DEFINE T == {i \in 0 .. n : sum[i] # s[i]}
  <2>1. SUFFICES ASSUME T # {} PROVE FALSE
    OBVIOUS
  <2>2. PICK i \in T : \A j \in T : i <= j
    <3>1. T \in SUBSET Nat  BY <1>0
    <3> HIDE DEF T
    <3> QED  BY <2>1, <3>1, LeastNatural
  <2>3. i # 0
    <3>1. sum[0] = 0  BY <1>0, <1>4
    <3> QED  BY <1>1, <2>2, <3>1
  <2>4. i \in 1 .. n /\ i - 1 \in 0 .. n /\ i - 1 \notin T
    BY <1>0, <2>2, <2>3
  <2>5. sum[i - 1] = s[i - 1]
    BY <2>4
  <2>6. sum[i] = s[i]
    BY <1>1, <1>4, <2>4, <2>5
  <2> QED  BY <2>2, <2>6
<1>6. sum[n] = t
  BY <1>0, <1>1, <1>5
<1> QED  BY <1>6 DEF sum, n
\* What is taken off the total is in the chunks.
Summed == \E t \in Nat : Adds(chunks, t) /\ t + remaining = args.total

LEMMA TwoAtOnce ==
  ASSUME NEW c \in Seq(Nat), NEW x \in Nat, NEW y \in Nat
  PROVE  c \o <<x, y>> = (c \o <<x>>) \o <<y>>
<1> DEFINE n == Len(c)
           d == c \o <<x>>
           e == d \o <<y>>
           f == c \o <<x, y>>
<1>1. n \in Nat /\ d \in Seq(Nat) /\ Len(d) = n + 1 /\ d[n + 1] = x /\ \A i \in 1 .. n : d[i] = c[i]
  OBVIOUS
<1>2. /\ f \in Seq(Nat) /\ Len(f) = n + 2 /\ f[n + 1] = x /\ f[n + 2] = y
      /\ \A i \in 1 .. n : f[i] = c[i]
  OBVIOUS
<1> HIDE DEF d
<1>3. /\ e \in Seq(Nat) /\ Len(e) = Len(d) + 1 /\ e[Len(d) + 1] = y
      /\ \A i \in 1 .. Len(d) : e[i] = d[i]
  BY <1>1
<1> HIDE DEF e, f, n
<1>4. Len(e) = n + 2 /\ e[n + 1] = x /\ e[n + 2] = y /\ \A i \in 1 .. n : e[i] = c[i]
  BY <1>1, <1>3
<1>5. \A i \in 1 .. n + 2 : i \in 1 .. n \/ i = n + 1 \/ i = n + 2
  BY <1>1
<1>6. e = f
  BY <1>1, <1>2, <1>3, <1>4, <1>5
<1> QED  BY <1>6 DEF d, e, f

LEMMA SummedStep ==
  ASSUME BuildInv, Summed, [BuildNext]_call
  PROVE  Summed'
<1>0. /\ chunks \in Seq(Nat) /\ remaining \in Nat
      /\ args.total \in Nat /\ args.max \in Nat
  BY ArgsAssumption DEF BuildInv, BuildTypeOK
<1>1. PICK t \in Nat : Adds(chunks, t) /\ t + remaining = args.total
  BY DEF Summed
<1>2. ASSUME NEW x \in Nat, x <= remaining, Push(<<x>>), remaining' = remaining - x, UNCHANGED args
      PROVE  Summed'
  <2>1. Adds(chunks', t + x)  BY <1>0, <1>1, <1>2, AddsMore DEF Push
  <2>2. t + x \in Nat /\ t + x + remaining' = args'.total  BY <1>0, <1>1, <1>2
  <2> QED  BY <2>1, <2>2 DEF Summed
<1>3. CASE LastChunk
  BY <1>0, <1>2, <1>3 DEF LastChunk
<1>4. CASE FullChunk
  BY <1>0, <1>2, <1>4 DEF FullChunk
<1>5. CASE SplitTail
  <2> DEFINE x == remaining \div 2
             y == remaining - remaining \div 2
             c == chunks \o <<x>>
  <2>1. x \in Nat /\ y \in Nat /\ x + y = remaining
    BY <1>0
  <2>2. chunks' = chunks \o <<x, y>> /\ remaining' = 0 /\ args' = args
    BY <1>5 DEF SplitTail, Push
  <2> HIDE DEF x, y
  <2>3. c \in Seq(Nat) /\ c \o <<y>> = chunks \o <<x, y>>
    <3>1. c \in Seq(Nat)
      <4>1. <<x>> \in Seq(Nat)  BY <2>1
      <4> QED  BY <1>0, <4>1
    <3>2. chunks \o <<x, y>> = (chunks \o <<x>>) \o <<y>>
      BY <1>0, <2>1, TwoAtOnce
    <3> QED  BY <3>1, <3>2, Zenon
  <2>4. Adds(c, t + x)
    BY <1>0, <1>1, <2>1, AddsMore
  <2> HIDE DEF c
  <2>5. Adds(c \o <<y>>, t + x + y)
    BY <1>0, <1>1, <2>1, <2>3, <2>4, AddsMore
  <2>6. t + x + y \in Nat /\ t + x + y + remaining' = args'.total
    <3>1. t + x + y = args.total  BY <1>0, <1>1, <2>1
    <3> QED  BY <1>0, <2>2, <3>1
  <2> QED  BY <2>2, <2>3, <2>5, <2>6 DEF Summed
<1>6. CASE TooManyChunks \/ Done \/ Returned \/ UNCHANGED call
  BY <1>1, <1>6 DEF TooManyChunks, Done, Returned, call, Summed
<1> QED  BY <1>3, <1>4, <1>5, <1>6 DEF BuildNext

\* At every point of every call the chunks pushed and what remains are the
\* total: a schedule that is returned sums to it exactly.
THEOREM SumsExactly == BuildSpec => []Total
<1>1. BuildInit => Summed
  <2> SUFFICES ASSUME BuildInit PROVE Summed
    OBVIOUS
  <2>1. chunks = <<>> /\ remaining = args.total /\ args.total \in Nat
    BY ArgsAssumption DEF BuildInit
  <2> DEFINE s == [i \in 0 .. 0 |-> 0]
  <2>2. s \in [0 .. Len(chunks) -> Nat] /\ s[0] = 0 /\ Len(chunks) = 0
    BY <2>1
  <2> HIDE DEF s
  <2>3. Adds(chunks, 0)
    BY <2>2 DEF Adds
  <2> QED  BY <2>1, <2>3 DEF Summed
<1>2. BuildInv /\ Summed => Total
  <2> SUFFICES ASSUME BuildInv, Summed PROVE Total
    OBVIOUS
  <2>1. PICK t \in Nat : Adds(chunks, t) /\ t + remaining = args.total
    BY DEF Summed
  <2>2. chunks \in Seq(Nat)
    BY DEF BuildInv, BuildTypeOK
  <2> DEFINE sum[i \in 0 .. Len(chunks)] == IF i = 0 THEN 0 ELSE sum[i - 1] + chunks[i]
  <2>3. sum[Len(chunks)] = t
    BY <2>1, <2>2, Computed
  <2> HIDE DEF sum
  <2>4. sum[Len(chunks)] + remaining = args.total
    BY <2>1, <2>3
  <2> QED  BY <2>4 DEF Total, sum
<1> QED  BY <1>1, <1>2, BuildInvariance, SummedStep, PTL DEF BuildSpec
=============================================================================
