-------------------------- MODULE SettlementProofs --------------------------
(***************************************************************************)
(* For any nodes, any quorum of at least two, fewer liars than the quorum  *)
(* and any number of faults: types, confirm before reveal, what a process  *)
(* keeps, and that the two sessions implement AtomicSwap.                  *)
(***************************************************************************)
EXTENDS Settlement, FiniteSetTheorems, TLAPS

\* A party acts on what it did before; a checkpoint of Bob's stands for that.
BobLocked == cp["B"] = "kept" \/ pc["B"] \in {"mature", "open", "rung", "presign", "height",
                                     "save", "settle", "confirm", "claim", "clear", "done"}

Order ==
  /\ lock # "none" \/ pc["B"] \in {"lock"} => "link" \in sent["A"]
  /\ pc["B"] \in {"setup", "link", "lock"} => lock = "none"
  /\ cp["B"] = "kept" => pc["B"] \notin {"setup", "link", "lock"}
  /\ pc["B"] # "down" /\ BobLocked => lock # "none"
  /\ cp["B"] = "kept" => lock # "none"
  /\ lock = "swept" \/ pc["A"] = "sweep" => Claimed
  /\ Claimed => lock # "none"

\* The gate Bob went through.
Gate == pc["B"] = "claim" \/ revealed => cemented >= Rung

\* Bob has, or had, a pre-signature; then both shares of it were sent.  Alice's
\* share is out: she is about to save, or has saved or missed it, or both
\* sessions ended without a pre-signature.
BobPast == pc["B"] \in {"height", "save", "settle", "confirm", "claim", "clear", "done"}
             \/ cp["B"] = "kept" \/ revealed

Handed ==
  /\ BobPast => "presign" \in sent["A"] /\ "presign" \in sent["B"]
  /\ "presign" \in sent["A"] =>
       \/ lock = "swept" \/ cp["A"] \in {"kept", "missed"} \/ pc["A"] \in {"presign", "save"}
       \/ pc["A"] = "down" /\ pc["B"] = "down" /\ ~BobPast

\* A process is about to end cleanly only when its leg is in.
Ended ==
  /\ pc["A"] \in {"clear", "done"} => lock = "swept"
  /\ pc["B"] \in {"clear", "done"} \/ (pc["B"] = "claim" /\ accepted # {}) => Claimed

IInv == TypeOK /\ Order /\ Gate /\ Handed /\ Ended

USE DEF Party, Peer, None, Open, Rung, Claim, Frontier

LEMMA InitInv == Init => IInv
<1> SUFFICES ASSUME Init PROVE IInv  OBVIOUS
<1>1. TypeOK
  <2>1. faults \in 0..MaxFaults  BY NodesAssumption DEF Init
  <2>2. head \in [Nodes -> 0..3] /\ cemented \in 0..3  BY DEF Init
  <2>3. /\ pc \in [Party -> PcA \cup PcB] /\ pc["A"] \in PcA /\ pc["B"] \in PcB
        /\ cp \in [Party -> {"none", "kept", "missed"}]
        /\ sent \in [Party -> SUBSET (Ceremony \cup {"link", "height"})]
    BY DEF Init, Ceremony, PcA, PcB
  <2> QED  BY <2>1, <2>2, <2>3 DEF Init, TypeOK
<1>2. ~Claimed  BY DEF Init, Claimed
<1>3. Order  BY <1>2 DEF Init, Order, BobLocked
<1>4. Gate  BY DEF Init, Gate
<1>5. Handed  BY DEF Init, Handed, BobPast
<1>6. Ended  BY DEF Init, Ended
<1> QED  BY <1>1, <1>3, <1>4, <1>5, <1>6 DEF IInv

\* Fewer liars than the quorum: a quorum of reports holds an honest one.
LEMMA HonestReport ==
  ASSUME NEW C \in SUBSET Nodes, Cardinality(C) >= Quorum
  PROVE  \E n \in C : n \notin Liars
<1>1. SUFFICES ASSUME C \subseteq Liars PROVE FALSE  OBVIOUS
<1>2. IsFiniteSet(Liars)  BY NodesAssumption, FS_Subset
<1>3. Cardinality(C) <= Cardinality(Liars) /\ Cardinality(C) \in Nat /\ Cardinality(Liars) \in Nat
  BY <1>1, <1>2, FS_Subset, FS_CardinalityType
<1> QED  BY <1>3, NodesAssumption

LEMMA TypeStep == TypeOK /\ [Next]_vars => TypeOK'
<1> SUFFICES ASSUME TypeOK, [Next]_vars PROVE TypeOK'  OBVIOUS
<1> USE DEF TypeOK, Ceremony, PcA, PcB, Goto, Send, Save, Fault, wire, chain, loop
<1>1. ASSUME NEW p \in Party, Both(p) PROVE TypeOK'
  <2>1. CASE Share(p)  BY <2>1 DEF Share
  <2>2. CASE Finish(p)
    <3>1. After(p, pc[p]) \in IF p = "A" THEN PcA ELSE PcB
      BY <2>2 DEF Finish, After
    <3> QED  BY <2>2, <3>1 DEF Finish
  <2>3. CASE WireError(p)  BY <2>3 DEF WireError
  <2>4. CASE Clear(p)  BY <2>4 DEF Clear
  <2> QED  BY <1>1, <2>1, <2>2, <2>3, <2>4 DEF Both
<1>2. ASSUME NEW p \in Party, Down(p) PROVE TypeOK'
  <2>1. faults' \in 0..MaxFaults  BY <1>2, NodesAssumption DEF Down
  <2>2. cp' \in [Party -> {"none", "kept", "missed"}]  BY <1>2 DEF Down
  <2> QED  BY <1>2, <2>1, <2>2 DEF Down
<1>3. CASE Alice
  <2>1. CASE Fund  BY <2>1 DEF Fund
  <2>2. CASE PostOpen
    <3>1. faults' \in 0..MaxFaults  BY <2>2, NodesAssumption DEF PostOpen
    <3>2. head' \in [Nodes -> 0..3]  BY <2>2 DEF PostOpen
    <3> QED  BY <2>2, <3>1, <3>2 DEF PostOpen
  <2>3. CASE SaveA
    <3>1. faults' \in 0..MaxFaults  BY <2>3, NodesAssumption DEF SaveA, SaveOrWarn
    <3>2. cp' \in [Party -> {"none", "kept", "missed"}]  BY <2>3 DEF SaveA, SaveOrWarn
    <3> QED  BY <2>3, <3>1, <3>2 DEF SaveA
  <2>4. CASE Height  BY <2>4 DEF Height
  <2>5. CASE ClaimSeen  BY <2>5 DEF ClaimSeen
  <2>6. CASE Sweep  BY <2>6 DEF Sweep
  <2>7. CASE ResumeAlice  BY <2>7 DEF ResumeAlice
  <2> QED  BY <1>3, <2>1, <2>2, <2>3, <2>4, <2>5, <2>6, <2>7 DEF Alice
<1>4. CASE Bob
  <2>1. CASE Link  BY <2>1 DEF Link
  <2>2. CASE LockXmr  BY <2>2 DEF LockXmr
  <2>3. CASE LockMatured  BY <2>3 DEF LockMatured
  <2>4. CASE SendHeight  BY <2>4 DEF SendHeight
  <2>5. CASE SaveB
    <3>1. faults' \in 0..MaxFaults  BY <2>5, NodesAssumption DEF SaveB, SaveOrWarn
    <3>2. cp' \in [Party -> {"none", "kept", "missed"}]  BY <2>5 DEF SaveB, SaveOrWarn
    <3> QED  BY <2>5, <3>1, <3>2 DEF SaveB, Begin
  <2>6. CASE SubmitRung
    <3>1. faults' \in 0..MaxFaults  BY <2>6, NodesAssumption DEF SubmitRung
    <3>2. head' \in [Nodes -> 0..3]  BY <2>6 DEF SubmitRung
    <3>3. todo' \subseteq Nodes /\ accepted' \subseteq Nodes  BY <2>6 DEF SubmitRung
    <3> QED  BY <2>6, <3>1, <3>2, <3>3 DEF SubmitRung
  <2>7. CASE RungSent  BY <2>7 DEF RungSent
  <2>8. CASE RungConfirmed  BY <2>8 DEF RungConfirmed, Begin
  <2>9. CASE SubmitClaim
    <3>1. faults' \in 0..MaxFaults  BY <2>9, NodesAssumption DEF SubmitClaim
    <3>2. head' \in [Nodes -> 0..3]  BY <2>9 DEF SubmitClaim
    <3>3. todo' \subseteq Nodes /\ accepted' \subseteq Nodes  BY <2>9 DEF SubmitClaim
    <3>4. revealed' \in BOOLEAN  BY <2>9 DEF SubmitClaim
    <3> QED  BY <2>9, <3>1, <3>2, <3>3, <3>4 DEF SubmitClaim
  <2>10. CASE ClaimSent  BY <2>10 DEF ClaimSent
  <2>11. CASE ResumeBob  BY <2>11 DEF ResumeBob, Begin
  <2> QED  BY <1>4, <2>1, <2>2, <2>3, <2>4, <2>5, <2>6, <2>7, <2>8, <2>9, <2>10, <2>11 DEF Bob
<1>5. CASE Network
  <2>1. CASE Mature  BY <2>1 DEF Mature
  <2>2. CASE Gossip
    <3>1. PICK m \in Nodes, n \in Nodes : head[n] < head[m] /\ head' = [head EXCEPT ![n] = @ + 1]
      BY <2>2 DEF Gossip
    <3>2. head[n] + 1 \in 0..3  BY <3>1
    <3> QED  BY <2>2, <3>1, <3>2 DEF Gossip
  <2>3. CASE Cement
    <3>1. PICK n \in Nodes : head[n] > cemented  BY <2>3 DEF Cement
    <3>2. cemented + 1 \in 0..3  BY <3>1
    <3> QED  BY <2>3, <3>2 DEF Cement
  <2> QED  BY <1>5, <2>1, <2>2, <2>3 DEF Network
<1>6. CASE UNCHANGED vars  BY <1>6 DEF vars
<1> QED  BY <1>1, <1>2, <1>3, <1>4, <1>5, <1>6 DEF Next

\* A node learns of the claim only from a node that holds it.
LEMMA GossipKeepsClaim == TypeOK /\ Gossip => (Claimed' <=> Claimed)
<1> SUFFICES ASSUME TypeOK, Gossip PROVE Claimed' <=> Claimed  OBVIOUS
<1>1. PICK m \in Nodes, n \in Nodes : head[n] < head[m] /\ head' = [head EXCEPT ![n] = @ + 1]
  BY DEF Gossip
<1>2. head \in [Nodes -> 0..3]  BY DEF TypeOK
<1>3. head[n] + 1 = 3 => head[m] = 3  BY <1>1, <1>2
<1>4. head[n] # 3  BY <1>1, <1>2
<1>5. \A k \in Nodes : head'[k] = IF k = n THEN head[n] + 1 ELSE head[k]  BY <1>1, <1>2
<1> QED  BY <1>1, <1>3, <1>4, <1>5 DEF Claimed

-----------------------------------------------------------------------------
LEMMA OrderStep == TypeOK /\ Order /\ [Next]_vars => Order'
<1> SUFFICES ASSUME TypeOK, Order, [Next]_vars PROVE Order'  OBVIOUS
<1> USE DEF Order, BobLocked, Goto, Send, Save, wire, chain, loop
<1>1. ASSUME NEW p \in Party, Both(p) PROVE Order'
  <2>0. Claimed' <=> Claimed  BY <1>1 DEF Both, Share, Finish, WireError, Clear, Claimed
  <2>1. CASE Share(p)  BY <2>0, <2>1 DEF Share, TypeOK
  <2>2. CASE Finish(p)
    <3>1. After(p, pc[p]) # "sweep"  BY <2>2 DEF Finish, After, Ceremony
    <3>2. p = "B" => /\ pc["B"] = "setup" => pc'["B"] = "link"
                     /\ pc["B"] # "setup" => pc'["B"] \in {"rung", "presign", "height"}
      BY <2>2 DEF Finish, After, Ceremony, TypeOK
    <3>3. p = "B" => pc["B"] \in {"setup", "open", "rung", "presign"}
      BY <2>2 DEF Finish, Ceremony
    <3> QED  BY <2>0, <2>2, <3>1, <3>2, <3>3 DEF Finish, TypeOK
  <2>3. CASE WireError(p)  BY <2>0, <2>3 DEF WireError, TypeOK
  <2>4. CASE Clear(p)  BY <2>0, <2>4 DEF Clear, TypeOK
  <2> QED  BY <1>1, <2>1, <2>2, <2>3, <2>4 DEF Both
<1>2. ASSUME NEW p \in Party, Down(p) PROVE Order'
  <2>1. Claimed' <=> Claimed  BY <1>2 DEF Down, Claimed
  <2> QED  BY <1>2, <2>1 DEF Down, TypeOK
<1>3. CASE Alice
  <2>1. Claimed' <=> Claimed
    BY <1>3 DEF Alice, Fund, PostOpen, SaveA, SaveOrWarn, Height, ClaimSeen, Sweep, ResumeAlice,
                Claimed, TypeOK
  <2>2. UNCHANGED <<pc["B"], cp["B"]>>
    BY <1>3 DEF Alice, Fund, PostOpen, SaveA, SaveOrWarn, Height, ClaimSeen, Sweep, ResumeAlice, TypeOK
  <2>3. "link" \in sent["A"] => "link" \in sent'["A"]
    BY <1>3 DEF Alice, Fund, PostOpen, SaveA, SaveOrWarn, Height, ClaimSeen, Sweep, ResumeAlice, TypeOK
  <2>4. lock' = lock \/ (lock = "mature" /\ lock' = "swept" /\ Claimed)
    BY <1>3 DEF Alice, Fund, PostOpen, SaveA, SaveOrWarn, Height, ClaimSeen, Sweep, ResumeAlice
  <2>5. pc'["A"] = "sweep" => Claimed
    BY <1>3 DEF Alice, Fund, PostOpen, SaveA, SaveOrWarn, Height, ClaimSeen, Sweep, ResumeAlice,
                Claimed, TypeOK
  <2> QED  BY <2>1, <2>2, <2>3, <2>4, <2>5
<1>4. CASE Bob
  <2>1. CASE Link  BY <2>1 DEF Link, Claimed, TypeOK
  <2>2. CASE LockXmr  BY <2>2 DEF LockXmr, Claimed, TypeOK
  <2>3. CASE LockMatured  BY <2>3 DEF LockMatured, Claimed, TypeOK
  <2>4. CASE SendHeight  BY <2>4 DEF SendHeight, Claimed, TypeOK
  <2>5. CASE SaveB  BY <2>5 DEF SaveB, SaveOrWarn, Claimed, TypeOK
  <2>6. CASE SubmitRung
    <3>1. Claimed' <=> Claimed  BY <2>6 DEF SubmitRung, Claimed, TypeOK
    <3> QED  BY <2>6, <3>1 DEF SubmitRung
  <2>7. CASE RungSent  BY <2>7 DEF RungSent, Claimed, TypeOK
  <2>8. CASE RungConfirmed  BY <2>8 DEF RungConfirmed, Claimed, TypeOK
  <2>9. CASE SubmitClaim
    <3>1. lock # "none" /\ (Claimed => Claimed')  BY <2>9 DEF SubmitClaim, Claimed, TypeOK
    <3> QED  BY <2>9, <3>1 DEF SubmitClaim
  <2>10. CASE ClaimSent  BY <2>10 DEF ClaimSent, Claimed, TypeOK
  <2>11. CASE ResumeBob
    <3>1. Claimed' <=> Claimed  BY <2>11 DEF ResumeBob, Claimed
    <3> QED  BY <2>11, <3>1 DEF ResumeBob, TypeOK
  <2> QED  BY <1>4, <2>1, <2>2, <2>3, <2>4, <2>5, <2>6, <2>7, <2>8, <2>9, <2>10, <2>11 DEF Bob
<1>5. CASE Network
  <2>1. CASE Mature  BY <2>1 DEF Mature, Claimed
  <2>2. CASE Gossip
    <3>1. Claimed' <=> Claimed  BY <2>2, GossipKeepsClaim
    <3> QED  BY <2>2, <3>1 DEF Gossip
  <2>3. CASE Cement  BY <2>3 DEF Cement, Claimed
  <2> QED  BY <1>5, <2>1, <2>2, <2>3 DEF Network
<1>6. CASE UNCHANGED vars  BY <1>6 DEF vars, Claimed
<1> QED  BY <1>1, <1>2, <1>3, <1>4, <1>5, <1>6 DEF Next

LEMMA GateStep == TypeOK /\ TypeOK' /\ Gate /\ [Next]_vars => Gate'
<1> SUFFICES ASSUME TypeOK, TypeOK', Gate, [Next]_vars PROVE Gate'  OBVIOUS
<1> USE DEF Gate, Goto, Send, Save, wire, chain, loop
<1>1. ASSUME NEW p \in Party, Both(p) PROVE Gate'
  <2>1. CASE Share(p)  BY <2>1 DEF Share
  <2>2. CASE Finish(p)
    <3>1. After(p, pc[p]) # "claim"  BY <2>2 DEF Finish, After, Ceremony
    <3> QED  BY <2>2, <3>1 DEF Finish, TypeOK
  <2>3. CASE WireError(p)  BY <2>3 DEF WireError, TypeOK
  <2>4. CASE Clear(p)  BY <2>4 DEF Clear, TypeOK
  <2> QED  BY <1>1, <2>1, <2>2, <2>3, <2>4 DEF Both
<1>2. ASSUME NEW p \in Party, Down(p) PROVE Gate'
  BY <1>2 DEF Down, TypeOK
<1>3. CASE Alice
  BY <1>3 DEF Alice, Fund, PostOpen, SaveA, SaveOrWarn, Height, ClaimSeen, Sweep, ResumeAlice, TypeOK
<1>4. CASE Bob
  <2>1. CASE RungConfirmed
    <3>1. PICK C \in SUBSET accepted :
             Cardinality(C) >= Quorum /\ \A n \in C : ReportsRung(n)
      BY <2>1 DEF RungConfirmed
    <3>2. C \in SUBSET Nodes  BY DEF TypeOK
    <3>3. PICK n \in C : n \notin Liars  BY <3>1, <3>2, HonestReport
    <3>4. cemented >= Rung  BY <3>1, <3>3 DEF ReportsRung
    <3> QED  BY <2>1, <3>4 DEF RungConfirmed
  <2>2. CASE SubmitClaim  BY <2>2 DEF SubmitClaim
  <2>3. CASE Link \/ LockXmr \/ LockMatured \/ SendHeight \/ SaveB \/ SubmitRung
    BY <2>3 DEF Link, LockXmr, LockMatured, SendHeight, SaveB, SubmitRung, TypeOK
  <2>4. CASE RungSent \/ ClaimSent \/ ResumeBob
    BY <2>4 DEF RungSent, ClaimSent, ResumeBob, TypeOK
  <2> QED  BY <1>4, <2>1, <2>2, <2>3, <2>4 DEF Bob
<1>5. CASE Network
  <2>1. CASE Cement
    <3>1. cemented \in Nat /\ cemented' = cemented + 1  BY <2>1 DEF Cement, TypeOK
    <3>2. UNCHANGED <<pc, revealed>>  BY <2>1 DEF Cement
    <3> QED  BY <3>1, <3>2
  <2>2. CASE Mature \/ Gossip  BY <2>2 DEF Mature, Gossip
  <2> QED  BY <1>5, <2>1, <2>2 DEF Network
<1>6. CASE UNCHANGED vars  BY <1>6 DEF vars
<1> QED  BY <1>1, <1>2, <1>3, <1>4, <1>5, <1>6 DEF Next

LEMMA HandedStep == TypeOK /\ Order /\ Handed /\ Ended /\ [Next]_vars => Handed'
<1> SUFFICES ASSUME TypeOK, Order, Handed, Ended, [Next]_vars PROVE Handed'  OBVIOUS
<1> USE DEF Handed, BobPast, Goto, Send, Save, wire, chain, loop
<1>1. ASSUME NEW p \in Party, Both(p) PROVE Handed'
  <2>1. CASE Share(p)  BY <2>1 DEF Share, TypeOK
  <2>2. CASE Finish(p)
    <3>1. CASE pc[p] = "presign"
      BY <2>2, <3>1 DEF Finish, After, TypeOK
    <3>2. CASE pc[p] # "presign"
      <4>1. After(p, pc[p]) \in {"fund", "link", "post", "rung", "presign"}
        BY <2>2, <3>2 DEF Finish, After, Ceremony
      <4> QED  BY <2>2, <3>2, <4>1 DEF Finish, TypeOK, Ceremony
    <3> QED  BY <3>1, <3>2
  <2>3. CASE WireError(p)  BY <2>3 DEF WireError, TypeOK, Ceremony
  <2>4. CASE Clear(p)  BY <2>4 DEF Clear, TypeOK, Ended
  <2> QED  BY <1>1, <2>1, <2>2, <2>3, <2>4 DEF Both
<1>2. ASSUME NEW p \in Party, Down(p) PROVE Handed'
  BY <1>2 DEF Down, Exposed, TypeOK
<1>3. CASE Alice
  <2>1. CASE SaveA  BY <2>1 DEF SaveA, SaveOrWarn, TypeOK
  <2>2. CASE Fund \/ Height \/ ClaimSeen \/ ResumeAlice
    BY <2>2 DEF Fund, Height, ClaimSeen, ResumeAlice, TypeOK
  <2>3. CASE PostOpen  BY <2>3 DEF PostOpen, TypeOK
  <2>4. CASE Sweep  BY <2>4 DEF Sweep, TypeOK
  <2> QED  BY <1>3, <2>1, <2>2, <2>3, <2>4 DEF Alice
<1>4. CASE Bob
  <2>1. CASE Link \/ LockXmr \/ LockMatured
    <3>1. UNCHANGED <<cp, sent, revealed>> /\ pc'["A"] = pc["A"]
      BY <2>1 DEF Link, LockXmr, LockMatured, TypeOK
    <3>2. pc["B"] \in {"link", "lock", "mature"} /\ pc'["B"] \in {"lock", "mature", "open"}
      BY <2>1 DEF Link, LockXmr, LockMatured, TypeOK
    <3>3. lock = "swept" => lock' = "swept"  BY <2>1 DEF Link, LockXmr, LockMatured, Order
    <3> QED  BY <3>1, <3>2, <3>3
  <2>5. CASE SendHeight  BY <2>5 DEF SendHeight, TypeOK
  <2>2. CASE SaveB  BY <2>2 DEF SaveB, SaveOrWarn, TypeOK
  <2>3. CASE SubmitRung \/ RungSent \/ RungConfirmed
    BY <2>3 DEF SubmitRung, RungSent, RungConfirmed, TypeOK
  <2>4. CASE SubmitClaim \/ ClaimSent \/ ResumeBob
    BY <2>4 DEF SubmitClaim, ClaimSent, ResumeBob, TypeOK
  <2> QED  BY <1>4, <2>1, <2>2, <2>3, <2>4, <2>5 DEF Bob
<1>5. CASE Network  BY <1>5 DEF Network, Mature, Gossip, Cement
<1>6. CASE UNCHANGED vars  BY <1>6 DEF vars
<1> QED  BY <1>1, <1>2, <1>3, <1>4, <1>5, <1>6 DEF Next

LEMMA EndedStep == TypeOK /\ Order /\ Ended /\ [Next]_vars => Ended'
<1> SUFFICES ASSUME TypeOK, Order, Ended, [Next]_vars PROVE Ended'  OBVIOUS
<1> USE DEF Ended, Goto, Send, Save, wire, chain, loop
<1>1. ASSUME NEW p \in Party, Both(p) PROVE Ended'
  <2>0. Claimed' <=> Claimed  BY <1>1 DEF Both, Share, Finish, WireError, Clear, Claimed
  <2>1. CASE Finish(p)
    <3>1. After(p, pc[p]) \notin {"clear", "done", "claim"}  BY <2>1 DEF Finish, After, Ceremony
    <3> QED  BY <2>0, <2>1, <3>1 DEF Finish, TypeOK
  <2>2. CASE Share(p) \/ WireError(p) \/ Clear(p)
    BY <2>0, <2>2 DEF Share, WireError, Clear, TypeOK
  <2> QED  BY <1>1, <2>1, <2>2 DEF Both
<1>2. ASSUME NEW p \in Party, Down(p) PROVE Ended'
  <2>1. Claimed' <=> Claimed  BY <1>2 DEF Down, Claimed
  <2> QED  BY <1>2, <2>1 DEF Down, TypeOK
<1>3. CASE Alice
  <2>1. Claimed => Claimed'
    <3>1. CASE PostOpen  BY <3>1 DEF PostOpen, Claimed, TypeOK
    <3>2. CASE ~PostOpen
      BY <1>3, <3>2 DEF Alice, Fund, SaveA, Height, ClaimSeen, Sweep, ResumeAlice, Claimed
    <3> QED  BY <3>1, <3>2
  <2>2. CASE Sweep  BY <2>1, <2>2 DEF Sweep, TypeOK
  <2>3. CASE Fund \/ PostOpen \/ SaveA \/ Height \/ ClaimSeen \/ ResumeAlice
    BY <2>1, <2>3 DEF Fund, PostOpen, SaveA, Height, ClaimSeen, ResumeAlice, TypeOK
  <2> QED  BY <1>3, <2>2, <2>3 DEF Alice
<1>4. CASE Bob
  <2>1. CASE SubmitClaim
    <3>1. PICK n \in todo :
             \/ head[n] = Rung /\ head' = [head EXCEPT ![n] = Claim]
             \/ UNCHANGED <<head, accepted>>
      BY <2>1 DEF SubmitClaim
    <3>2. CASE head' = [head EXCEPT ![n] = Claim]
      <4>1. Claimed'  BY <3>2 DEF Claimed, TypeOK
      <4> QED  BY <2>1, <4>1 DEF SubmitClaim
    <3>3. CASE UNCHANGED <<head, accepted>>
      BY <2>1, <3>3 DEF SubmitClaim, Claimed
    <3> QED  BY <3>1, <3>2, <3>3
  <2>2. CASE SubmitRung
    <3>1. Claimed' <=> Claimed  BY <2>2 DEF SubmitRung, Claimed, TypeOK
    <3> QED  BY <2>2, <3>1 DEF SubmitRung
  <2>3. CASE Link \/ LockXmr \/ LockMatured \/ SendHeight \/ SaveB
    <3>1. UNCHANGED head /\ pc'["A"] = pc["A"]
      BY <2>3 DEF Link, LockXmr, LockMatured, SendHeight, SaveB, TypeOK
    <3>2. pc'["B"] \in {"lock", "mature", "open", "save", "settle"}
      BY <2>3 DEF Link, LockXmr, LockMatured, SendHeight, SaveB, TypeOK
    <3>3. lock = "swept" => lock' = "swept"
      BY <2>3 DEF Link, LockXmr, LockMatured, SendHeight, SaveB, Order
    <3> QED  BY <3>1, <3>2, <3>3 DEF Claimed
  <2>4. CASE RungSent \/ RungConfirmed \/ ClaimSent \/ ResumeBob
    BY <2>4 DEF RungSent, RungConfirmed, Begin, ClaimSent, ResumeBob, Claimed, TypeOK
  <2> QED  BY <1>4, <2>1, <2>2, <2>3, <2>4 DEF Bob
<1>5. CASE Network
  <2>1. CASE Gossip
    <3>1. Claimed' <=> Claimed  BY <2>1, GossipKeepsClaim
    <3> QED  BY <2>1, <3>1 DEF Gossip
  <2>2. CASE Mature \/ Cement  BY <2>2 DEF Mature, Cement, Claimed
  <2> QED  BY <1>5, <2>1, <2>2 DEF Network
<1>6. CASE UNCHANGED vars  BY <1>6 DEF vars, Claimed
<1> QED  BY <1>1, <1>2, <1>3, <1>4, <1>5, <1>6 DEF Next

LEMMA Inductive == Spec => []IInv
<1>1. Init => IInv  BY InitInv
<1>2. IInv /\ [Next]_vars => IInv'
  BY TypeStep, OrderStep, GateStep, HandedStep, EndedStep DEF IInv
<1> QED  BY <1>1, <1>2, PTL DEF Spec

\* Every variable has its type in every reachable state of the two sessions.
THEOREM TypeCorrect == Spec => []TypeOK
<1>1. IInv => TypeOK  BY DEF IInv
<1> QED  BY <1>1, Inductive, PTL

\* broadcast_and_confirm before broadcast_secret_claim, with a quorum larger
\* than the number of nodes that misreport: x is out only over a cemented rung.
THEOREM RevealsCemented == Spec => []RevealCemented
<1>1. IInv => RevealCemented  BY DEF IInv, Gate, RevealCemented
<1> QED  BY <1>1, Inductive, PTL

\* run_alice's checkpoint before its wait, run_bob's settle after both shares:
\* x is out only while Alice holds, has saved, or visibly missed to save, the
\* pre-signature that extracts it.
THEOREM StaysExtractable == Spec => []Extractable
<1>1. IInv => Extractable  BY DEF IInv, Handed, BobPast, Extractable
<1> QED  BY <1>1, Inductive, PTL

\* Neither process ends cleanly, deleting its checkpoint, before its leg is in.
THEOREM CheckpointsKept == Spec => []CheckpointKept
<1>1. IInv => CheckpointKept  BY DEF IInv, Ended, CheckpointKept, Claimed
<1> QED  BY <1>1, Inductive, PTL

-----------------------------------------------------------------------------
(* Every step of the two sessions is a step of the abstract swap or a      *)
(* stutter.                                                                *)

\* The steps that touch no leg.
LEMMA LegsStill ==
  ASSUME UNCHANGED lock, Claimed' <=> Claimed, "link" \in sent'["A"] <=> "link" \in sent["A"]
  PROVE  UNCHANGED <<XnoLeg, XmrLeg>>
  BY DEF XnoLeg, XmrLeg

LEMMA SwapStepAlice ==
  ASSUME IInv, Alice
  PROVE  [Swap!Next]_<<XnoLeg, XmrLeg>>
<1> USE DEF IInv, TypeOK, Order, Goto, Send, Save, wire, chain, loop
<1>1. CASE Fund
  <2>1. (Claimed' <=> Claimed) /\ UNCHANGED lock  BY <1>1 DEF Fund, Claimed
  <2>2. "link" \in sent'["A"]  BY <1>1 DEF Fund
  <2> QED  BY <2>1, <2>2 DEF Swap!Next, Swap!FundXno, XnoLeg, XmrLeg
<1>2. CASE Sweep
  <2>1. (Claimed' <=> Claimed) /\ UNCHANGED sent /\ Claimed  BY <1>2 DEF Sweep, Claimed
  <2>2. CASE lock = "mature" /\ lock' = "swept"
    BY <2>1, <2>2 DEF Swap!Next, Swap!Sweep, XnoLeg, XmrLeg
  <2>3. CASE UNCHANGED lock  BY <2>1, <2>3 DEF XnoLeg, XmrLeg
  <2> QED  BY <1>2, <2>2, <2>3 DEF Sweep
<1>3. CASE PostOpen \/ SaveA \/ Height \/ ClaimSeen \/ ResumeAlice
  <2>1. /\ Claimed' <=> Claimed
        /\ UNCHANGED <<lock, sent>>
    BY <1>3 DEF PostOpen, SaveA, Height, ClaimSeen, ResumeAlice, Claimed
  <2> QED  BY <2>1, LegsStill
<1> QED  BY <1>1, <1>2, <1>3 DEF Alice

LEMMA SwapStepBob ==
  ASSUME IInv, Bob
  PROVE  [Swap!Next]_<<XnoLeg, XmrLeg>>
<1> USE DEF IInv, TypeOK, Order, BobLocked, Goto, Send, Save, wire, chain, loop
<1>1. CASE LockXmr
  <2>1. (Claimed' <=> Claimed) /\ UNCHANGED sent  BY <1>1 DEF LockXmr, Claimed
  <2>2. lock = "none" /\ lock' = "shallow" /\ "link" \in sent["A"]  BY <1>1 DEF LockXmr
  <2> QED  BY <2>1, <2>2 DEF Swap!Next, Swap!LockXmr, XnoLeg, XmrLeg
<1>2. CASE SubmitClaim
  <2>1. UNCHANGED <<lock, sent>>  BY <1>2 DEF SubmitClaim
  <2>2. lock # "none" /\ "link" \in sent["A"]  BY <1>2 DEF SubmitClaim
  <2>3. Claimed => Claimed'  BY <1>2 DEF SubmitClaim, Claimed
  <2>4. CASE Claimed  BY <2>1, <2>3, <2>4 DEF XnoLeg, XmrLeg
  <2>5. CASE ~Claimed
    <3>1. lock # "swept"  BY <2>5
    <3> QED  BY <2>1, <2>2, <2>5, <3>1 DEF Swap!Next, Swap!Claim, XnoLeg, XmrLeg
  <2> QED  BY <2>4, <2>5
<1>3. CASE SendHeight
  <2>1. (Claimed' <=> Claimed) /\ UNCHANGED lock  BY <1>3 DEF SendHeight, Claimed
  <2>2. sent'["A"] = sent["A"]  BY <1>3 DEF SendHeight
  <2> QED  BY <2>1, <2>2, LegsStill
<1>4. CASE SubmitRung
  <2>1. (Claimed' <=> Claimed) /\ UNCHANGED <<lock, sent>>  BY <1>4 DEF SubmitRung, Claimed
  <2> QED  BY <2>1, LegsStill
<1>5. CASE Link \/ LockMatured \/ SaveB \/ RungSent \/ RungConfirmed \/ ClaimSent \/ ResumeBob
  <2>1. (Claimed' <=> Claimed) /\ UNCHANGED <<lock, sent>>
    BY <1>5 DEF Link, LockMatured, SaveB, RungSent, RungConfirmed, ClaimSent, ResumeBob, Claimed
  <2> QED  BY <2>1, LegsStill
<1> QED  BY <1>1, <1>2, <1>3, <1>4, <1>5 DEF Bob

LEMMA SwapStepRest ==
  ASSUME IInv, Network \/ \E p \in Party : Both(p) \/ Down(p)
  PROVE  UNCHANGED <<XnoLeg, XmrLeg>>
<1> USE DEF IInv, TypeOK, Goto, Send, Save, wire, chain, loop
<1>1. CASE Mature
  <2>1. lock = "shallow" /\ lock' = "mature" /\ UNCHANGED sent /\ (Claimed' <=> Claimed)
    BY <1>1 DEF Mature, Claimed
  <2> QED  BY <2>1 DEF XnoLeg, XmrLeg
<1>2. CASE Gossip
  <2>1. Claimed' <=> Claimed  BY <1>2, GossipKeepsClaim
  <2> QED  BY <1>2, <2>1, LegsStill DEF Gossip
<1>3. CASE Cement
  <2>1. Claimed' <=> Claimed  BY <1>3 DEF Cement, Claimed
  <2> QED  BY <1>3, <2>1, LegsStill DEF Cement
<1>4. ASSUME NEW p \in Party, Both(p) \/ Down(p) PROVE UNCHANGED <<XnoLeg, XmrLeg>>
  <2>1. (Claimed' <=> Claimed) /\ UNCHANGED lock
    BY <1>4 DEF Both, Share, Finish, WireError, Clear, Down, Claimed
  <2>2. "link" \in sent'["A"] <=> "link" \in sent["A"]
    BY <1>4 DEF Both, Share, Finish, WireError, Clear, Down, Ceremony
  <2> QED  BY <2>1, <2>2, LegsStill
<1> QED  BY <1>1, <1>2, <1>3, <1>4 DEF Network

LEMMA SwapStep == IInv /\ [Next]_vars => [Swap!Next]_Swap!vars
<1> SUFFICES ASSUME IInv, [Next]_vars PROVE [Swap!Next]_<<XnoLeg, XmrLeg>>
  BY DEF Swap!vars
<1>1. CASE Alice  BY <1>1, SwapStepAlice
<1>2. CASE Bob  BY <1>2, SwapStepBob
<1>3. CASE Network \/ \E p \in Party : Both(p) \/ Down(p)  BY <1>3, SwapStepRest
<1>4. CASE UNCHANGED vars
  <2>1. (Claimed' <=> Claimed) /\ UNCHANGED <<lock, sent>>  BY <1>4 DEF vars, wire, chain, Claimed
  <2> QED  BY <2>1, LegsStill
<1> QED  BY <1>1, <1>2, <1>3, <1>4 DEF Next

LEMMA SwapInit == Init => Swap!Init
<1> SUFFICES ASSUME Init PROVE Swap!Init  OBVIOUS
<1>1. ~Claimed  BY DEF Init, Claimed
<1>2. "link" \notin sent["A"] /\ lock = "none"  BY DEF Init
<1> QED  BY <1>1, <1>2 DEF Swap!Init, XnoLeg, XmrLeg

\* run_alice and run_bob implement the abstract swap: Bob locks only over the
\* funding, claims over a standing lock, and Alice sweeps only after his claim.
THEOREM SettlementAtomic == Spec => Implements
<1> QED  BY Inductive, SwapInit, SwapStep, PTL DEF Implements, Swap!Spec, Spec
=============================================================================
