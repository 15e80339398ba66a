----------------------------- MODULE Settlement -----------------------------
(***************************************************************************)
(* swap-executor's settlement of one chunk: run_alice and run_bob over a   *)
(* wire (session.rs), bob_settle_chunk and alice_settle_chunk (driver.rs), *)
(* the guarded broadcasts of nano-ceremony (broadcast.rs) and the resumes  *)
(* from a checkpoint (checkpoint.rs).  The joint account's chain is open,  *)
(* guard rung, claim; each node holds a prefix of it.  A process that      *)
(* returned an error or died is "down"; what survives is its checkpoint.   *)
(***************************************************************************)
EXTENDS Integers, FiniteSets

CONSTANTS
  Nodes,     \* the Nano nodes both sides were given
  Liars,     \* nodes that report confirmations as they like
  Quorum,    \* bob's confirmation quorum
  MaxFaults  \* bound on crashes, timeouts, unreachable nodes and failed writes

ASSUME NodesAssumption ==
  /\ IsFiniteSet(Nodes) /\ Liars \subseteq Nodes
  /\ Quorum \in Nat /\ Quorum >= 2 /\ Quorum <= Cardinality(Nodes)
  /\ Cardinality(Liars) < Quorum
  /\ MaxFaults \in Nat

VARIABLES
  pc,        \* per party: the next step of its process
  cp,        \* per party: its checkpoint file, "none" or "kept"; "missed" is a
             \* "none" that remembers a failed write or a crash just before it
  sent,      \* per party: the frames it has put on the wire
  lock,      \* the Monero lock
  head,      \* per node: its frontier of the joint account
  cemented,  \* the frontier the network has confirmed
  todo, accepted,   \* bob's broadcast loop: nodes left, nodes that accepted
  revealed,  \* the completed claim, and x with it, reached a node
  faults

wire == <<cp, sent>>
chain == <<head, cemented>>
loop == <<todo, accepted>>
vars == <<pc, wire, lock, chain, loop, revealed, faults>>

Party == {"A", "B"}
Peer(p) == IF p = "A" THEN "B" ELSE "A"
None == 0
Open == 1
Rung == 2
Claim == 3
Frontier == None..Claim

Ceremony == {"setup", "open", "rung", "presign"}
PcA == Ceremony \cup {"fund", "post", "save", "height", "wait", "sweep", "clear",
                      "done", "down"}
PcB == Ceremony \cup {"link", "lock", "mature", "height", "save", "settle",
                      "confirm", "claim", "clear", "done", "down"}

Init ==
  /\ pc = [p \in Party |-> "setup"] /\ cp = [p \in Party |-> "none"]
  /\ sent = [p \in Party |-> {}]
  /\ lock = "none" /\ head = [n \in Nodes |-> None] /\ cemented = None
  /\ todo = {} /\ accepted = {} /\ revealed = FALSE /\ faults = 0

Goto(p, l) == pc' = [pc EXCEPT ![p] = l]
Send(p, f) == sent' = [sent EXCEPT ![p] = @ \cup {f}]
Save(p, c) == cp' = [cp EXCEPT ![p] = c]
Fault == faults < MaxFaults /\ faults' = faults + 1

-----------------------------------------------------------------------------
(* The wire: one ceremony is a round of commitments and a round of shares. *)

\* Mutant of After: both parties go on to post the open block.
AfterBothPost(p, c) ==
  CASE c = "setup"   -> IF p = "A" THEN "fund" ELSE "link"
    [] c = "open"    -> "post"
    [] c = "rung"    -> "presign"
    [] c = "presign" -> IF p = "A" THEN "save" ELSE "height"

After(p, c) ==
  CASE c = "setup"   -> IF p = "A" THEN "fund" ELSE "link"
    [] c = "open"    -> IF p = "A" THEN "post" ELSE "rung"
    [] c = "rung"    -> "presign"
    [] c = "presign" -> IF p = "A" THEN "save" ELSE "height"

\* Its own share leaves once the peer's commitments are here; a peer that is
\* down may have sent them first.
Share(p) ==
  /\ pc[p] \in Ceremony /\ pc[p] \notin sent[p]
  /\ pc[Peer(p)] \in {pc[p], "down"} \/ pc[p] \in sent[Peer(p)]
  /\ Send(p, pc[p])
  /\ UNCHANGED <<pc, cp, lock, chain, loop, revealed, faults>>

Finish(p) ==
  /\ pc[p] \in Ceremony /\ pc[p] \in sent[p] /\ pc[p] \in sent[Peer(p)]
  /\ Goto(p, After(p, pc[p]))
  /\ UNCHANGED <<wire, lock, chain, loop, revealed, faults>>

\* A frame that will not come: the session returns WireError.
WireError(p) ==
  /\ \/ pc[p] \in Ceremony /\ pc[p] \notin sent[Peer(p)]
     \/ p = "B" /\ pc[p] = "link" /\ "link" \notin sent["A"]
  /\ pc[Peer(p)] = "down"
  /\ Goto(p, "down")
  /\ UNCHANGED <<wire, lock, chain, loop, revealed, faults>>

-----------------------------------------------------------------------------
(* run_alice *)

Fund ==
  /\ pc["A"] = "fund" /\ Send("A", "link") /\ Goto("A", "open")
  /\ UNCHANGED <<cp, lock, chain, loop, revealed, faults>>

\* saturation_broadcast of the open block: any acceptance will do.
PostOpen ==
  /\ pc["A"] = "post"
  /\ \E R \in SUBSET Nodes :
       /\ IF R = Nodes THEN UNCHANGED faults ELSE Fault
       /\ head' = [n \in Nodes |-> IF n \in R /\ head[n] = None THEN Open ELSE head[n]]
       /\ Goto("A", IF \E n \in R : head[n] = None THEN "rung" ELSE "down")
  /\ UNCHANGED <<wire, lock, cemented, loop, revealed>>

\* Mutant of SaveA: the checkpoint waits for the lock's height.
SaveALate ==
  /\ pc["A"] = "save" /\ "height" \in sent["B"]
  /\ Goto("A", "height") /\ UNCHANGED cp
  /\ UNCHANGED <<sent, lock, chain, loop, revealed, faults>>

\* The file is written, or only a warning is shown.
SaveOrWarn(p) ==
  \/ Save(p, "kept") /\ UNCHANGED faults
  \/ Save(p, "missed") /\ Fault

SaveA ==
  /\ pc["A"] = "save" /\ SaveOrWarn("A") /\ Goto("A", "height")
  /\ UNCHANGED <<sent, lock, chain, loop, revealed>>

\* The lock's height, or whatever came instead of it: not an error.
Height ==
  /\ pc["A"] = "height" /\ ("height" \in sent["B"] \/ pc["B"] = "down")
  /\ Goto("A", "wait")
  /\ UNCHANGED <<wire, lock, chain, loop, revealed, faults>>

\* wait_for_claim
ClaimSeen ==
  /\ pc["A"] = "wait" /\ \E n \in Nodes : head[n] = Claim
  /\ Goto("A", "sweep")
  /\ UNCHANGED <<wire, lock, chain, loop, revealed, faults>>

\* alice_settle_chunk: the sweep of an empty joint output is an error.
Sweep ==
  /\ pc["A"] = "sweep"
  /\ \/ lock = "mature" /\ lock' = "swept" /\ Goto("A", "clear")
     \/ lock # "mature" /\ UNCHANGED lock /\ Goto("A", "down")
  /\ UNCHANGED <<wire, chain, loop, revealed, faults>>

\* The checkpoint is deleted on a clean finish.
Clear(p) ==
  /\ pc[p] = "clear" /\ Save(p, "none") /\ Goto(p, "done")
  /\ UNCHANGED <<sent, lock, chain, loop, revealed, faults>>

-----------------------------------------------------------------------------
(* run_bob *)

\* Mutant of Link: the lock does not wait for the funding hash.
LinkEarly ==
  /\ pc["B"] = "link" /\ Goto("B", "lock")
  /\ UNCHANGED <<wire, lock, chain, loop, revealed, faults>>

Link ==
  /\ pc["B"] = "link" /\ "link" \in sent["A"] /\ Goto("B", "lock")
  /\ UNCHANGED <<wire, lock, chain, loop, revealed, faults>>

LockXmr ==
  /\ pc["B"] = "lock" /\ lock' = "shallow" /\ Goto("B", "mature")
  /\ UNCHANGED <<wire, chain, loop, revealed, faults>>

LockMatured ==
  /\ pc["B"] = "mature" /\ lock = "mature" /\ Goto("B", "open")
  /\ UNCHANGED <<wire, lock, chain, loop, revealed, faults>>

SendHeight ==
  /\ pc["B"] = "height" /\ Send("B", "height") /\ Goto("B", "save")
  /\ UNCHANGED <<cp, lock, chain, loop, revealed, faults>>

Begin == todo' = Nodes /\ accepted' = {}

SaveB ==
  /\ pc["B"] = "save" /\ SaveOrWarn("B") /\ Goto("B", "settle") /\ Begin
  /\ UNCHANGED <<sent, lock, chain, revealed>>

\* broadcast_and_confirm, one node of the fan-out: a node accepts a block on
\* top of its own frontier; it refuses one it is not ready for or already has.
SubmitRung ==
  /\ pc["B"] = "settle"
  /\ \E n \in todo :
       /\ todo' = todo \ {n}
       /\ \/ /\ head[n] = Open /\ head' = [head EXCEPT ![n] = Rung]
             /\ accepted' = accepted \cup {n} /\ UNCHANGED faults
          \/ head[n] # Open /\ UNCHANGED <<head, accepted, faults>>
          \/ Fault /\ UNCHANGED <<head, accepted>>          \* unreachable
  /\ UNCHANGED <<pc, wire, lock, cemented, revealed>>

RungSent ==
  /\ pc["B"] = "settle" /\ todo = {}
  /\ Goto("B", IF Cardinality(accepted) >= Quorum THEN "confirm" ELSE "down")
  /\ UNCHANGED <<wire, lock, chain, loop, revealed, faults>>

ReportsRung(n) == n \in Liars \/ (cemented >= Rung /\ head[n] >= Rung)

\* Mutant of RungConfirmed: the old floor, one reporting node.
RungConfirmedByOne ==
  /\ pc["B"] = "confirm" /\ \E n \in accepted : ReportsRung(n)
  /\ Goto("B", "claim") /\ Begin
  /\ UNCHANGED <<wire, lock, chain, revealed, faults>>

\* Only nodes that accepted the rung are polled for its confirmation.
RungConfirmed ==
  /\ pc["B"] = "confirm"
  /\ \E C \in SUBSET accepted :
       Cardinality(C) >= Quorum /\ \A n \in C : ReportsRung(n)
  /\ Goto("B", "claim") /\ Begin
  /\ UNCHANGED <<wire, lock, chain, revealed, faults>>

\* broadcast_secret_claim, one node: withheld unless its frontier is the rung.
SubmitClaim ==
  /\ pc["B"] = "claim"
  /\ \E n \in todo :
       /\ todo' = todo \ {n}
       /\ \/ /\ head[n] = Rung /\ head' = [head EXCEPT ![n] = Claim]
             /\ accepted' = accepted \cup {n} /\ revealed' = TRUE /\ UNCHANGED faults
          \/ head[n] # Rung /\ UNCHANGED <<head, accepted, revealed, faults>>
          \/ Fault /\ UNCHANGED <<head, accepted, revealed>>
  /\ UNCHANGED <<pc, wire, lock, cemented>>

\* Mutant of ClaimSent: what the nodes answered is not looked at.
ClaimSentAnyway ==
  /\ pc["B"] = "claim" /\ todo = {} /\ Goto("B", "clear")
  /\ UNCHANGED <<wire, lock, chain, loop, revealed, faults>>

\* any_accepted
ClaimSent ==
  /\ pc["B"] = "claim" /\ todo = {}
  /\ Goto("B", IF accepted # {} THEN "clear" ELSE "down")
  /\ UNCHANGED <<wire, lock, chain, loop, revealed, faults>>

-----------------------------------------------------------------------------
(* Faults, resumes, networks *)

\* A's share of the claim pre-signature is out and nothing is saved.
Exposed(p) == p = "A" /\ "presign" \in sent["A"] /\ pc["A"] \in {"presign", "save"}

\* The process dies, or a bounded wait or a call of its step fails.
Down(p) ==
  /\ pc[p] \notin {"done", "down"} /\ Fault /\ Goto(p, "down")
  /\ IF Exposed(p) THEN Save(p, "missed") ELSE UNCHANGED cp
  /\ UNCHANGED <<sent, lock, chain, loop, revealed>>

ResumeAlice ==
  /\ pc["A"] = "down" /\ cp["A"] = "kept" /\ Goto("A", "wait")
  /\ UNCHANGED <<wire, lock, chain, loop, revealed, faults>>

\* Mutant of ResumeBob: it does not look for its claim on the chain.
ResumeBobBlind ==
  /\ pc["B"] = "down" /\ cp["B"] = "kept" /\ Goto("B", "settle") /\ Begin
  /\ UNCHANGED <<wire, lock, chain, revealed, faults>>

\* A claim on some node is a finished settlement; otherwise settle again.
ResumeBob ==
  /\ pc["B"] = "down" /\ cp["B"] = "kept"
  /\ \/ /\ \E n \in Nodes : head[n] = Claim
        /\ Goto("B", "clear") /\ UNCHANGED loop
     \/ /\ \A n \in Nodes : head[n] # Claim
        /\ Goto("B", "settle") /\ Begin
  /\ UNCHANGED <<wire, lock, chain, revealed, faults>>

Mature ==
  /\ lock = "shallow" /\ lock' = "mature"
  /\ UNCHANGED <<pc, wire, chain, loop, revealed, faults>>

\* Nodes pass the chain on to each other and vote.
Gossip ==
  /\ \E m, n \in Nodes :
       head[n] < head[m] /\ head' = [head EXCEPT ![n] = @ + 1]
  /\ UNCHANGED <<pc, wire, lock, cemented, loop, revealed, faults>>

Cement ==
  /\ \E n \in Nodes \ Liars : head[n] > cemented
  /\ cemented' = cemented + 1
  /\ UNCHANGED <<pc, wire, lock, head, loop, revealed, faults>>

Alice == Fund \/ PostOpen \/ SaveA \/ Height \/ ClaimSeen \/ Sweep \/ ResumeAlice
Bob == \/ Link \/ LockXmr \/ LockMatured \/ SendHeight \/ SaveB
       \/ SubmitRung \/ RungSent \/ RungConfirmed \/ SubmitClaim \/ ClaimSent
       \/ ResumeBob
Both(p) == Share(p) \/ Finish(p) \/ WireError(p) \/ Clear(p)
Network == Mature \/ Gossip \/ Cement

Next == Alice \/ Bob \/ Network \/ \E p \in Party : Both(p) \/ Down(p)

Spec == Init /\ [][Next]_vars

\* Both processes run and are resumed after they went down; both chains work.
FairSpec ==
  /\ Spec /\ WF_vars(Alice \/ Both("A")) /\ WF_vars(Bob \/ Both("B"))
  /\ WF_vars(Mature) /\ WF_vars(Gossip) /\ WF_vars(Cement)

-----------------------------------------------------------------------------
(* Properties *)

TypeOK ==
  /\ pc \in [Party -> PcA \cup PcB] /\ pc["A"] \in PcA /\ pc["B"] \in PcB
  /\ cp \in [Party -> {"none", "kept", "missed"}]
  /\ sent \in [Party -> SUBSET (Ceremony \cup {"link", "height"})]
  /\ lock \in {"none", "shallow", "mature", "swept"}
  /\ head \in [Nodes -> Frontier] /\ cemented \in Frontier
  /\ todo \subseteq Nodes /\ accepted \subseteq Nodes
  /\ revealed \in BOOLEAN /\ faults \in 0..MaxFaults

\* The two legs of the abstract swap.
Claimed == \E n \in Nodes : head[n] = Claim
XnoLeg == IF Claimed THEN "claimed"
          ELSE IF "link" \in sent["A"] THEN "joint" ELSE "home"
XmrLeg == IF lock = "none" THEN "home"
          ELSE IF lock = "swept" THEN "swept" ELSE "joint"

Swap == INSTANCE AtomicSwap WITH xno <- XnoLeg, xmr <- XmrLeg

\* Every step of the two sessions is a step of the abstract swap: Bob locks
\* only after the funding, claims over a standing lock, and Alice sweeps only
\* after his claim.
Implements == Swap!Spec

\* bob_settle_chunk: "the swap secret x is released ONLY after the guard rung
\* is cemented", whatever fewer than quorum nodes report.
RevealCemented == revealed => cemented >= Rung

\* Once x is out, Alice's pre-signature, which extracts it, is not lost, except
\* by a crash between her last share and the checkpoint or by its failed write.
Extractable ==
  revealed => \/ lock = "swept" \/ cp["A"] \in {"kept", "missed"}
              \/ pc["A"] \in {"presign", "save"}

\* A process ends cleanly, and deletes its checkpoint, only when its leg is in.
CheckpointKept ==
  /\ pc["A"] = "done" => lock = "swept"
  /\ pc["B"] = "done" => \E n \in Nodes : head[n] = Claim

\* checkpoint.rs: "Resume = the normal confirm-then-reveal settle": while his
\* claim is not out, enough nodes for the quorum would take Bob's rung.
Resumable ==
  /\ pc["B"] = "down" /\ cp["B"] = "kept" /\ \A n \in Nodes : head[n] # Claim
  => Cardinality({n \in Nodes : head[n] <= Open}) >= Quorum

\* checkpoint.rs: "NEITHER side needs the other online again": once both
\* checkpoints are written, both legs settle, unless Bob's rung is refused.
Settles ==
  []Resumable =>
    (cp["A"] = "kept" /\ cp["B"] = "kept" ~> lock = "swept" /\ pc["B"] = "done")
=============================================================================
