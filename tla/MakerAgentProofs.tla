-------------------------- MODULE MakerAgentProofs --------------------------
(***************************************************************************)
(* The unattended maker, for any takers, processes, prices and ways to run *)
(* it, and any number of deaths, commands and failing calls: a take the    *)
(* agent saw is answered before its block is pulled, unless answering it   *)
(* threw (NoOrphan, with every window open); the coins of a deal leave     *)
(* once (StakedOnce, with every window but "torn"); coins that are out     *)
(* are in a session file auto-resume still looks at (SessionKept, with no  *)
(* window open but "relay": each of the others breaks it).                 *)
(*                                                                         *)
(* The first rests on what each tick has read and still has to answer      *)
(* (TickInv); the second on a taker's one request and its box's first      *)
(* reply (Boxed, Sent, Spent); the third on who may act at all (Alone,     *)
(* Flagged) and what ties a run to its session file (Held, Live).          *)
(***************************************************************************)
EXTENDS MakerAgent, FiniteSetTheorems, WellFoundedInduction, TLAPS

\* What is assumed of the constants, but for the names of the windows.
LEMMA Constants ==
  /\ Watcher \in Procs /\ "nobody" \notin Procs
  /\ Small \subseteq Takers /\ NoTaker \notin Takers
  /\ MaxEvents \in Nat
  /\ Makers \subseteq [watch : BOOLEAN, isA : BOOLEAN]
  BY MakerAgentAssumption

USE Constants, RendezvousAssumption DEF NoBlock

-----------------------------------------------------------------------------
(* The rendezvous.                                                         *)

\* A non-empty set of naturals has a least element, and Min is it.
LEMMA MinIn ==
  ASSUME NEW S \in SUBSET Nat, S # {}
  PROVE  Min(S) \in S
  <1>1. PICK m \in S : \A k \in S : ~ (<<k, m>> \in OpToRel(<, Nat))
    BY NatLessThanWellFounded, WFMin
  <1>2. \A k \in S : ~ (k < m)
    BY <1>1 DEF OpToRel
  <1>3. \A k \in S : m =< k
    BY <1>2
  <1> QED BY <1>3 DEF Min

FiniteReq == \A b \in Blocks, s \in SlotIds : IsFiniteSet(req[b][s])

\* A valid slot names its taker.
LEMMA ValidTaker ==
  ASSUME RvTypeOK, FiniteReq, NEW b \in Blocks, NEW s \in SlotIds, Valid(b, s)
  PROVE  TakerAt(b, s) \in Takers
  <1>1. PICK t : req[b][s] = {t}
    BY FS_Singleton DEF Valid, FiniteReq
  <1>2. t \in Takers
    BY <1>1 DEF RvTypeOK
  <1> QED BY <1>1, <1>2 DEF TakerAt

\* A reply once written is there for good.
Grown == /\ resp' \in [Blocks -> [SlotIds -> Replies]]
         /\ \A b \in Blocks, s \in SlotIds : resp[b][s] # "none" => resp'[b][s] # "none"

LEMMA Replied ==
  ASSUME RvTypeOK, NEW b, NEW answers, resp' = ReplyTo(b, answers),
         \A s \in DOMAIN answers : answers[s] \in {"accept", "decline"}
  PROVE  /\ Grown
         /\ b \in Blocks => \A s \in DOMAIN answers \cap SlotIds : resp'[b][s] # "none"
  <1> DEFINE box == [s \in SlotIds |->
        IF s \notin DOMAIN answers THEN resp[b][s]
        ELSE IF resp[b][s] = "none" THEN answers[s] ELSE "blend"]
  <1>1. resp' = [resp EXCEPT ![b] = box]
    BY DEF ReplyTo
  <1>2. b \in Blocks => box \in [SlotIds -> Replies]
    BY DEF RvTypeOK, Replies
  <1>3. \A s \in SlotIds : b \in Blocks =>
          /\ resp[b][s] # "none" => box[s] # "none"
          /\ s \in DOMAIN answers => box[s] # "none"
    BY DEF RvTypeOK
  <1> HIDE DEF box
  <1>4. resp \in [Blocks -> [SlotIds -> Replies]]
    BY DEF RvTypeOK
  <1>5. resp' \in [Blocks -> [SlotIds -> Replies]]
    <2>1. CASE b \in Blocks
      <3>1. box \in [SlotIds -> Replies]
        BY <1>2, <2>1
      <3> QED BY <1>1, <1>4, <3>1
    <2>2. CASE b \notin Blocks
      BY <1>1, <1>4, <2>2
    <2> QED BY <2>1, <2>2
  <1>6. \A c \in Blocks : resp'[c] = IF c = b THEN box ELSE resp[c]
    BY <1>1, <1>4
  <1> QED BY <1>3, <1>5, <1>6 DEF Grown

LEMMA Polled ==
  ASSUME NEW b, NEW fits, NEW s \in DOMAIN PollReplies(b, fits)
  PROVE  PollReplies(b, fits)[s] \in {"accept", "decline"}
  BY DEF PollReplies

\* A taker's step leaves the maker's replies and the book alone.
Taker == [pc : TakerPcs, b : Blocks \cup {NoBlock}, s : SlotIds]

LEMMA TakerMoves ==
  ASSUME taker \in [Takers -> Taker], NEW t \in Takers, NEW pc \in TakerPcs,
         TakerGoes(t, pc)
  PROVE  taker' \in [Takers -> Taker]
  <1>1. Gone \in Taker /\ [taker[t] EXCEPT !.pc = pc] \in Taker
    BY DEF Gone, Taker, TakerPcs, SlotIds
  <1> QED BY <1>1 DEF TakerGoes

LEMMA TakerSteps ==
  ASSUME RvTypeOK, FiniteReq, NEW t \in Takers, TakerNext(t)
  PROVE  RvTypeOK' /\ FiniteReq' /\ UNCHANGED <<book, resp>>
  <1>0. taker \in [Takers -> Taker] /\ taker[t] \in Taker
    BY DEF RvTypeOK, Taker
  <1>1. taker' \in [Takers -> Taker] /\ UNCHANGED <<book, resp>>
    <2>1. CASE TakeOffer(t)
      <3> DEFINE free == {s \in SlotIds : req[book][s] = {}}
      <3>1. CASE free = {}
        BY <1>0, <2>1, <3>1, TakerMoves DEF TakeOffer, TakerPcs
      <3>2. CASE free # {}
        <4>1. Min(free) \in SlotIds
          BY <3>2, MinIn DEF SlotIds
        <4>2. [pc |-> "slotted", b |-> book, s |-> Min(free)] \in Taker
          BY <4>1 DEF Taker, RvTypeOK, TakerPcs
        <4> HIDE DEF free
        <4>3. taker' = [taker EXCEPT ![t] = [pc |-> "slotted", b |-> book, s |-> Min(free)]]
          BY <2>1, <3>2 DEF TakeOffer, free
        <4> QED BY <1>0, <2>1, <4>2, <4>3 DEF TakeOffer
      <3> QED BY <3>1, <3>2
    <2>2. CASE ~TakeOffer(t)
      BY <1>0, <2>2, TakerMoves DEF TakerNext, PostTake, ReadReply, Leave, TakerPcs
    <2> QED BY <2>1, <2>2
  <1>2. req' \in [Blocks -> [SlotIds -> SUBSET Takers]] /\ FiniteReq'
    <2>1. CASE PostTake(t)
      <3> DEFINE b == taker[t].b
                 s == taker[t].s
      <3>1. req \in [Blocks -> [SlotIds -> SUBSET Takers]] /\ s \in SlotIds
        BY <1>0 DEF RvTypeOK, Taker
      <3>2. req' = [req EXCEPT ![b][s] = @ \cup {t}]
        BY <2>1 DEF PostTake
      <3> HIDE DEF b, s
      <3>3. req' \in [Blocks -> [SlotIds -> SUBSET Takers]]
        <4>1. CASE b \in Blocks
          <5>1. [req[b] EXCEPT ![s] = @ \cup {t}] \in [SlotIds -> SUBSET Takers]
            BY <3>1, <4>1
          <5> QED BY <3>1, <3>2, <5>1
        <4>2. CASE b \notin Blocks
          BY <3>1, <3>2, <4>2
        <4> QED BY <4>1, <4>2
      <3>4. ASSUME NEW c \in Blocks, NEW u \in SlotIds PROVE IsFiniteSet(req'[c][u])
        <4>1. IsFiniteSet(req[c][u]) /\ IsFiniteSet(req[c][u] \cup {t})
          BY FS_AddElement DEF FiniteReq
        <4>2. req'[c][u] = req[c][u] \/ req'[c][u] = req[c][u] \cup {t}
          BY <3>1, <3>2
        <4> QED BY <4>1, <4>2
      <3> QED BY <3>3, <3>4 DEF FiniteReq
    <2>2. CASE ~PostTake(t)
      BY <2>2 DEF TakerNext, TakeOffer, ReadReply, Leave, RvTypeOK, FiniteReq
    <2> QED BY <2>1, <2>2
  <1> QED BY <1>1, <1>2 DEF RvTypeOK, Taker

-----------------------------------------------------------------------------
(* The inductive invariant: every tick on its own.                         *)

Row == [pc : Pcs, pr : Prices \cup {"none"}, off : Blocks \cup {NoBlock},
        rec : SUBSET Blocks, todo : SUBSET SlotIds, fit : SUBSET SlotIds,
        ctx : Blocks \cup {NoBlock}, part : {"offer", "grace", "guard"},
        grace : SUBSET Blocks, hand : BOOLEAN,
        verdict : Verdicts, seen : SUBSET SlotIds, threw : BOOLEAN]

RunRow == [at : {"off", "ceremony", "stake", "record", "ready", "finish"},
           b : Blocks \cup {NoBlock}, s : SlotIds, t : Takers \cup {NoTaker},
           fresh : BOOLEAN]

FileRow == [party : Takers \cup {NoTaker}, moved : BOOLEAN, ready : BOOLEAN,
            done : BOOLEAN]

LockRow == [by : Procs \cup {"nobody"}, dead : BOOLEAN]

StateRow == [offer : Blocks \cup {NoBlock}, recent : SUBSET Blocks]

Flags == [Procs -> [Kinds -> SlotIds \cup {Clear}]]

Purse == [Takers -> {"home", "staked", "back", "twice"}]

Past(r) == r.at \notin {"off", "ceremony"}

Running(p) == \E k \in Kinds : Busy(p, k)

\* What a tick still has to answer lies on a block, and a take it polls for is
\* in its hands.
Rowed(me) == /\ me.pc = "handle" => me.todo # {}
             /\ me.todo # {} => me.pc \in {"handle", "poll", "settling"}
             /\ me.pc \in {"handle", "poll", "settling"} => me.ctx \in Blocks
             /\ me.pc \in {"poll", "settling"} => me.hand

\* Of the takes its last look showed, a tick that has no settlement in hand, and
\* whose declines went through, has still to answer some, and the others have
\* the replies written.
Looked(me, written) ==
    \/ me.seen = {} \/ me.hand \/ me.threw
    \/ /\ me.pc \in {"handle", "act"} /\ me.part = "guard"
       /\ me.off \in Blocks /\ me.ctx = me.off
       /\ \A s \in me.seen : s \in me.todo \/ written[me.off][s] # "none"

\* A coroutine is of a block and a taker.
Placed(r) == r.at # "off" => r.b \in Blocks /\ r.t \in Takers

\* A resume has no ceremony, and a cron tick waits for its coroutines.
Waits(p) == /\ run[p]["resume"].at # "ceremony"
            /\ ~maker.watch => /\ Busy(p, "settle") => proc[p].pc = "settling"
                               /\ Busy(p, "resume") => proc[p].pc = "resuming"

TickInv == /\ TypeOK /\ FiniteReq
           /\ \A p \in Procs : /\ Rowed(proc[p]) /\ Looked(proc[p], resp)
                               /\ \A k \in Kinds : Placed(run[p][k])
                               /\ Waits(p)

Typed == /\ setup' = setup
         /\ posted' \in 0 .. MaxBlocks
         /\ st' \in StateRow
         /\ sess' \in [Blocks -> FileRow]
         /\ coins' \in Purse
         /\ lock' \in LockRow
         /\ flag' \in Flags
         /\ events' \in 0 .. MaxEvents

LEMMA AsleepRow ==
  /\ Asleep \in Row /\ Rowed(Asleep) /\ \A w : Looked(Asleep, w)
  /\ Off \in RunRow /\ Placed(Off)
  BY DEF Asleep, Row, Rowed, Looked, Off, RunRow, Placed, Pcs, Verdicts, SlotIds

\* Home is one of the processes, and Clear no slot.
LEMMA Homes ==
  ASSUME NEW p \in Procs
  PROVE  Home(p) \in Procs /\ p \in Mates(p) /\ Clear \notin SlotIds
  BY DEF Home, Mates, Clear, SlotIds

LEMMA TickInvInit == Init => TickInv
  <1> SUFFICES ASSUME Init PROVE TickInv
    OBVIOUS
  <1>1. proc \in [Procs -> Row] /\ run \in [Procs -> [Kinds -> RunRow]]
    BY AsleepRow DEF Init
  <1>2. RvTypeOK /\ FiniteReq
    BY FS_EmptySet DEF Init, RvInit, RvTypeOK, FiniteReq, Replies, TakerPcs, SlotIds
  <1>3. ASSUME NEW p \in Procs
        PROVE  /\ Rowed(proc[p]) /\ Looked(proc[p], resp) /\ Waits(p)
               /\ \A k \in Kinds : Placed(run[p][k])
    <2>1. proc[p] = Asleep /\ \A k \in Kinds : run[p][k] = Off
      BY DEF Init
    <2>2. Waits(p)
      BY <2>1 DEF Waits, Busy, Off, Kinds
    <2> QED BY <2>1, <2>2, AsleepRow
  <1>4. TypeOK
    BY <1>1, <1>2 DEF Init, TypeOK, Row, RunRow, NoSession, Free, Blank
  <1> QED BY <1>2, <1>3, <1>4 DEF TickInv

LEMMA StillLooked ==
  ASSUME NEW me, me.seen \subseteq SlotIds, Looked(me, resp), Grown
  PROVE  Looked(me, resp')
  <1>1. CASE me.seen = {} \/ me.hand \/ me.threw
    BY <1>1 DEF Looked
  <1>2. CASE ~(me.seen = {} \/ me.hand \/ me.threw)
    <2>1. /\ me.pc \in {"handle", "act"} /\ me.part = "guard" /\ me.ctx = me.off
          /\ me.off \in Blocks
          /\ \A s \in me.seen : s \in me.todo \/ resp[me.off][s] # "none"
      BY <1>2 DEF Looked
    <2>2. \A s \in me.seen : s \in me.todo \/ resp'[me.off][s] # "none"
      BY <2>1 DEF Grown
    <2> QED BY <2>1, <2>2 DEF Looked
  <1> QED BY <1>1, <1>2

\* The parts of the type invariant, next to each other.
LEMMA Files ==
  ASSUME TickInv
  PROVE  /\ maker \in Makers /\ windows \in AllWindows
         /\ posted \in 0 .. MaxBlocks /\ events \in 0 .. MaxEvents
         /\ st \in StateRow /\ sess \in [Blocks -> FileRow]
         /\ coins \in Purse /\ lock \in LockRow /\ flag \in Flags
         /\ RvTypeOK /\ FiniteReq
  BY DEF TickInv, TypeOK, StateRow, FileRow, Purse, LockRow, Flags

LEMMA Own ==
  ASSUME TickInv, NEW p \in Procs
  PROVE  /\ proc[p] \in Row /\ Rowed(proc[p]) /\ Looked(proc[p], resp) /\ Waits(p)
         /\ proc \in [Procs -> Row]
         /\ \A k \in Kinds : run[p][k] \in RunRow /\ Placed(run[p][k])
         /\ run \in [Procs -> [Kinds -> RunRow]]
  BY DEF TickInv, TypeOK, Row, RunRow

LEMMA StillTyped ==
  ASSUME TickInv, Typed, RvTypeOK', proc' \in [Procs -> Row],
         run' \in [Procs -> [Kinds -> RunRow]]
  PROVE  TypeOK'
  <1>1. maker' \in Makers /\ windows' \in AllWindows
    BY Files DEF Typed, setup
  <1> QED BY <1>1 DEF TypeOK, Typed, Row, RunRow, StateRow, FileRow, Purse, LockRow, Flags

\* One tick moves to a row of its own, its coroutines and the replies as they may.
LEMMA Moves ==
  ASSUME TickInv, NEW p \in Procs, NEW r \in Row, Rowed(r), Looked(r, resp'),
         proc' = [proc EXCEPT ![p] = r],
         Grown, RvTypeOK', FiniteReq', Typed,
         run' \in [Procs -> [Kinds -> RunRow]],
         \A q \in Procs \ {p} : run'[q] = run[q],
         \A k \in Kinds : Placed(run'[p][k]),
         Waits(p)'
  PROVE  TickInv'
  <1>1. proc \in [Procs -> Row] /\ maker' = maker
    BY Own DEF Typed, setup
  <1>2. proc' \in [Procs -> Row] /\ proc'[p] = r /\ \A q \in Procs \ {p} : proc'[q] = proc[q]
    BY <1>1
  <1>3. TypeOK'
    BY <1>2, StillTyped
  <1>4. ASSUME NEW q \in Procs \ {p}
        PROVE  /\ Rowed(proc'[q]) /\ Looked(proc'[q], resp') /\ Waits(q)'
               /\ \A k \in Kinds : Placed(run'[q][k])
    <2>1. proc'[q] = proc[q] /\ run'[q] = run[q] /\ proc[q] \in Row
      BY <1>1, <1>2
    <2>2. Rowed(proc[q]) /\ Looked(proc[q], resp) /\ Waits(q) /\ \A k \in Kinds : Placed(run[q][k])
      BY DEF TickInv
    <2>3. proc[q].seen \subseteq SlotIds
      BY <2>1 DEF Row
    <2>4. Looked(proc[q], resp')
      BY <2>2, <2>3, StillLooked
    <2>5. Waits(q)'
      BY <1>1, <2>1, <2>2 DEF Waits, Busy
    <2> QED BY <2>1, <2>2, <2>4, <2>5
  <1> QED BY <1>2, <1>3, <1>4 DEF TickInv

\* A look at a block's requests.
LEMMA Peeks ==
  ASSUME NEW me \in Row, NEW b \in Blocks \cup {NoBlock}, NEW rows \in SUBSET SlotIds,
         b = NoBlock => rows = {}, NEW part \in {"offer", "grace", "guard"}
  PROVE  LET r == Peek(me, b, rows, part) IN
         /\ r \in Row /\ (rows # {} => Rowed(r)) /\ (rows = {} => r.pc = After(part))
         /\ rows # {} => r.pc = "handle"
         /\ r.part = part /\ r.ctx = b /\ r.todo = rows
         /\ r.off = me.off /\ r.hand = me.hand /\ r.seen = me.seen /\ r.threw = me.threw
  <1> DEFINE fit == {s \in rows : TakerAt(b, s) \in Fits(me.pr)}
             pc == IF rows = {} THEN After(part) ELSE "handle"
             r == [me EXCEPT !.pc = pc, !.part = part, !.ctx = b, !.todo = rows, !.fit = fit]
  <1>1. fit \subseteq SlotIds /\ Peek(me, b, rows, part) = r
    BY DEF Peek
  <1>2. pc \in Pcs /\ (rows # {} => b \in Blocks /\ pc = "handle") /\ (rows = {} => pc = After(part))
    BY DEF Pcs, After
  <1> HIDE DEF fit, pc
  <1>3. r \in Row
    BY <1>1, <1>2 DEF Row
  <1>4. /\ r.pc = pc /\ r.part = part /\ r.ctx = b /\ r.todo = rows
        /\ r.off = me.off /\ r.hand = me.hand /\ r.seen = me.seen /\ r.threw = me.threw
    BY DEF Row
  <1> HIDE DEF r
  <1>5. rows # {} => Rowed(r)
    BY <1>2, <1>4 DEF Rowed
  <1> QED BY <1>1, <1>2, <1>3, <1>4, <1>5

LEMMA SameReplies ==
  ASSUME TickInv, UNCHANGED rvVars
  PROVE  Grown /\ RvTypeOK' /\ FiniteReq'
  BY Files DEF RvTypeOK, FiniteReq, Grown, rvVars

\* A step of a tick that touches no coroutine: cron ticks that wait stay where
\* they are.
LEMMA TickMoves ==
  ASSUME TickInv, NEW p \in Procs, NEW r \in Row, Rowed(r), Looked(r, resp'),
         proc' = [proc EXCEPT ![p] = r],
         Grown, RvTypeOK', FiniteReq', Typed, run' = run,
         ~maker.watch /\ Running(p) => r.pc = proc[p].pc
  PROVE  TickInv'
  <1>1. run' \in [Procs -> [Kinds -> RunRow]] /\ \A k \in Kinds : Placed(run'[p][k])
    BY Own
  <1>2. proc'[p] = r /\ maker' = maker /\ Waits(p)
    BY Own DEF Typed, setup
  <1>3. Waits(p)'
    BY <1>2 DEF Waits, Busy, Running, Kinds
  <1> QED BY <1>1, <1>3, Moves

\* A step of a coroutine, which may clear the offer a cron tick read.
LEMMA RunMoves ==
  ASSUME TickInv, NEW p \in Procs, NEW k \in Kinds, NEW x \in RunRow, Placed(x),
         run' = [run EXCEPT ![p][k] = x], Busy(p, k), x.at # "ceremony",
         \/ proc' = proc
         \/ /\ ~maker.watch /\ k = "settle"
            /\ proc' = [proc EXCEPT ![p].off = NoBlock],
         UNCHANGED rvVars, Typed
  PROVE  TickInv'
  <1>0. /\ proc \in [Procs -> Row] /\ run \in [Procs -> [Kinds -> RunRow]]
        /\ Rowed(proc[p]) /\ Looked(proc[p], resp) /\ Waits(p)
        /\ \A j \in Kinds : Placed(run[p][j])
    BY Own
  <1>1. Grown /\ RvTypeOK' /\ FiniteReq'
    BY SameReplies
  <1>2. PICK r \in Row :
          /\ proc' = [proc EXCEPT ![p] = r] /\ Rowed(r) /\ Looked(r, resp)
          /\ r.pc = proc[p].pc
    <2>1. CASE proc' = proc
      <3>1. proc' = [proc EXCEPT ![p] = proc[p]]
        BY <1>0, <2>1
      <3> QED BY <1>0, <3>1
    <2>2. CASE ~maker.watch /\ k = "settle" /\ proc' = [proc EXCEPT ![p].off = NoBlock]
      <3> DEFINE r == [proc[p] EXCEPT !.off = NoBlock]
      <3>1. proc[p].pc = "settling" /\ proc[p].hand
        BY <1>0, <2>2 DEF Waits, Rowed
      <3>2. /\ r \in Row /\ r.pc = "settling" /\ r.hand
            /\ r.todo = proc[p].todo /\ r.ctx = proc[p].ctx
        <4>1. proc[p] \in Row
          BY <1>0
        <4> QED BY <3>1, <4>1 DEF Row
      <3>3. proc' = [proc EXCEPT ![p] = r]
        BY <1>0, <2>2
      <3> HIDE DEF r
      <3>4. Rowed(r)
        BY <1>0, <3>1, <3>2 DEF Rowed
      <3>5. Looked(r, resp)
        BY <3>2 DEF Looked
      <3> QED BY <3>1, <3>2, <3>3, <3>4, <3>5
    <2> QED BY <2>1, <2>2
  <1>3. /\ run' \in [Procs -> [Kinds -> RunRow]]
        /\ \A q \in Procs \ {p} : run'[q] = run[q]
        /\ run'[p][k] = x /\ \A j \in Kinds \ {k} : run'[p][j] = run[p][j]
    BY <1>0
  <1>4. \A j \in Kinds : Placed(run'[p][j])
    BY <1>0, <1>3
  <1>5. resp' = resp /\ maker' = maker
    BY DEF rvVars, Typed, setup
  <1>6. proc'[p].pc = proc[p].pc
    BY <1>0, <1>2
  <1>7. Waits(p)'
    BY <1>0, <1>3, <1>5, <1>6 DEF Waits, Busy, Kinds
  <1> QED BY <1>1, <1>2, <1>3, <1>4, <1>5, <1>7, Moves

\* Nothing the ticks hold changes.
LEMMA WorldMoves ==
  ASSUME TickInv, Grown, RvTypeOK', FiniteReq', Typed, UNCHANGED <<proc, run>>
  PROVE  TickInv'
  <1>1. TypeOK' /\ maker' = maker
    BY StillTyped DEF TickInv, TypeOK, Row, RunRow, Typed, setup
  <1>2. ASSUME NEW q \in Procs
        PROVE  /\ Rowed(proc[q]) /\ Looked(proc[q], resp') /\ Waits(q)'
               /\ \A k \in Kinds : Placed(run[q][k])
    <2>1. proc[q] \in Row
      BY Own
    <2>2. Rowed(proc[q]) /\ Looked(proc[q], resp) /\ Waits(q) /\ \A k \in Kinds : Placed(run[q][k])
      BY DEF TickInv
    <2>3. proc[q].seen \subseteq SlotIds
      BY <2>1 DEF Row
    <2>4. Looked(proc[q], resp')
      BY <2>2, <2>3, StillLooked
    <2>5. Waits(q)'
      BY <1>1, <2>2 DEF Waits, Busy
    <2> QED BY <2>2, <2>4, <2>5
  <1>3. TickInv' <=> /\ TypeOK' /\ FiniteReq'
                     /\ \A p \in Procs : /\ Rowed(proc'[p]) /\ Looked(proc'[p], resp')
                                         /\ \A k \in Kinds : Placed(run'[p][k])
                                         /\ Waits(p)'
    BY DEF TickInv
  <1> QED BY <1>1, <1>2, <1>3

-----------------------------------------------------------------------------
(* The steps of a tick keep it.                                            *)

\* A row at a place without requests to answer.
LEMMA Bare ==
  ASSUME NEW r, r.todo = {}, r.pc \notin {"handle", "poll", "settling"},
         r.seen = {} \/ r.hand \/ r.threw
  PROVE  Rowed(r) /\ \A w : Looked(r, w)
  BY DEF Rowed, Looked

\* At these places a tick has nothing left to answer.
LEMMA Quiet ==
  ASSUME TickInv, NEW p \in Procs, proc[p].pc \notin {"handle", "poll", "settling"},
         proc[p].pc # "act"
  PROVE  /\ proc[p].todo = {}
         /\ proc[p].seen = {} \/ proc[p].hand \/ proc[p].threw
  BY Own DEF Rowed, Looked

\* At these places a cron tick has no coroutine of its own.
LEMMA Unengaged ==
  ASSUME TickInv, NEW p \in Procs, proc[p].pc \notin {"settling", "resuming"}, ~maker.watch
  PROVE  ~Running(p)
  BY Own DEF Waits, Running, Kinds

\* A fault is counted.
LEMMA Counted ==
  ASSUME TickInv, \/ UNCHANGED events
                  \/ \E w : Fault(w)
                  \/ events < MaxEvents /\ events' = events + 1
  PROVE  events' \in 0 .. MaxEvents
  <1>1. events \in 0 .. MaxEvents
    BY Files
  <1>2. UNCHANGED events \/ (events < MaxEvents /\ events' = events + 1)
    BY DEF Fault
  <1> QED BY <1>1, <1>2

LEMMA TickStartInv ==
  ASSUME TickInv, NEW p \in Procs, TickStart(p)
  PROVE  TickInv'
  <1> DEFINE r == [Asleep EXCEPT !.pc = "resume"]
  <1>1. r \in Row /\ Rowed(r) /\ Looked(r, resp')
    BY DEF Asleep, Row, Rowed, Looked, Pcs, Verdicts
  <1>2. proc' = [proc EXCEPT ![p] = r] /\ UNCHANGED <<setup, run, rvVars>>
    BY DEF TickStart
  <1>3. ~maker.watch => ~Running(p)
    BY Unengaged DEF TickStart
  <1>4. Typed
    <2>1. events' \in 0 .. MaxEvents
      BY Counted DEF TickStart, Overdue
    <2>2. lock' \in LockRow
      BY Homes DEF TickStart, LockRow
    <2> QED BY <2>1, <2>2, Files DEF TickStart, Typed
  <1> HIDE DEF r
  <1> QED BY <1>1, <1>2, <1>3, <1>4, SameReplies, TickMoves

\* A mark of done.
LEMMA DoneRow ==
  ASSUME TickInv, NEW b \in Blocks
  PROVE  sess[b] \in FileRow /\ [sess[b] EXCEPT !.done = TRUE] \in FileRow
  BY Files DEF FileRow

LEMMA ResumeInv ==
  ASSUME TickInv, NEW p \in Procs, Resume(p)
  PROVE  TickInv'
  <1> DEFINE ready == {b \in Unfinished : Resumable(b)}
             here == IF ready = {} THEN NoBlock ELSE Min(ready)
             x == [Off EXCEPT !.at = "stake", !.b = here, !.t = sess[here].party]
  <1>0. /\ proc[p].pc = "resume" /\ UNCHANGED <<setup, rvVars, events>>
    BY DEF Resume
  <1>1. /\ Grown /\ RvTypeOK' /\ FiniteReq'
    BY <1>0, SameReplies
  <1>2. here # NoBlock => here \in Blocks /\ here \in Unfinished
    <2>1. SUFFICES ASSUME here # NoBlock PROVE here \in Blocks /\ here \in Unfinished
      OBVIOUS
    <2>2. ready # {} /\ ready \in SUBSET Nat
      BY <2>1 DEF Unfinished, Blocks
    <2>3. Min(ready) \in ready
      BY <2>2, MinIn
    <2> QED BY <2>3 DEF Unfinished
  <1>3. Typed
    <2>1. sess' \in [Blocks -> FileRow]
      <3>1. sess' = sess \/ sess' = [b \in Blocks |->
                      IF b \in Unfinished \cap (IF ready = {} THEN Blocks ELSE 1 .. Min(ready))
                         /\ Droppable(b)
                      THEN [sess[b] EXCEPT !.done = TRUE] ELSE sess[b]]
        BY DEF Resume
      <3> HIDE DEF ready
      <3> QED BY <3>1, DoneRow, Files
    <2>2. flag' \in Flags
      <3>1. flag' = flag \/ flag' = [flag EXCEPT ![Home(p)]["resume"] = x.s]
        BY DEF Resume, Starts
      <3>2. x.s \in SlotIds
        BY DEF Off, SlotIds
      <3> HIDE DEF x
      <3>3. flag \in [Procs -> [Kinds -> SlotIds \cup {Clear}]]
        BY Files DEF Flags
      <3>4. [flag[Home(p)] EXCEPT !["resume"] = x.s] \in [Kinds -> SlotIds \cup {Clear}]
        BY <3>2, <3>3, Homes
      <3> QED BY <3>1, <3>3, <3>4, Homes DEF Flags
    <2> QED BY <1>0, <2>1, <2>2, Files DEF Resume, Typed
  <1>4. ASSUME NEW pc \in {"load", "resuming"}
        PROVE  LET r == [proc[p] EXCEPT !.pc = pc]
               IN r \in Row /\ r.pc = pc /\ Rowed(r) /\ Looked(r, resp')
    <2> DEFINE r == [proc[p] EXCEPT !.pc = pc]
    <2>1. /\ r \in Row /\ r.pc = pc /\ r.todo = proc[p].todo
          /\ r.seen = proc[p].seen /\ r.hand = proc[p].hand /\ r.threw = proc[p].threw
      <3>1. proc[p] \in Row
        BY Own
      <3> QED BY <3>1 DEF Row, Pcs
    <2> HIDE DEF r
    <2>2. r.todo = {} /\ (r.seen = {} \/ r.hand \/ r.threw)
      BY <1>0, <2>1, Quiet
    <2>3. Rowed(r) /\ Looked(r, resp')
      BY <2>1, <2>2, Bare
    <2> QED BY <2>1, <2>3 DEF r
  <1>5. ~maker.watch => ~Running(p)
    BY <1>0, Unengaged
  <1>6. CASE Goes(p, "load") /\ UNCHANGED run
    <2> DEFINE r == [proc[p] EXCEPT !.pc = "load"]
    <2>1. r \in Row /\ Rowed(r) /\ Looked(r, resp')
      BY <1>4
    <2>2. proc' = [proc EXCEPT ![p] = r]
      BY <1>6, Own DEF Goes
    <2> HIDE DEF r
    <2> QED BY <1>1, <1>3, <1>5, <1>6, <2>1, <2>2, TickMoves
  <1>7. CASE /\ here # NoBlock /\ ~Busy(p, "resume")
             /\ run' = [run EXCEPT ![p]["resume"] = x]
             /\ Goes(p, IF maker.watch THEN "load" ELSE "resuming")
    <2> DEFINE pc == IF maker.watch THEN "load" ELSE "resuming"
               r == [proc[p] EXCEPT !.pc = pc]
    <2>1. here \in Blocks /\ sess[here].party \in Takers
      <3>1. here \in Blocks /\ here \in Unfinished
        BY <1>2, <1>7
      <3> HIDE DEF here
      <3> QED BY <3>1, Files DEF Unfinished, FileRow
    <2> HIDE DEF here
    <2>2. x \in RunRow /\ Placed(x) /\ x.at = "stake"
      BY <2>1, AsleepRow DEF RunRow, Placed, Off
    <2> HIDE DEF x
    <2>3. r \in Row /\ r.pc = pc /\ Rowed(r) /\ Looked(r, resp')
      <3>1. pc \in {"load", "resuming"}
        OBVIOUS
      <3> HIDE DEF pc
      <3> QED BY <1>4, <3>1
    <2>4. proc' = [proc EXCEPT ![p] = r]
      BY <1>7, Own DEF Goes
    <2> HIDE DEF r
    <2>5. /\ run' \in [Procs -> [Kinds -> RunRow]]
          /\ \A q \in Procs \ {p} : run'[q] = run[q]
          /\ run'[p]["resume"] = x /\ run'[p]["settle"] = run[p]["settle"]
      BY <1>7, <2>2, Own DEF Kinds
    <2>6. \A k \in Kinds : Placed(run'[p][k])
      BY <2>2, <2>5, Own DEF Kinds
    <2>7. proc'[p].pc = pc /\ maker' = maker
      BY <1>0, <2>3, <2>4, Own DEF setup
    <2>8. ~maker.watch => run[p]["settle"].at = "off"
      BY <1>5 DEF Running, Busy, Kinds
    <2>9. Waits(p)'
      BY <2>2, <2>5, <2>7, <2>8 DEF Waits, Busy
    <2> QED BY <1>1, <1>3, <2>3, <2>4, <2>5, <2>6, <2>9, Moves
  <1>8. \/ Goes(p, "load") /\ UNCHANGED run
        \/ /\ here # NoBlock /\ ~Busy(p, "resume")
           /\ run' = [run EXCEPT ![p]["resume"] = x]
           /\ Goes(p, IF maker.watch THEN "load" ELSE "resuming")
    BY DEF Resume, Starts
  <1> QED BY <1>6, <1>7, <1>8

LEMMA TickEnds ==
  ASSUME TickInv, NEW p \in Procs, Ends(p), ~maker.watch => ~Running(p),
         Grown, RvTypeOK', FiniteReq', Typed, run' = run
  PROVE  TickInv'
  <1>1. proc' = [proc EXCEPT ![p] = Asleep]
    BY DEF Ends
  <1> QED BY <1>1, AsleepRow, TickMoves

LEMMA AwaitedInv ==
  ASSUME TickInv, NEW p \in Procs, Awaited(p)
  PROVE  TickInv'
  <1>1. UNCHANGED <<setup, rvVars, run>> /\ Typed
    BY Files DEF Awaited, Typed
  <1>2. PICK pc : /\ Goes(p, pc)
                  /\ \/ proc[p].pc = "resuming" /\ ~Busy(p, "resume") /\ pc = "load"
                     \/ proc[p].pc = "settling" /\ ~Busy(p, "settle") /\ pc = Onward(proc[p])
    BY DEF Awaited
  <1> DEFINE r == [proc[p] EXCEPT !.pc = pc]
  <1>3. pc \in Pcs /\ (proc[p].pc = "settling" =>
            IF proc[p].todo = {} THEN pc \in {"act", "grace"} ELSE pc = "handle")
    BY <1>2 DEF Pcs, Onward, After
  <1>4. /\ r \in Row /\ r.pc = pc /\ r.todo = proc[p].todo /\ r.threw = proc[p].threw
        /\ r.seen = proc[p].seen /\ r.hand = proc[p].hand /\ r.ctx = proc[p].ctx
    <2>1. proc[p] \in Row
      BY Own
    <2> QED BY <1>3, <2>1 DEF Row
  <1>5. proc' = [proc EXCEPT ![p] = r]
    BY <1>2, Own DEF Goes
  <1> HIDE DEF r
  <1>6. Rowed(proc[p])
    BY Own
  <1>7. Rowed(r) /\ Looked(r, resp')
    <2>1. CASE proc[p].pc = "resuming"
      <3>1. r.pc = "load" /\ r.todo = {} /\ (r.seen = {} \/ r.hand \/ r.threw)
        BY <1>2, <1>4, <2>1, Quiet
      <3> QED BY <3>1, Bare
    <2>2. CASE proc[p].pc = "settling"
      BY <1>3, <1>4, <1>6, <2>2 DEF Rowed, Looked
    <2> QED BY <1>2, <2>1, <2>2
  <1>8. ~maker.watch => ~Running(p)
    BY <1>2, Own DEF Waits, Running, Kinds, Busy
  <1> QED BY <1>1, <1>4, <1>5, <1>7, <1>8, SameReplies, TickMoves

\* A look after which a tick goes on without a guard.
LEMMA PeekRow ==
  ASSUME TickInv, NEW me \in Row, me.todo = {}, me.seen = {} \/ me.hand \/ me.threw,
         NEW b \in Blocks \cup {NoBlock}, NEW rows \in SUBSET SlotIds,
         b = NoBlock => rows = {}, NEW part \in {"offer", "grace"}
  PROVE  LET r == Peek(me, b, rows, part) IN r \in Row /\ Rowed(r) /\ \A w : Looked(r, w)
  <1> DEFINE r == Peek(me, b, rows, part)
  <1>1. /\ r \in Row /\ (rows # {} => Rowed(r)) /\ (rows = {} => r.pc = After(part))
        /\ r.todo = rows /\ r.hand = me.hand /\ r.seen = me.seen /\ r.threw = me.threw
    BY Peeks
  <1> HIDE DEF r
  <1>2. rows = {} => Rowed(r)
    BY <1>1 DEF After, Rowed
  <1>3. \A w : Looked(r, w)
    BY <1>1 DEF Looked
  <1> QED BY <1>1, <1>2, <1>3 DEF r

LEMMA Lookings ==
  ASSUME NEW b, NEW rows, Look(b, rows)
  PROVE  /\ b = NoBlock => rows = {}
         /\ UNCHANGED events \/ \E w : Fault(w)
  BY DEF Look

LEMMA LoadInv ==
  ASSUME TickInv, NEW p \in Procs, Load(p)
  PROVE  TickInv'
  <1>1. /\ proc[p].pc = "load" /\ UNCHANGED <<setup, rvVars, run, posted, st, sess, coins, flag>>
    BY DEF Load
  <1>2. ~maker.watch => ~Running(p)
    BY <1>1, Unengaged
  <1> DEFINE read(pr) == [proc[p] EXCEPT !.pr = pr, !.off = st.offer, !.rec = st.recent,
                                         !.grace = st.recent \ {st.offer}, !.pc = "pull"]
  <1>3. PICK pr \in Prices :
          \/ Ends(p) /\ UNCHANGED events
          \/ /\ proc' = [proc EXCEPT ![p] = read(pr)] /\ UNCHANGED lock
             /\ UNCHANGED events \/ \E w : Fault(w)
          \/ /\ UNCHANGED lock
             /\ \E rows \in SUBSET SlotIds :
                  /\ Look(st.offer, rows)
                  /\ proc' = [proc EXCEPT ![p] = Peek(read(pr), st.offer, rows, "offer")]
    BY DEF Load
  <1>4. st.offer \in Blocks \cup {NoBlock} /\ st.recent \in SUBSET Blocks
    BY Files DEF StateRow
  <1>5. /\ read(pr) \in Row /\ read(pr).pc = "pull" /\ read(pr).todo = proc[p].todo
        /\ read(pr).threw = proc[p].threw
        /\ read(pr).seen = proc[p].seen /\ read(pr).hand = proc[p].hand
    <2>1. proc[p] \in Row
      BY Own
    <2> QED BY <1>4, <2>1 DEF Row, Pcs
  <1> DEFINE me == read(pr)
  <1> HIDE DEF read
  <1>6. me.todo = {} /\ (me.seen = {} \/ me.hand \/ me.threw)
    BY <1>1, <1>5, Quiet
  <1>7. Typed
    <2>1. lock' = lock \/ lock' = Free
      BY <1>3 DEF Ends
    <2>2. lock' \in LockRow
      <3>1. Free \in LockRow /\ lock \in LockRow
        BY Files DEF Free, LockRow
      <3> QED BY <2>1, <3>1
    <2>3. events' \in 0 .. MaxEvents
      BY <1>3, Counted, Lookings
    <2> QED BY <1>1, <2>2, <2>3, Files DEF Typed
  <1>8. CASE Ends(p)
    BY <1>1, <1>2, <1>7, <1>8, SameReplies, TickEnds
  <1>9. CASE proc' = [proc EXCEPT ![p] = me]
    <2>1. Rowed(me) /\ Looked(me, resp')
      BY <1>5, <1>6, Bare
    <2> QED BY <1>1, <1>2, <1>5, <1>7, <1>9, <2>1, SameReplies, TickMoves
  <1>10. CASE \E rows \in SUBSET SlotIds :
                /\ Look(st.offer, rows)
                /\ proc' = [proc EXCEPT ![p] = Peek(me, st.offer, rows, "offer")]
    <2>1. PICK rows \in SUBSET SlotIds :
                /\ Look(st.offer, rows)
                /\ proc' = [proc EXCEPT ![p] = Peek(me, st.offer, rows, "offer")]
      BY <1>10
    <2> DEFINE r == Peek(me, st.offer, rows, "offer")
    <2>2. r \in Row /\ Rowed(r) /\ Looked(r, resp')
      BY <1>4, <1>5, <1>6, <2>1, Lookings, PeekRow
    <2>3. proc' = [proc EXCEPT ![p] = r]
      BY <2>1
    <2> HIDE DEF r
    <2> QED BY <1>1, <1>2, <1>7, <2>2, <2>3, SameReplies, TickMoves
  <1> QED BY <1>3, <1>8, <1>9, <1>10

LEMMA GraceInv ==
  ASSUME TickInv, NEW p \in Procs, Grace(p)
  PROVE  TickInv'
  <1> DEFINE me == proc[p]
             olds == me.grace \cap st.recent
             old == Min(olds)
             peek(rows) == Peek(me, old, rows, "grace")
  <1>1. /\ me.pc = "grace" /\ UNCHANGED <<setup, rvVars, run, posted, st, sess, coins, flag, lock>>
    BY DEF Grace
  <1>2. \/ proc' = [proc EXCEPT ![p] = [me EXCEPT !.pc = "status", !.grace = {}]] /\ UNCHANGED events
        \/ /\ olds # {}
           /\ \E rows \in SUBSET SlotIds :
                 /\ Look(old, rows)
                 /\ proc' = [proc EXCEPT ![p] = [peek(rows) EXCEPT !.grace = @ \ {old}]]
    BY DEF Grace
  <1>3. (~maker.watch => ~Running(p)) /\ Typed
    BY <1>1, <1>2, Unengaged, Files, Counted, Lookings DEF Typed
  <1>4. me \in Row /\ me.todo = {} /\ (me.seen = {} \/ me.hand \/ me.threw)
    BY <1>1, Own, Quiet
  <1> HIDE DEF me
  <1>5. PICK r \in Row : Rowed(r) /\ Looked(r, resp') /\ proc' = [proc EXCEPT ![p] = r]
    <2>1. CASE proc' = [proc EXCEPT ![p] = [me EXCEPT !.pc = "status", !.grace = {}]]
      <3> DEFINE r == [me EXCEPT !.pc = "status", !.grace = {}]
      <3>1. /\ r \in Row /\ r.pc = "status" /\ r.todo = me.todo /\ r.threw = me.threw
            /\ r.seen = me.seen /\ r.hand = me.hand
        BY <1>4 DEF Row, Pcs
      <3>2. proc' = [proc EXCEPT ![p] = r]
        BY <2>1
      <3> HIDE DEF r
      <3>3. Rowed(r) /\ Looked(r, resp')
        BY <1>4, <3>1, Bare
      <3> QED BY <3>1, <3>2, <3>3
    <2>2. CASE /\ olds # {}
               /\ \E rows \in SUBSET SlotIds :
                     /\ Look(old, rows)
                     /\ proc' = [proc EXCEPT ![p] = [peek(rows) EXCEPT !.grace = @ \ {old}]]
      <3>1. PICK rows \in SUBSET SlotIds :
                     /\ Look(old, rows)
                     /\ proc' = [proc EXCEPT ![p] = [peek(rows) EXCEPT !.grace = @ \ {old}]]
        BY <2>2
      <3>2. olds \in SUBSET Nat /\ st.recent \in SUBSET Blocks
        BY Files DEF Blocks, StateRow
      <3>3. old \in Blocks
        BY <2>2, <3>2, MinIn
      <3> DEFINE r == [peek(rows) EXCEPT !.grace = @ \ {old}]
      <3>4. proc' = [proc EXCEPT ![p] = r]
        BY <3>1
      <3>5. old = NoBlock => rows = {}
        BY <3>1, Lookings
      <3> HIDE DEF old
      <3>6. /\ peek(rows) \in Row /\ Rowed(peek(rows)) /\ Looked(peek(rows), resp')
        BY <1>4, <3>3, <3>5, PeekRow
      <3> HIDE DEF peek
      <3>7. /\ r \in Row /\ r.pc = peek(rows).pc /\ r.todo = peek(rows).todo
            /\ r.part = peek(rows).part /\ r.off = peek(rows).off
            /\ r.threw = peek(rows).threw /\ r.ctx = peek(rows).ctx
            /\ r.seen = peek(rows).seen /\ r.hand = peek(rows).hand
        BY <3>6 DEF Row
      <3> HIDE DEF r
      <3>8. Rowed(r) /\ Looked(r, resp')
        BY <3>6, <3>7 DEF Rowed, Looked
      <3> QED BY <3>4, <3>7, <3>8
    <2> QED BY <1>2, <2>1, <2>2
  <1> QED BY <1>1, <1>3, <1>5, SameReplies, TickMoves

LEMMA StatusInv ==
  ASSUME TickInv, NEW p \in Procs, Status(p)
  PROVE  TickInv'
  <1> DEFINE me == proc[p]
             peek(rows) == Peek(me, me.off, rows, "guard")
  <1>1. /\ me.pc = "status" /\ UNCHANGED <<setup, rvVars, run, posted, st, sess, coins, flag, lock>>
    BY DEF Status
  <1>2. PICK v \in Verdicts :
        \/ /\ proc' = [proc EXCEPT ![p] = [me EXCEPT !.pc = "act", !.verdict = v]]
           /\ UNCHANGED events
        \/ /\ me.off # NoBlock
           /\ \E rows \in SUBSET SlotIds :
                 /\ Look(me.off, rows)
                 /\ proc' = [proc EXCEPT ![p] = [peek(rows) EXCEPT !.verdict = v, !.seen = rows]]
    <2>1. "none" \in Verdicts /\ Verdict \subseteq Verdicts
      BY DEF Verdicts, Verdict
    <2> QED BY <2>1 DEF Status
  <1>3. (~maker.watch => ~Running(p)) /\ Typed
    BY <1>1, <1>2, Unengaged, Files, Counted, Lookings DEF Typed
  <1>4. me \in Row /\ me.todo = {} /\ (me.seen = {} \/ me.hand \/ me.threw)
    BY <1>1, Own, Quiet
  <1> HIDE DEF me
  <1>5. PICK r \in Row : Rowed(r) /\ Looked(r, resp') /\ proc' = [proc EXCEPT ![p] = r]
    <2>1. CASE proc' = [proc EXCEPT ![p] = [me EXCEPT !.pc = "act", !.verdict = v]]
      <3> DEFINE r == [me EXCEPT !.pc = "act", !.verdict = v]
      <3>1. /\ r \in Row /\ r.pc = "act" /\ r.todo = me.todo /\ r.threw = me.threw
            /\ r.seen = me.seen /\ r.hand = me.hand
        BY <1>4 DEF Row, Pcs
      <3>2. proc' = [proc EXCEPT ![p] = r]
        BY <2>1
      <3> HIDE DEF r
      <3>3. Rowed(r) /\ Looked(r, resp')
        BY <1>4, <3>1, Bare
      <3> QED BY <3>1, <3>2, <3>3
    <2>2. CASE /\ me.off # NoBlock
               /\ \E rows \in SUBSET SlotIds :
                     /\ Look(me.off, rows)
                     /\ proc' = [proc EXCEPT ![p] = [peek(rows) EXCEPT !.verdict = v, !.seen = rows]]
      <3>1. PICK rows \in SUBSET SlotIds :
              proc' = [proc EXCEPT ![p] = [peek(rows) EXCEPT !.verdict = v, !.seen = rows]]
        BY <2>2
      <3>2. me.off \in Blocks
        BY <1>4, <2>2 DEF Row
      <3> DEFINE r == [peek(rows) EXCEPT !.verdict = v, !.seen = rows]
      <3>3. proc' = [proc EXCEPT ![p] = r]
        BY <3>1
      <3>4. /\ peek(rows) \in Row /\ (rows # {} => Rowed(peek(rows)))
            /\ (rows = {} => peek(rows).pc = After("guard"))
            /\ rows # {} => peek(rows).pc = "handle"
            /\ peek(rows).part = "guard" /\ peek(rows).ctx = me.off /\ peek(rows).todo = rows
            /\ peek(rows).off = me.off /\ peek(rows).hand = me.hand
        BY <1>4, <2>2, <3>2, Peeks
      <3> HIDE DEF peek
      <3>5. /\ r \in Row /\ r.pc = peek(rows).pc /\ r.todo = rows /\ r.part = "guard"
            /\ r.ctx = me.off /\ r.off = me.off /\ r.seen = rows /\ r.hand = me.hand
        BY <3>4 DEF Row
      <3> HIDE DEF r
      <3>6. Rowed(r)
        BY <3>2, <3>4, <3>5 DEF Rowed, After
      <3>7. Looked(r, resp')
        BY <3>2, <3>4, <3>5 DEF Looked, After
      <3> QED BY <3>3, <3>5, <3>6, <3>7
    <2> QED BY <1>2, <2>1, <2>2
  <1> QED BY <1>1, <1>3, <1>5, SameReplies, TickMoves

LEMMA Pulled ==
  ASSUME TickInv, NEW p \in Procs
  PROVE  /\ Withdrawn(p) \in StateRow
         /\ \A b \in Blocks \cup {NoBlock} : [Withdrawn(p) EXCEPT !.offer = b] \in StateRow
  <1>1. proc[p] \in Row
    BY Own
  <1> QED BY <1>1, Files DEF Withdrawn, Row, StateRow

\* What becomes of the book and the state file.
LEMMA PulledTyped ==
  ASSUME TickInv, NEW p \in Procs,
         \/ Pull(p) \/ Post(p) \/ PullThrows
         \/ PostThrows(st) \/ PostThrows(Withdrawn(p)) \/ UNCHANGED <<book, st, posted>>
  PROVE  book' \in Blocks \cup {NoBlock} /\ posted' \in 0 .. MaxBlocks /\ st' \in StateRow
  <1>1. /\ posted \in 0 .. MaxBlocks /\ book \in Blocks \cup {NoBlock} /\ st \in StateRow
        /\ posted < MaxBlocks => posted + 1 \in Blocks /\ posted + 1 \in 0 .. MaxBlocks
    BY Files DEF RvTypeOK, Blocks
  <1>2. CASE Pull(p) \/ PullThrows
    BY <1>1, <1>2, Pulled DEF Pull, PullThrows
  <1>3. CASE Post(p)
    BY <1>1, <1>3, Pulled DEF Post
  <1>4. CASE PostThrows(st) \/ PostThrows(Withdrawn(p))
    BY <1>1, <1>4, Pulled DEF PostThrows
  <1> QED BY <1>1, <1>2, <1>3, <1>4

LEMMA ActInv ==
  ASSUME TickInv, NEW p \in Procs, Act(p) \/ PullNow(p)
  PROVE  TickInv'
  <1>1. proc[p].pc \in {"act", "pull"} /\ Ends(p)
    BY DEF Act, PullNow
  <1>2. /\ \/ Pull(p) \/ Post(p) \/ PullThrows
           \/ PostThrows(st) \/ PostThrows(Withdrawn(p)) \/ UNCHANGED <<book, st, posted>>
        /\ UNCHANGED events \/ \E w : Fault(w)
        /\ UNCHANGED <<setup, req, resp, taker, sess, coins, flag, run>>
    BY DEF Act, PullNow, PullThrows, PostThrows
  <1>3. book' \in Blocks \cup {NoBlock} /\ posted' \in 0 .. MaxBlocks /\ st' \in StateRow
    BY <1>2, PulledTyped
  <1>4. RvTypeOK' /\ FiniteReq' /\ Grown
    BY <1>2, <1>3, Files DEF RvTypeOK, FiniteReq, Grown
  <1>5. Typed
    <2>1. lock' \in LockRow
      BY <1>1 DEF Ends, Free, LockRow
    <2>2. events' \in 0 .. MaxEvents
      BY <1>2, Counted
    <2> QED BY <1>2, <1>3, <2>1, <2>2, Files DEF Typed
  <1>6. run' = run /\ (~maker.watch => ~Running(p))
    BY <1>1, <1>2, Unengaged
  <1> QED BY <1>1, <1>4, <1>5, <1>6, TickEnds

LEMMA Declined ==
  ASSUME TickInv, NEW b, NEW s, resp' = PostDecline(b, s)
  PROVE  /\ Grown
         /\ b \in Blocks /\ s \in SlotIds => resp'[b][s] # "none"
  <1> DEFINE answers == [i \in {s} |-> "decline"]
  <1>1. DOMAIN answers = {s} /\ \A i \in DOMAIN answers : answers[i] \in {"accept", "decline"}
    OBVIOUS
  <1>2. resp' = ReplyTo(b, answers)
    BY DEF PostDecline
  <1> HIDE DEF answers
  <1> QED BY <1>1, <1>2, Replied, Files

\* A row whose first request is dealt with.
LEMMA LeftRow ==
  ASSUME NEW me \in Row, Rowed(me), me.pc = "handle", NEW s \in me.todo
  PROVE  LET left == [me EXCEPT !.todo = @ \ {s}, !.pc = IF me.todo = {s} THEN After(me.part) ELSE @]
         IN /\ left \in Row /\ Rowed(left) /\ left.todo = me.todo \ {s} /\ left.part = me.part
            /\ left.pc = IF me.todo = {s} THEN After(me.part) ELSE "handle"
            /\ left.ctx = me.ctx /\ left.off = me.off /\ left.seen = me.seen
            /\ left.hand = me.hand /\ left.threw = me.threw
  <1> DEFINE pc == IF me.todo = {s} THEN After(me.part) ELSE me.pc
             left == [me EXCEPT !.todo = @ \ {s}, !.pc = pc]
  <1>1. pc \in Pcs /\ (me.todo = {s} => pc = After(me.part)) /\ (me.todo # {s} => pc = "handle")
    BY DEF Pcs, After
  <1>2. me.ctx \in Blocks
    BY DEF Rowed
  <1> HIDE DEF pc
  <1>3. /\ left \in Row /\ left.todo = me.todo \ {s} /\ left.part = me.part /\ left.pc = pc
        /\ left.ctx = me.ctx /\ left.off = me.off /\ left.seen = me.seen
        /\ left.hand = me.hand /\ left.threw = me.threw
    BY <1>1 DEF Row
  <1> HIDE DEF left
  <1>4. Rowed(left)
    BY <1>1, <1>2, <1>3 DEF Rowed, After
  <1> QED BY <1>1, <1>3, <1>4 DEF left, pc

LEMMA HandleInv ==
  ASSUME TickInv, NEW p \in Procs, Handle(p)
  PROVE  TickInv'
  <1> DEFINE me == proc[p]
             s == Min(me.todo)
             left == [me EXCEPT !.todo = @ \ {s}, !.pc = IF me.todo = {s} THEN After(me.part) ELSE @]
             held == [left EXCEPT !.hand = TRUE]
             polls == [held EXCEPT !.pc = "poll"]
             grown == resp' = resp \/ resp' = PostDecline(me.ctx, s)
  <1>1. /\ me.pc = "handle"
        /\ UNCHANGED <<setup, book, req, taker, posted, st, sess, coins, flag, run>>
    BY DEF Handle
  <1>2. /\ \/ resp' = PostDecline(me.ctx, s) /\ proc' = [proc EXCEPT ![p] = left] /\ UNCHANGED lock
           \/ Throwing(p)
           \/ proc' = [proc EXCEPT ![p] = held] /\ UNCHANGED lock
           \/ proc' = [proc EXCEPT ![p] = polls] /\ UNCHANGED lock
        /\ grown
        /\ UNCHANGED events \/ \E w : Fault(w)
    BY DEF Handle
  <1>3. ~maker.watch => ~Running(p)
    BY <1>1, Unengaged
  <1>4. me \in Row /\ Rowed(me) /\ Looked(me, resp)
    BY Own
  <1>5. Throwing(p) =>
          /\ \/ Ends(p)
             \/ proc' = [proc EXCEPT ![p] = [me EXCEPT !.pc = "grace", !.todo = {}]] /\ UNCHANGED lock
             \/ /\ proc' = [proc EXCEPT ![p] = [me EXCEPT !.pc = "act", !.todo = {}, !.threw = TRUE]]
                /\ UNCHANGED lock
          /\ me.part = "guard" =>
               proc' = [proc EXCEPT ![p] = [me EXCEPT !.pc = "act", !.todo = {}, !.threw = TRUE]]
    <2>1. me.part \in {"offer", "grace", "guard"}
      BY <1>4 DEF Row
    <2> QED BY <1>4, <2>1 DEF Throwing
  <1>6. Typed
    <2>1. lock' = lock \/ lock' = Free
      BY <1>2, <1>5 DEF Ends
    <2>2. lock' \in LockRow
      <3>1. Free \in LockRow /\ lock \in LockRow
        BY Files DEF Free, LockRow
      <3> QED BY <2>1, <3>1
    <2>3. events' \in 0 .. MaxEvents
      BY <1>2, Counted
    <2> QED BY <1>1, <2>2, <2>3, Files DEF Typed
  <1> HIDE DEF me
  <1>7. me.todo # {} /\ me.todo \subseteq SlotIds /\ me.ctx \in Blocks
    BY <1>1, <1>4 DEF Rowed, Row
  <1>8. s \in me.todo
    BY <1>7, MinIn DEF SlotIds
  <1>9. Grown /\ RvTypeOK' /\ FiniteReq'
    <2>1. Grown
      BY <1>2, Declined, Files DEF RvTypeOK, Grown
    <2> QED BY <1>1, <2>1, Files DEF RvTypeOK, FiniteReq, Grown
  <1>10. resp' = PostDecline(me.ctx, s) => resp'[me.ctx][s] # "none"
    BY <1>7, <1>8, Declined
  <1> HIDE DEF s
  <1>11. /\ left \in Row /\ Rowed(left) /\ left.todo = me.todo \ {s} /\ left.part = me.part
         /\ left.pc = IF me.todo = {s} THEN After(me.part) ELSE "handle"
         /\ left.ctx = me.ctx /\ left.off = me.off /\ left.seen = me.seen
         /\ left.hand = me.hand /\ left.threw = me.threw
    BY <1>1, <1>4, <1>8, LeftRow
  <1> HIDE DEF left
  <1>12. PICK r \in Row : \/ r = Asleep /\ Ends(p)
                          \/ Rowed(r) /\ Looked(r, resp') /\ proc' = [proc EXCEPT ![p] = r]
    <2>1. CASE resp' = PostDecline(me.ctx, s) /\ proc' = [proc EXCEPT ![p] = left]
      <3>1. Looked(me, resp')
        BY <1>4, <1>9, StillLooked DEF Row
      <3>2. Looked(left, resp')
        BY <1>1, <1>7, <1>10, <1>11, <2>1, <3>1 DEF Looked, After
      <3> QED BY <1>11, <2>1, <3>2
    <2>2. CASE proc' = [proc EXCEPT ![p] = held]
      <3>1. /\ held \in Row /\ held.todo = left.todo /\ held.pc = left.pc
            /\ held.ctx = left.ctx /\ held.hand
        BY <1>11 DEF Row
      <3> HIDE DEF held
      <3>2. Rowed(held) /\ Looked(held, resp')
        BY <1>11, <3>1 DEF Rowed, Looked
      <3> QED BY <2>2, <3>1, <3>2
    <2>3. CASE proc' = [proc EXCEPT ![p] = polls]
      <3>1. /\ polls \in Row /\ polls.pc = "poll" /\ polls.ctx = left.ctx /\ polls.hand
        BY <1>11 DEF Row, Pcs
      <3> HIDE DEF polls
      <3>2. Rowed(polls) /\ Looked(polls, resp')
        BY <1>7, <1>11, <3>1 DEF Rowed, Looked
      <3> QED BY <2>3, <3>1, <3>2
    <2>4. CASE Throwing(p)
      <3>1. CASE proc' = [proc EXCEPT ![p] = [me EXCEPT !.pc = "grace", !.todo = {}]]
        <4> DEFINE r == [me EXCEPT !.pc = "grace", !.todo = {}]
        <4>1. /\ r \in Row /\ r.todo = {} /\ r.pc = "grace" /\ r.seen = me.seen
              /\ r.hand = me.hand /\ r.threw = me.threw
          BY <1>4 DEF Row, Pcs
        <4>2. CASE me.seen = {} \/ me.hand \/ me.threw
          <5> HIDE DEF r
          <5>1. Rowed(r) /\ Looked(r, resp')
            BY <4>1, <4>2, Bare
          <5> QED BY <3>1, <4>1, <5>1 DEF r
        <4>3. CASE ~(me.seen = {} \/ me.hand \/ me.threw)
          <5>1. me.part = "guard"
            BY <1>4, <4>3 DEF Looked
          <5>2. proc' = [proc EXCEPT ![p] = [me EXCEPT !.pc = "act", !.todo = {}, !.threw = TRUE]]
            BY <1>5, <2>4, <5>1
          <5> DEFINE u == [me EXCEPT !.pc = "act", !.todo = {}, !.threw = TRUE]
          <5>3. u.pc = "act" /\ proc' = [proc EXCEPT ![p] = u] /\ proc' = [proc EXCEPT ![p] = r]
            BY <1>4, <3>1, <5>2 DEF Row
          <5> HIDE DEF u, r
          <5>4. proc'[p] = u /\ proc'[p] = r
            BY <5>3, Own
          <5> QED BY <4>1, <5>3, <5>4
        <4> QED BY <4>2, <4>3
      <3>2. CASE proc' = [proc EXCEPT ![p] = [me EXCEPT !.pc = "act", !.todo = {}, !.threw = TRUE]]
        <4> DEFINE r == [me EXCEPT !.pc = "act", !.todo = {}, !.threw = TRUE]
        <4>1. r \in Row /\ r.todo = {} /\ r.pc = "act" /\ r.threw
          BY <1>4 DEF Row, Pcs
        <4>2. proc' = [proc EXCEPT ![p] = r]
          BY <3>2
        <4> HIDE DEF r
        <4>3. Rowed(r) /\ Looked(r, resp')
          BY <4>1, Bare
        <4> QED BY <4>1, <4>2, <4>3
      <3>3. CASE Ends(p)
        BY <3>3, AsleepRow
      <3> QED BY <1>5, <2>4, <3>1, <3>2, <3>3
    <2> QED BY <1>2, <2>1, <2>2, <2>3, <2>4
  <1> QED BY <1>1, <1>3, <1>6, <1>9, <1>12, TickEnds, TickMoves

\* What a poll leaves: grown replies, and at most a settlement on its block, of a
\* request there that had no reply if it is a fresh one, and has one now.
Polls(p, x) ==
    LET b == proc[p].ctx
    IN /\ Placed(x) /\ x.at = "ceremony" /\ x.b = b
       /\ req[b][x.s] = {x.t} /\ resp'[b][x.s] # "none"
       /\ x.fresh <=> resp[b][x.s] = "none"

LEMMA PollEffect ==
  ASSUME TickInv, NEW p \in Procs, Poll(p)
  PROVE  /\ Grown
         /\ \/ /\ proc' = [proc EXCEPT ![p].pc = Onward(proc[p])] /\ UNCHANGED <<run, flag>>
            \/ \E x \in RunRow : /\ Polls(p, x) /\ Starts(p, "settle", x)
                                 /\ proc' = [proc EXCEPT ![p].pc =
                                       IF maker.watch THEN Onward(proc[p]) ELSE "settling"]
  <1> DEFINE b == proc[p].ctx
             fits == Fits(proc[p].pr)
             replies == PollReplies(b, fits)
             good == Pollable(b, fits)
             pick == Min(good)
             x == [at |-> "ceremony", b |-> b, s |-> pick, t |-> TakerAt(b, pick),
                   fresh |-> resp[b][pick] = "none"]
  <1>1. b \in Blocks
    BY Own DEF Poll, Rowed
  <1>2. PICK sent \in SUBSET DOMAIN replies :
          /\ resp' = ReplyTo(b, [s \in sent |-> replies[s]])
          /\ \/ /\ good # {} /\ pick \in sent
                /\ Starts(p, "settle", x)
                /\ Goes(p, IF maker.watch THEN Onward(proc[p]) ELSE "settling")
             \/ Goes(p, Onward(proc[p])) /\ UNCHANGED <<run, flag>>
    BY DEF Poll
  <1> DEFINE answers == [s \in sent |-> replies[s]]
  <1>3. \A s \in DOMAIN answers : answers[s] \in {"accept", "decline"}
    BY Polled
  <1>4. DOMAIN answers = sent /\ resp' = ReplyTo(b, answers)
    BY <1>2
  <1> HIDE DEF answers
  <1>5. Grown /\ \A s \in sent \cap SlotIds : resp'[b][s] # "none"
    BY <1>1, <1>3, <1>4, Replied, Files
  <1>6. CASE good # {} /\ pick \in sent
    <2>1. good \in SUBSET Nat
      BY DEF Pollable, SlotIds
    <2>2. pick \in good
      BY <1>6, <2>1, MinIn
    <2>3. pick \in SlotIds /\ Valid(b, pick)
      BY <2>2 DEF Pollable
    <2> HIDE DEF pick
    <2>4. TakerAt(b, pick) \in Takers /\ req[b][pick] = {TakerAt(b, pick)}
      <3>1. PICK t : req[b][pick] = {t}
        BY <1>1, <2>3, FS_Singleton, Files DEF Valid, FiniteReq
      <3>2. t \in Takers
        BY <1>1, <2>3, <3>1, Files DEF RvTypeOK
      <3> QED BY <3>1, <3>2 DEF TakerAt
    <2>5. resp'[b][pick] # "none"
      BY <1>5, <1>6, <2>3
    <2> HIDE DEF b
    <2>6. x \in RunRow /\ Placed(x)
      BY <1>1, <2>3, <2>4 DEF RunRow, Placed
    <2>7. Polls(p, x)
      BY <2>4, <2>5, <2>6 DEF Polls, b
    <2> HIDE DEF x
    <2> QED BY <1>2, <1>5, <2>6, <2>7 DEF Goes
  <1>7. CASE ~(good # {} /\ pick \in sent)
    BY <1>2, <1>5, <1>7 DEF Goes
  <1> QED BY <1>6, <1>7

\* A coroutine starts.
LEMMA StartsTyped ==
  ASSUME TickInv, NEW p \in Procs, NEW k \in Kinds, NEW x \in RunRow, Starts(p, k, x)
  PROVE  /\ flag' \in Flags
         /\ run' \in [Procs -> [Kinds -> RunRow]]
         /\ run'[p][k] = x
         /\ \A q \in Procs, j \in Kinds : <<q, j>> # <<p, k>> => run'[q][j] = run[q][j]
  <1>1. run \in [Procs -> [Kinds -> RunRow]] /\ run' = [run EXCEPT ![p][k] = x]
    BY Own DEF Starts
  <1>2. /\ run' \in [Procs -> [Kinds -> RunRow]] /\ run'[p][k] = x
        /\ \A q \in Procs, j \in Kinds : <<q, j>> # <<p, k>> => run'[q][j] = run[q][j]
    BY <1>1
  <1>3. flag' = flag \/ flag' = [flag EXCEPT ![Home(p)][k] = x.s]
    BY DEF Starts
  <1>4. x.s \in SlotIds /\ flag \in [Procs -> [Kinds -> SlotIds \cup {Clear}]]
    BY Files DEF RunRow, Flags
  <1>5. [flag[Home(p)] EXCEPT ![k] = x.s] \in [Kinds -> SlotIds \cup {Clear}]
    BY <1>4, Homes
  <1>6. flag' \in Flags
    BY <1>3, <1>4, <1>5, Homes DEF Flags
  <1> QED BY <1>2, <1>6

LEMMA PollInv ==
  ASSUME TickInv, NEW p \in Procs, Poll(p)
  PROVE  TickInv'
  <1> DEFINE me == proc[p]
  <1>1. /\ me.pc = "poll" /\ UNCHANGED <<setup, book, req, taker, posted, st, sess, coins, lock>>
        /\ UNCHANGED events \/ \E w : Fault(w)
    BY DEF Poll
  <1>2. me \in Row /\ Rowed(me)
    BY Own
  <1>3. ~maker.watch => ~Running(p)
    BY <1>1, Unengaged
  <1>4. Grown /\ RvTypeOK' /\ FiniteReq'
    BY <1>1, PollEffect, Files DEF RvTypeOK, FiniteReq, Grown
  <1>5. ASSUME NEW pc \in {Onward(me), "settling"}
        PROVE  LET r == [me EXCEPT !.pc = pc]
               IN r \in Row /\ r.pc = pc /\ Rowed(r) /\ Looked(r, resp')
    <2> DEFINE r == [me EXCEPT !.pc = pc]
    <2>1. pc \in Pcs /\ (pc # "settling" => pc = Onward(me))
      BY DEF Pcs, Onward, After
    <2>2. /\ r \in Row /\ r.pc = pc /\ r.todo = me.todo /\ r.hand = me.hand /\ r.ctx = me.ctx
      BY <1>2, <2>1 DEF Row
    <2> HIDE DEF r, me
    <2>3. Rowed(r) /\ Looked(r, resp')
      BY <1>1, <1>2, <2>1, <2>2 DEF Rowed, Looked, Onward, After
    <2> QED BY <2>2, <2>3 DEF r
  <1>6. CASE proc' = [proc EXCEPT ![p].pc = Onward(me)] /\ UNCHANGED <<run, flag>>
    <2> DEFINE r == [me EXCEPT !.pc = Onward(me)]
    <2>1. r \in Row /\ Rowed(r) /\ Looked(r, resp')
      BY <1>5
    <2>2. proc' = [proc EXCEPT ![p] = r]
      BY <1>6, Own
    <2>3. Typed
      BY <1>1, <1>6, Files, Counted DEF Typed
    <2> HIDE DEF r
    <2> QED BY <1>3, <1>4, <1>6, <2>1, <2>2, <2>3, TickMoves
  <1>7. CASE \E x \in RunRow : /\ Polls(p, x) /\ Starts(p, "settle", x)
                               /\ proc' = [proc EXCEPT ![p].pc =
                                       IF maker.watch THEN Onward(me) ELSE "settling"]
    <2>1. PICK x \in RunRow : /\ Polls(p, x) /\ Starts(p, "settle", x)
                              /\ proc' = [proc EXCEPT ![p].pc =
                                       IF maker.watch THEN Onward(me) ELSE "settling"]
      BY <1>7
    <2> DEFINE pc == IF maker.watch THEN Onward(me) ELSE "settling"
               r == [me EXCEPT !.pc = pc]
    <2>2. pc \in {Onward(me), "settling"} /\ (~maker.watch => pc = "settling")
      OBVIOUS
    <2> HIDE DEF pc
    <2>3. r \in Row /\ r.pc = pc /\ Rowed(r) /\ Looked(r, resp')
      BY <1>5, <2>2
    <2>4. proc' = [proc EXCEPT ![p] = r]
      BY <2>1, Own DEF pc
    <2> HIDE DEF r
    <2>5. /\ flag' \in Flags /\ run' \in [Procs -> [Kinds -> RunRow]] /\ run'[p]["settle"] = x
          /\ \A q \in Procs, j \in Kinds : <<q, j>> # <<p, "settle">> => run'[q][j] = run[q][j]
      BY <2>1, StartsTyped DEF Kinds
    <2>6. Typed
      BY <1>1, <2>5, Files, Counted DEF Typed
    <2>7. /\ \A q \in Procs \ {p} : run'[q] = run[q]
          /\ \A k \in Kinds : Placed(run'[p][k])
          /\ run'[p]["resume"] = run[p]["resume"]
      <3>1. \A q \in Procs \ {p} : run'[q] = run[q]
        BY <2>1, Own DEF Starts
      <3>2. run'[p]["resume"] = run[p]["resume"]
        BY <2>5 DEF Kinds
      <3>3. \A k \in Kinds : Placed(run'[p][k])
        BY <2>1, <2>5, <3>2, Own DEF Polls, Kinds
      <3> QED BY <3>1, <3>2, <3>3
    <2>8. proc'[p].pc = pc /\ maker' = maker
      BY <1>1, <2>3, <2>4, Own DEF setup
    <2>9. ~maker.watch => run[p]["resume"].at = "off"
      BY <1>3 DEF Running, Busy, Kinds
    <2>10. Waits(p)'
      BY <2>2, <2>7, <2>8, <2>9, Own DEF Waits, Busy
    <2> QED BY <1>4, <2>3, <2>4, <2>5, <2>6, <2>7, <2>10, Moves
  <1> QED BY <1>6, <1>7, PollEffect

-----------------------------------------------------------------------------
(* The steps of the coroutines and of the surroundings keep it.            *)

\* Where a coroutine goes on, with the markers it writes.
LEMMA RunGoesInv ==
  ASSUME TickInv, NEW p \in Procs, NEW k \in Kinds,
         NEW at \in {"stake", "record", "ready", "finish"},
         RunGoes(p, k, at), Busy(p, k), UNCHANGED <<rvVars, proc>>, Typed
  PROVE  TickInv'
  <1> DEFINE x == [run[p][k] EXCEPT !.at = at]
  <1>1. run[p][k] \in RunRow /\ Placed(run[p][k]) /\ run[p][k].at # "off"
    BY Own DEF Busy
  <1>2. x \in RunRow /\ x.at = at /\ x.b = run[p][k].b /\ x.t = run[p][k].t
    BY <1>1 DEF RunRow
  <1>3. run' = [run EXCEPT ![p][k] = x]
    BY Own DEF RunGoes
  <1> HIDE DEF x
  <1>4. Placed(x) /\ x.at # "ceremony"
    BY <1>1, <1>2 DEF Placed
  <1> QED BY <1>2, <1>3, <1>4, RunMoves

LEMMA StopsTyped ==
  ASSUME TickInv, NEW p \in Procs, NEW k \in Kinds, Stops(p, k)
  PROVE  flag' \in Flags
  <1>1. flag' = [flag EXCEPT ![Home(p)][k] = Clear] /\ Home(p) \in Procs
    BY Homes DEF Stops
  <1>2. flag \in [Procs -> [Kinds -> SlotIds \cup {Clear}]]
    BY Files DEF Flags
  <1>3. [flag[Home(p)] EXCEPT ![k] = Clear] \in [Kinds -> SlotIds \cup {Clear}]
    BY <1>1, <1>2
  <1> QED BY <1>1, <1>2, <1>3 DEF Flags

LEMMA StopsInv ==
  ASSUME TickInv, NEW p \in Procs, NEW k \in Kinds, Stops(p, k), Busy(p, k),
         \/ proc' = proc
         \/ /\ ~maker.watch /\ k = "settle"
            /\ proc' = [proc EXCEPT ![p].off = NoBlock],
         UNCHANGED rvVars, Typed
  PROVE  TickInv'
  <1>1. Off.at # "ceremony" /\ run' = [run EXCEPT ![p][k] = Off]
    BY DEF Off, Stops
  <1> QED BY <1>1, AsleepRow, RunMoves

\* A coroutine writes to its block's session file, and may clear the offer.
LEMMA Marked ==
  ASSUME TickInv, sess' \in [Blocks -> FileRow], coins' \in Purse, flag' \in Flags,
         st' \in {st, [st EXCEPT !.offer = NoBlock]},
         UNCHANGED events \/ \E w : Fault(w),
         UNCHANGED <<setup, posted, lock>>
  PROVE  Typed
  <1>1. st' \in StateRow
    BY Files DEF StateRow
  <1> QED BY <1>1, Files, Counted DEF Typed

LEMMA Markers ==
  ASSUME TickInv, NEW b
  PROVE  /\ \A t \in Takers : [sess EXCEPT ![b].party = t] \in [Blocks -> FileRow]
         /\ [sess EXCEPT ![b].moved = TRUE] \in [Blocks -> FileRow]
         /\ [sess EXCEPT ![b].ready = TRUE] \in [Blocks -> FileRow]
         /\ [sess EXCEPT ![b].done = TRUE] \in [Blocks -> FileRow]
         /\ [sess EXCEPT ![b] = NoSession] \in [Blocks -> FileRow]
         /\ sess \in [Blocks -> FileRow]
  <1>1. sess \in [Blocks -> FileRow]
    BY Files
  <1>2. ASSUME NEW f \in FileRow
        PROVE  /\ \A t \in Takers : [f EXCEPT !.party = t] \in FileRow
               /\ [f EXCEPT !.moved = TRUE] \in FileRow
               /\ [f EXCEPT !.ready = TRUE] \in FileRow
               /\ [f EXCEPT !.done = TRUE] \in FileRow
    BY DEF FileRow
  <1>3. ASSUME NEW f \in FileRow
        PROVE  [sess EXCEPT ![b] = f] \in [Blocks -> FileRow]
    BY <1>1
  <1>4. NoSession \in FileRow
    BY DEF NoSession, FileRow
  <1>5. CASE b \in Blocks
    <2>1. sess[b] \in FileRow
      BY <1>1, <1>5
    <2>2. /\ \A t \in Takers : [sess EXCEPT ![b] = [sess[b] EXCEPT !.party = t]] \in [Blocks -> FileRow]
          /\ [sess EXCEPT ![b] = [sess[b] EXCEPT !.moved = TRUE]] \in [Blocks -> FileRow]
          /\ [sess EXCEPT ![b] = [sess[b] EXCEPT !.ready = TRUE]] \in [Blocks -> FileRow]
          /\ [sess EXCEPT ![b] = [sess[b] EXCEPT !.done = TRUE]] \in [Blocks -> FileRow]
      BY <1>2, <1>3, <2>1
    <2> QED BY <1>1, <1>3, <1>4, <2>2
  <1>6. CASE b \notin Blocks
    BY <1>1, <1>6
  <1> QED BY <1>5, <1>6

\* The coins of one deal change.
LEMMA Coined ==
  ASSUME TickInv, NEW t, NEW c \in {"home", "staked", "back", "twice"},
         coins' = [coins EXCEPT ![t] = c]
  PROVE  coins' \in Purse /\ \A u \in Takers : coins'[u] = IF u = t THEN c ELSE coins[u]
  BY Files DEF Purse

\* Where a coroutine goes from its stake, and what leaves.
LEMMA StakeEffect ==
  ASSUME TickInv, NEW p \in Procs, NEW k \in Kinds, Stake(p, k)
  PROVE  LET r == run[p][k] IN
         /\ r.at = "stake" /\ coins' \in Purse
         /\ UNCHANGED <<setup, rvVars, posted, st, sess, lock, flag, proc, events>>
         /\ \/ /\ sess[r.b].moved /\ coins' = coins
               /\ RunGoes(p, k, "ready") \/ RunGoes(p, k, "finish")
            \/ /\ ~sess[r.b].moved /\ RunGoes(p, k, "record")
               /\ \A u \in Takers : u # r.t => coins'[u] = coins[u]
               /\ coins'[r.t] = IF coins[r.t] = "home" THEN "staked" ELSE "twice"
  <1> DEFINE r == run[p][k]
             c == IF coins[r.t] = "home" THEN "staked" ELSE "twice"
  <1>1. r.at = "stake" /\ r.t \in Takers
    BY Own DEF Stake, Placed
  <1>2. CASE sess[r.b].moved
    BY <1>1, <1>2, Files DEF Stake, Staked
  <1>3. CASE ~sess[r.b].moved
    <2>1. c \in {"home", "staked", "back", "twice"} /\ coins' = [coins EXCEPT ![r.t] = c]
      BY <1>3 DEF Stake
    <2>2. coins' \in Purse /\ \A u \in Takers : coins'[u] = IF u = r.t THEN c ELSE coins[u]
      BY <2>1, Coined
    <2> QED BY <1>1, <1>3, <2>2 DEF Stake
  <1> QED BY <1>2, <1>3

LEMMA FinishEffect ==
  ASSUME TickInv, NEW p \in Procs, NEW k \in Kinds, Finish(p, k)
  PROVE  LET r == run[p][k] IN
         /\ coins' \in Purse
         /\ \A u \in Takers : u # r.t => coins'[u] = coins[u]
         /\ coins'[r.t] = IF coins[r.t] = "staked" THEN "back" ELSE coins[r.t]
  <1> DEFINE r == run[p][k]
             c == IF coins[r.t] = "staked" THEN "back" ELSE coins[r.t]
  <1>1. r.t \in Takers
    BY Own DEF Finish, Placed
  <1>2. c \in {"home", "staked", "back", "twice"} /\ coins' = [coins EXCEPT ![r.t] = c]
    <2>1. coins[r.t] \in {"home", "staked", "back", "twice"}
      BY <1>1, Files DEF Purse
    <2>2. coins' = [coins EXCEPT ![r.t] = c]
      BY DEF Finish
    <2>3. c \in {"home", "staked", "back", "twice"}
      BY <2>1
    <2> QED BY <2>2, <2>3
  <1> HIDE DEF c
  <1>3. coins' \in Purse /\ \A u \in Takers : coins'[u] = IF u = r.t THEN c ELSE coins[u]
    BY <1>2, Coined
  <1> QED BY <1>1, <1>3 DEF c

LEMMA RunStepInv ==
  ASSUME TickInv, NEW p \in Procs, NEW k \in Kinds, RunStep(p, k) \/ Throws(p, k)
  PROVE  TickInv'
  <1> DEFINE r == run[p][k]
  <1>0. "settle" \in Kinds /\ coins \in Purse /\ flag \in Flags
    BY Files DEF Kinds
  <1>1. CASE k = "settle" /\ Ceremony(p)
    <2>1. Busy(p, k) /\ r.t \in Takers
      BY <1>1, Own DEF Ceremony, Busy, Placed
    <2>2. Typed
      BY <1>0, <1>1, <2>1, Marked, Markers DEF Ceremony
    <2>3. RunGoes(p, k, "stake") /\ UNCHANGED <<rvVars, proc>>
      BY <1>1 DEF Ceremony
    <2> QED BY <2>1, <2>2, <2>3, RunGoesInv
  <1>2. CASE Stake(p, k)
    <2>1. Busy(p, k) /\ Typed /\ UNCHANGED <<rvVars, proc>>
      BY <1>2, StakeEffect, Files DEF Busy, Typed
    <2>2. RunGoes(p, k, "ready") \/ RunGoes(p, k, "finish") \/ RunGoes(p, k, "record")
      BY <1>2, StakeEffect
    <2> QED BY <2>1, <2>2, RunGoesInv
  <1>3. CASE Record(p, k)
    <2>1. Busy(p, k) /\ UNCHANGED <<rvVars, proc>>
      BY <1>3 DEF Record, Busy
    <2>2. Typed
      BY <1>0, <1>3, Marked, Markers DEF Record
    <2>3. RunGoes(p, k, "ready") \/ RunGoes(p, k, "finish")
      BY <1>3 DEF Record, Staked
    <2> QED BY <2>1, <2>2, <2>3, RunGoesInv
  <1>4. CASE Decline(p, k)
    <2>1. Busy(p, k) /\ Stops(p, k) /\ UNCHANGED <<rvVars, proc>>
      BY <1>4 DEF Decline, Busy
    <2>2. Typed
      <3>1. flag' \in Flags
        BY <2>1, StopsTyped
      <3> QED BY <1>0, <1>4, <3>1, Marked, Markers DEF Decline
    <2> QED BY <2>1, <2>2, StopsInv
  <1>5. CASE Ready(p, k)
    <2>1. Busy(p, k) /\ RunGoes(p, k, "finish") /\ UNCHANGED <<rvVars, proc>>
      BY <1>5 DEF Ready, Busy
    <2>2. Typed
      BY <1>0, <1>5, Marked, Markers DEF Ready
    <2> QED BY <2>1, <2>2, RunGoesInv
  <1>6. CASE Finish(p, k)
    <2>1. /\ Busy(p, k) /\ Stops(p, k) /\ UNCHANGED rvVars
          /\ \/ proc' = proc
             \/ ~maker.watch /\ k = "settle" /\ proc' = [proc EXCEPT ![p].off = NoBlock]
      BY <1>6 DEF Finish, Busy
    <2>2. Typed
      <3>1. flag' \in Flags /\ coins' \in Purse
        BY <1>6, <2>1, StopsTyped, FinishEffect
      <3> QED BY <1>6, <3>1, Marked, Markers DEF Finish
    <2> QED BY <2>1, <2>2, StopsInv
  <1>7. CASE Throws(p, k)
    <2>1. Busy(p, k) /\ Stops(p, k) /\ UNCHANGED <<rvVars, proc>>
      BY <1>7 DEF Throws
    <2>2. Typed
      <3>1. flag' \in Flags
        BY <2>1, StopsTyped
      <3> QED BY <1>0, <1>7, <3>1, Marked, Markers DEF Throws
    <2> QED BY <2>1, <2>2, StopsInv
  <1> QED BY <1>1, <1>2, <1>3, <1>4, <1>5, <1>6, <1>7 DEF RunStep

\* What a death leaves.
LEMMA CrashEffect ==
  ASSUME TickInv, NEW p \in Procs, Crash(p)
  PROVE  /\ \A q \in Procs : IF q \in Mates(p)
                             THEN proc'[q] = Asleep /\ \A k \in Kinds : run'[q][k] = Off
                             ELSE proc'[q] = proc[q] /\ run'[q] = run[q]
         /\ proc' \in [Procs -> Row] /\ run' \in [Procs -> [Kinds -> RunRow]]
         /\ sess' \in [Blocks -> FileRow]
         /\ "torn" \notin windows => sess' = sess
         /\ UNCHANGED <<setup, rvVars, coins>>
  <1>1. /\ proc' = [q \in Procs |-> IF q \in Mates(p) THEN Asleep ELSE proc[q]]
        /\ run' = [q \in Procs |-> IF q \in Mates(p) THEN [k \in Kinds |-> Off] ELSE run[q]]
        /\ UNCHANGED <<setup, rvVars, coins>>
    BY DEF Crash
  <1>2. /\ sess' = sess \/ \E b \in Blocks : sess' = [sess EXCEPT ![b] = NoSession]
        /\ "torn" \notin windows => sess' = sess
    <2>1. CASE sess' = sess
      BY <2>1
    <2>2. CASE sess' # sess
      <3>1. "torn" \in windows /\ \E b \in Blocks : sess' = [sess EXCEPT ![b] = NoSession]
        BY <2>2 DEF Crash
      <3> QED BY <3>1
    <2> QED BY <2>1, <2>2
  <1>3. proc' \in [Procs -> Row] /\ run' \in [Procs -> [Kinds -> RunRow]]
    BY <1>1, Own, AsleepRow
  <1>4. sess' \in [Blocks -> FileRow]
    BY <1>2, Markers
  <1>5. \A q \in Procs : IF q \in Mates(p)
                        THEN proc'[q] = Asleep /\ \A k \in Kinds : run'[q][k] = Off
                        ELSE proc'[q] = proc[q] /\ run'[q] = run[q]
    BY <1>1
  <1> QED BY <1>1, <1>2, <1>3, <1>4, <1>5

LEMMA CrashInv ==
  ASSUME TickInv, NEW p \in Procs, Crash(p)
  PROVE  TickInv'
  <1>1. RvTypeOK' /\ FiniteReq' /\ Grown
    BY CrashEffect, SameReplies
  <1>2. Typed
    <2>1. lock' \in LockRow
      <3>1. [lock EXCEPT !.dead = TRUE] \in LockRow /\ lock \in LockRow
        BY Files DEF LockRow
      <3> QED BY <3>1 DEF Crash
    <2>2. flag' \in Flags
      BY Files, Homes DEF Crash, Flags
    <2>3. st' \in StateRow
      BY Files DEF Crash, StateRow, Blank
    <2>4. events' \in 0 .. MaxEvents
      BY Counted DEF Crash
    <2>5. posted' = posted
      BY DEF Crash
    <2> QED BY <2>1, <2>2, <2>3, <2>4, <2>5, Files, CrashEffect DEF Typed
  <1>3. TypeOK' /\ maker' = maker /\ resp' = resp
    BY <1>1, <1>2, CrashEffect, StillTyped DEF setup, rvVars
  <1>4. ASSUME NEW q \in Procs
        PROVE  /\ Rowed(proc'[q]) /\ Looked(proc'[q], resp') /\ Waits(q)'
               /\ \A k \in Kinds : Placed(run'[q][k])
    <2>1. CASE q \in Mates(p)
      <3>1. proc'[q] = Asleep /\ \A k \in Kinds : run'[q][k] = Off
        BY <2>1, CrashEffect
      <3> QED BY <3>1, AsleepRow DEF Waits, Busy, Off, Kinds
    <2>2. CASE q \notin Mates(p)
      <3>1. proc'[q] = proc[q] /\ run'[q] = run[q]
        BY <2>2, CrashEffect
      <3> QED BY <1>3, <3>1, Own DEF Waits, Busy
    <2> QED BY <2>1, <2>2
  <1> QED BY <1>1, <1>3, <1>4 DEF TickInv

LEMMA CommandInv ==
  ASSUME TickInv, Command
  PROVE  TickInv'
  <1>1. /\ UNCHANGED <<setup, req, taker, coins, lock, flag, proc, run>>
        /\ events' \in 0 .. MaxEvents
    BY Counted DEF Command
  <1>2. /\ Grown /\ book' \in Blocks \cup {NoBlock} /\ posted' \in 0 .. MaxBlocks
        /\ st' \in StateRow /\ sess' \in [Blocks -> FileRow]
    <2>0. /\ posted \in 0 .. MaxBlocks /\ book \in Blocks \cup {NoBlock}
          /\ resp' = resp => Grown
          /\ \A b \in Blocks \cup {NoBlock} : [st EXCEPT !.offer = b] \in StateRow
      BY Files DEF RvTypeOK, Grown, StateRow
    <2>1. CASE \E b \in Blocks : Abandon(b)
      <3>1. PICK b \in Blocks : Abandon(b)
        BY <2>1
      <3>2. sess' \in [Blocks -> FileRow]
        BY <3>1, Markers DEF Abandon
      <3>3. UNCHANGED <<book, resp, posted, st>>
        BY <3>1 DEF Abandon
      <3> QED BY <2>0, <3>2, <3>3, Files
    <2>2. CASE WithdrawOffer
      BY <2>0, <2>2, Markers, Files DEF WithdrawOffer
    <2>3. CASE PostOffer
      <3>1. posted + 1 \in Blocks /\ posted + 1 \in 0 .. MaxBlocks
        BY <2>0, <2>3 DEF PostOffer, Blocks
      <3> QED BY <2>0, <2>3, <3>1, Markers, Files DEF PostOffer
    <2>4. CASE \E s \in SlotIds : DeclineSlot(s)
      BY <2>0, <2>4, Markers, Files, Declined DEF DeclineSlot
    <2> QED BY <2>1, <2>2, <2>3, <2>4 DEF Command
  <1>3. Typed
    BY <1>1, <1>2, Files DEF Typed
  <1>4. RvTypeOK' /\ FiniteReq'
    BY <1>1, <1>2, Files DEF RvTypeOK, FiniteReq, Grown
  <1> QED BY <1>1, <1>2, <1>3, <1>4, WorldMoves

LEMMA TickInvNext == TickInv /\ [Next]_vars => TickInv'
  <1> SUFFICES ASSUME TickInv, [Next]_vars PROVE TickInv'
    OBVIOUS
  <1>1. CASE \E p \in Procs : TickStart(p) \/ TickStep(p) \/ Crash(p)
    BY <1>1, TickStartInv, ResumeInv, AwaitedInv, LoadInv, GraceInv, HandleInv, PollInv,
       StatusInv, ActInv, CrashInv DEF TickStep
  <1>2. CASE \E p \in Procs : \E k \in Kinds : RunStep(p, k) \/ Throws(p, k)
    BY <1>2, RunStepInv
  <1>3. CASE Command
    BY <1>3, CommandInv
  <1>4. CASE GraceLapses
    <2>1. Typed
      <3>1. PICK b \in st.recent : st' = [st EXCEPT !.recent = @ \ {b}]
        BY <1>4 DEF GraceLapses
      <3>2. st' \in StateRow
        BY <3>1, Files DEF StateRow
      <3> QED BY <1>4, <3>2, Files DEF GraceLapses, Typed
    <2> QED BY <1>4, <2>1, SameReplies, WorldMoves DEF GraceLapses
  <1>5. CASE Taking
    <2>1. PICK t \in Takers : TakerNext(t) /\ UNCHANGED agVars
      BY <1>5 DEF Taking
    <2>2. RvTypeOK' /\ FiniteReq' /\ Grown
      BY <2>1, TakerSteps, Files DEF RvTypeOK, Grown
    <2>3. Typed /\ UNCHANGED <<proc, run>>
      BY <2>1, Files DEF agVars, Typed
    <2> QED BY <2>2, <2>3, WorldMoves
  <1>6. CASE UNCHANGED vars
    <2>1. Typed /\ UNCHANGED <<proc, run, rvVars>>
      BY <1>6, Files DEF vars, agVars, Typed
    <2> QED BY <2>1, SameReplies, WorldMoves
  <1> QED BY <1>1, <1>2, <1>3, <1>4, <1>5, <1>6 DEF Next

LEMMA TickInvariant == Spec => []TickInv
  BY TickInvInit, TickInvNext, PTL DEF Spec

-----------------------------------------------------------------------------
(* A take that was seen is answered before its block is pulled.            *)

\* The book changes in the last step of a tick, or by a command.
LEMMA BookSteps ==
  ASSUME TickInv, Next, book' # book, NEW p \in Procs, proc'[p] # proc[p]
  PROVE  Act(p) \/ PullNow(p)
  <1>1. ~Taking /\ ~Command /\ ~GraceLapses
    <2>1. ~Taking
      BY TakerSteps, Files DEF Taking
    <2>2. ~Command
      BY DEF Command
    <2>3. ~GraceLapses
      BY DEF GraceLapses, rvVars
    <2> QED BY <2>1, <2>2, <2>3
  <1>2. PICK q \in Procs : \/ TickStart(q) \/ TickStep(q) \/ Crash(q)
                           \/ \E k \in Kinds : RunStep(q, k) \/ Throws(q, k)
    BY <1>1 DEF Next
  <1>3. ~TickStart(q) /\ ~Crash(q)
    BY DEF TickStart, Crash, rvVars
  <1>4. \A k \in Kinds : ~RunStep(q, k) /\ ~Throws(q, k)
    BY DEF RunStep, Ceremony, Stake, Record, Decline, Ready, Finish, Throws, rvVars
  <1>5. ~Resume(q) /\ ~Awaited(q) /\ ~Load(q) /\ ~Grace(q) /\ ~Status(q)
    BY DEF Resume, Awaited, Load, Grace, Status, rvVars
  <1>6. ~Handle(q) /\ ~Poll(q)
    BY DEF Handle, Poll
  <1>7. Act(q) \/ PullNow(q)
    BY <1>2, <1>3, <1>4, <1>5, <1>6 DEF TickStep
  <1>8. q # p => proc'[p] = proc[p]
    BY <1>7, Own DEF Act, PullNow, Ends
  <1> QED BY <1>7, <1>8

\* No tick ends having pulled or replaced a block whose takes its last look
\* showed while one of them is unanswered, unless answering one threw: for any
\* processes, deaths, commands, failing calls and windows.
THEOREM TakesAnswered == Spec => NoOrphan
  <1>1. TickInv /\ [Next]_vars =>
          [\A p \in Procs : \A s \in proc[p].seen :
             book' # book /\ proc[p].pc = "act" /\ proc'[p].pc = "idle" /\ ~proc[p].threw
             => resp[proc[p].off][s] # "none"]_vars
    <2> SUFFICES ASSUME TickInv, Next, NEW p \in Procs, NEW s \in proc[p].seen,
                        book' # book, proc[p].pc = "act", proc'[p].pc = "idle",
                        ~proc[p].threw
                 PROVE  resp[proc[p].off][s] # "none"
      OBVIOUS
    <2>1. Act(p)
      BY BookSteps DEF PullNow
    <2>2. ~proc[p].hand
      BY <2>1 DEF Act, Holds
    <2>3. Looked(proc[p], resp) /\ Rowed(proc[p])
      BY Own
    <2> QED BY <2>2, <2>3 DEF Looked, Rowed
  <1> QED BY <1>1, TickInvariant, PTL DEF Spec, NoOrphan

-----------------------------------------------------------------------------
(* The coins of a deal leave once.                                         *)

\* A taker's request lies in one box.
Boxed == \A t \in Takers, b, c \in Blocks, s, u \in SlotIds :
           t \in req[b][s] => /\ taker[t].pc \notin {"idle", "slotted"}
                              /\ t \in req[c][u] => b = c /\ s = u

Fresh(r) == r.at # "off" /\ r.fresh

\* A settlement is of a replied box, and past its ceremony of a first reply; two
\* of first replies are of two takers; its coins are home until it sends them,
\* and a resume sends none.
Sent ==
  \A p \in Procs :
    LET r == run[p]["settle"]
        x == run[p]["resume"]
    IN /\ r.at # "off" => r.t \in req[r.b][r.s] /\ resp[r.b][r.s] # "none"
       /\ Past(r) => r.fresh
       /\ r.at = "ceremony" /\ r.fresh => coins[r.t] = "home"
       /\ r.at = "stake" => sess[r.b].moved \/ coins[r.t] = "home"
       /\ \A q \in Procs \ {p} : Fresh(r) /\ Fresh(run[q]["settle"]) => r.t # run[q]["settle"].t
       /\ x.at = "stake" => sess[x.b].moved
       /\ x.at # "record"

\* The coins of a deal that are not home left after a reply to its taker.
Spent ==
  \A t \in Takers :
    /\ coins[t] # "home" =>
         \E b \in Blocks, s \in SlotIds : t \in req[b][s] /\ resp[b][s] # "none"
    /\ coins[t] # "twice"

LEMMA OnceInit == Init => Boxed /\ Sent /\ Spent
  <1> SUFFICES ASSUME Init PROVE Boxed /\ Sent /\ Spent
    OBVIOUS
  <1>1. \A b \in Blocks, s \in SlotIds : req[b][s] = {}
    BY DEF Init, RvInit
  <1>2. \A p \in Procs, k \in Kinds : run[p][k] = Off
    BY DEF Init
  <1>3. \A t \in Takers : coins[t] = "home"
    BY DEF Init
  <1>4. Boxed
    BY <1>1 DEF Boxed
  <1>5. Sent
    BY <1>2 DEF Sent, Off, Past, Fresh, Kinds
  <1>6. Spent
    BY <1>3 DEF Spent
  <1> QED BY <1>4, <1>5, <1>6

\* Requests and replies are never removed.
Gathers == Grown /\ \A b \in Blocks, s \in SlotIds : req[b][s] \subseteq req'[b][s]

LEMMA Gathered ==
  ASSUME TickInv, [Next]_vars
  PROVE  Gathers
  <1>1. UNCHANGED <<req, resp>> => Gathers
    BY Files DEF Gathers, Grown, RvTypeOK
  <1>2. ASSUME NEW p \in Procs, TickStart(p) \/ TickStep(p) \/ Crash(p) PROVE Gathers
    <2>1. CASE Handle(p)
      <3>1. req' = req /\ (resp' = resp \/ \E b, s : resp' = PostDecline(b, s))
        BY <2>1 DEF Handle
      <3>2. resp' # resp => Grown
        BY <3>1, Declined
      <3> QED BY <1>1, <3>1, <3>2 DEF Gathers
    <2>2. CASE Poll(p)
      BY <2>2, PollEffect DEF Poll, Gathers
    <2>3. CASE ~Handle(p) /\ ~Poll(p)
      <3>1. CASE TickStart(p) \/ Awaited(p) \/ Crash(p)
        BY <1>1, <3>1 DEF TickStart, Awaited, Crash, rvVars
      <3>4. CASE Resume(p) \/ Load(p)
        BY <1>1, <3>4 DEF Resume, Load, rvVars
      <3>2. CASE Grace(p) \/ Status(p)
        BY <1>1, <3>2 DEF Grace, Status, rvVars
      <3>3. CASE Act(p) \/ PullNow(p)
        BY <1>1, <3>3 DEF Act, PullNow
      <3> QED BY <1>2, <2>3, <3>1, <3>2, <3>3, <3>4 DEF TickStep
    <2> QED BY <2>1, <2>2, <2>3
  <1>3. ASSUME NEW p \in Procs, NEW k \in Kinds, RunStep(p, k) \/ Throws(p, k) PROVE Gathers
    BY <1>1, <1>3 DEF RunStep, Ceremony, Stake, Record, Decline, Ready, Finish, Throws, rvVars
  <1>4. CASE Command
    <2>1. req' = req /\ (resp' = resp \/ \E s \in SlotIds : resp' = PostDecline(st.offer, s))
      BY <1>4 DEF Command, Abandon, WithdrawOffer, PostOffer, DeclineSlot
    <2>2. resp' # resp => Grown
      BY <2>1, Declined
    <2> QED BY <1>1, <2>1, <2>2 DEF Gathers
  <1>5. CASE GraceLapses \/ UNCHANGED vars
    BY <1>1, <1>5 DEF GraceLapses, vars, rvVars
  <1>6. CASE Taking
    <2>1. PICK t \in Takers : TakerNext(t)
      BY <1>6 DEF Taking
    <2>2. resp' = resp /\ Grown
      BY <2>1, TakerSteps, Files DEF Grown, RvTypeOK
    <2>3. \A b \in Blocks, s \in SlotIds : req[b][s] \subseteq req'[b][s]
      <3>1. req \in [Blocks -> [SlotIds -> SUBSET Takers]]
        BY Files DEF RvTypeOK
      <3>2. req' = req \/ req' = [req EXCEPT ![taker[t].b][taker[t].s] = @ \cup {t}]
        BY <2>1 DEF TakerNext, TakeOffer, PostTake, ReadReply, Leave
      <3> QED BY <3>1, <3>2
    <2> QED BY <2>2, <2>3 DEF Gathers
  <1> QED BY <1>2, <1>3, <1>4, <1>5, <1>6 DEF Next

LEMMA BoxedNext ==
  ASSUME TickInv, Boxed, [Next]_vars
  PROVE  Boxed'
  <1>1. CASE UNCHANGED <<req, taker>>
    BY <1>1 DEF Boxed
  <1>2. CASE Taking
    <2>1. PICK t \in Takers : TakerNext(t)
      BY <1>2 DEF Taking
    <2>2. /\ taker \in [Takers -> Taker] /\ req \in [Blocks -> [SlotIds -> SUBSET Takers]]
      BY Files DEF RvTypeOK, Taker
    <2>3. CASE PostTake(t)
      <3> DEFINE b == taker[t].b
                 s == taker[t].s
      <3>1. /\ taker[t].pc = "slotted" /\ taker' = [taker EXCEPT ![t] = [@ EXCEPT !.pc = "waiting"]]
            /\ req' = [req EXCEPT ![b][s] = @ \cup {t}]
        BY <2>3 DEF PostTake, TakerGoes
      <3>2. taker'[t].pc = "waiting" /\ \A u \in Takers \ {t} : taker'[u] = taker[u]
        <4>1. taker[t] \in Taker
          BY <2>2
        <4>2. [taker[t] EXCEPT !.pc = "waiting"].pc = "waiting"
          BY <4>1 DEF Taker
        <4> QED BY <2>2, <3>1, <4>2
      <3>3. \A c \in Blocks, u \in SlotIds : t \notin req[c][u]
        BY <3>1 DEF Boxed
      <3> HIDE DEF b, s
      <3>4. \A c \in Blocks, u \in SlotIds :
              \/ req'[c][u] = req[c][u]
              \/ c = b /\ u = s /\ req'[c][u] = req[c][u] \cup {t}
        BY <2>2, <3>1
      <3> QED BY <3>2, <3>3, <3>4 DEF Boxed
    <2>4. CASE ~PostTake(t)
      <3> DEFINE Out(pc) == pc \notin {"idle", "slotted"}
      <3>1. CASE TakeOffer(t)
        <4>1. taker[t].pc = "idle" /\ req' = req /\ \A u \in Takers \ {t} : taker'[u] = taker[u]
          BY <2>2, <3>1 DEF TakeOffer, TakerGoes
        <4> QED BY <4>1 DEF Boxed
      <3>2. CASE ReadReply(t) \/ Leave(t)
        <4>1. PICK pc \in {"accepted", "gone"} : TakerGoes(t, pc)
          BY <3>2 DEF ReadReply, Leave
        <4>2. taker[t] \in Taker /\ req' = req
          BY <2>2, <3>2 DEF ReadReply, Leave
        <4> DEFINE v == IF pc = "gone" THEN Gone ELSE [taker[t] EXCEPT !.pc = pc]
        <4>3. taker' = [taker EXCEPT ![t] = v]
          BY <4>1, <2>2 DEF TakerGoes
        <4>4. Out(v.pc)
          BY <4>2 DEF Gone, Taker
        <4> HIDE DEF v
        <4>5. \A u \in Takers : (u = t /\ Out(taker'[u].pc)) \/ taker'[u] = taker[u]
          BY <2>2, <4>3, <4>4
        <4> QED BY <4>2, <4>5 DEF Boxed
      <3> QED BY <2>1, <2>4, <3>1, <3>2 DEF TakerNext
    <2> QED BY <2>3, <2>4
  <1>3. CASE ~Taking
    <2>1. ASSUME NEW p \in Procs, TickStart(p) \/ TickStep(p) \/ Crash(p) PROVE UNCHANGED <<req, taker>>
      <3>1. CASE TickStart(p) \/ Awaited(p) \/ Crash(p)
        BY <3>1 DEF TickStart, Awaited, Crash, rvVars
      <3>4. CASE Resume(p) \/ Load(p)
        BY <3>4 DEF Resume, Load, rvVars
      <3>2. CASE Grace(p) \/ Status(p)
        BY <3>2 DEF Grace, Status, rvVars
      <3>3. CASE Handle(p) \/ Poll(p) \/ Act(p) \/ PullNow(p)
        BY <3>3 DEF Handle, Poll, Act, PullNow
      <3> QED BY <2>1, <3>1, <3>2, <3>3, <3>4 DEF TickStep
    <2>2. ASSUME NEW p \in Procs, NEW k \in Kinds, RunStep(p, k) \/ Throws(p, k)
          PROVE  UNCHANGED <<req, taker>>
      BY <2>2 DEF RunStep, Ceremony, Stake, Record, Decline, Ready, Finish, Throws, rvVars
    <2>3. CASE Command \/ GraceLapses \/ UNCHANGED vars
      BY <1>1, <2>3 DEF Command, GraceLapses, vars, rvVars
    <2> QED BY <1>1, <1>3, <2>1, <2>2, <2>3 DEF Next
  <1> QED BY <1>2, <1>3

\* A file's funding is not forgotten.
Remembers == \A b \in Blocks : sess[b].moved => sess'[b].moved

LEMMA SpentGoes ==
  ASSUME Spent, Gathers, \A t \in Takers : coins'[t] # "twice",
         \A t \in Takers : coins'[t] # "home" => coins[t] # "home"
  PROVE  Spent'
  <1> SUFFICES ASSUME NEW t \in Takers, coins'[t] # "home"
               PROVE  \E b \in Blocks, s \in SlotIds : t \in req'[b][s] /\ resp'[b][s] # "none"
    BY DEF Spent
  <1>1. PICK b \in Blocks, s \in SlotIds : t \in req[b][s] /\ resp[b][s] # "none"
    BY DEF Spent
  <1> QED BY <1>1 DEF Gathers, Grown

\* No coins leave and no coroutine starts.
LEMMA SentGoes ==
  ASSUME TickInv, Sent, Spent, Gathers, Remembers, coins' = coins,
         \A p \in Procs, k \in Kinds : run'[p][k] \in {run[p][k], Off}
  PROVE  Sent' /\ Spent'
  <1>1. Spent'
    BY SpentGoes DEF Spent
  <1>2. ASSUME NEW p \in Procs
        PROVE  LET r == run[p]["settle"]
                   x == run[p]["resume"]
               IN /\ r.at # "off" => r.b \in Blocks /\ r.s \in SlotIds
                  /\ x.at # "off" => x.b \in Blocks
                  /\ run'[p]["settle"] \in {r, Off} /\ run'[p]["resume"] \in {x, Off}
    BY Own DEF Placed, RunRow, Kinds
  <1>3. Off.at = "off"
    BY DEF Off
  <1>4. \A p \in Procs : LET r == run[p]["settle"] IN
          r.at # "off" => /\ r.t \in req'[r.b][r.s] /\ resp'[r.b][r.s] # "none"
                          /\ sess[r.b].moved => sess'[r.b].moved
    BY <1>2 DEF Sent, Gathers, Grown, Remembers
  <1>5. \A p \in Procs : LET x == run[p]["resume"] IN x.at = "stake" => sess'[x.b].moved
    BY <1>2 DEF Sent, Remembers
  <1>6. Sent'
    BY <1>2, <1>3, <1>4, <1>5 DEF Sent, Fresh, Past
  <1> QED BY <1>1, <1>6

\* A coroutine goes on or ends; when coins leave, it is by a settlement of a
\* first reply that is about to record it.
LEMMA SentRuns ==
  ASSUME TickInv, Sent, Spent, Gathers, Remembers, NEW p \in Procs, NEW k \in Kinds,
         NEW r, r = run[p][k], r.at # "off", NEW x, x = run'[p][k],
         \A q \in Procs, j \in Kinds : <<q, j>> # <<p, k>> => run'[q][j] = run[q][j],
         \/ x = Off
         \/ /\ x.b = r.b /\ x.s = r.s /\ x.t = r.t /\ x.fresh = r.fresh
            /\ x.at \in {"stake", "record", "ready", "finish"}
            /\ k = "settle" => r.fresh
            /\ x.at = "stake" => k = "settle" /\ coins'[r.t] = "home"
            /\ x.at = "record" => k = "settle",
         \A u \in Takers : u # r.t => coins'[u] = coins[u],
         coins'[r.t] # "twice",
         \/ coins[r.t] = "home" => coins'[r.t] = "home"
         \/ k = "settle" /\ r.fresh /\ x.at = "record"
  PROVE  Sent' /\ Spent'
  <1>1. r.t \in Takers /\ r.b \in Blocks /\ r.s \in SlotIds
    BY Own DEF Placed, RunRow
  <1>2. Off.at = "off"
    BY DEF Off
  <1>3. Spent'
    <2>1. ASSUME NEW t \in Takers, coins'[t] # "home"
          PROVE  \E b \in Blocks, s \in SlotIds : t \in req'[b][s] /\ resp'[b][s] # "none"
      <3>1. CASE coins[t] # "home"
        <4>1. PICK b \in Blocks, s \in SlotIds : t \in req[b][s] /\ resp[b][s] # "none"
          BY <3>1 DEF Spent
        <4> QED BY <4>1 DEF Gathers, Grown
      <3>2. CASE coins[t] = "home"
        <4>1. t = r.t /\ k = "settle"
          BY <2>1, <3>2
        <4>2. t \in req[r.b][r.s] /\ resp[r.b][r.s] # "none"
          BY <4>1 DEF Sent
        <4> QED BY <1>1, <4>2 DEF Gathers, Grown
      <3> QED BY <3>1, <3>2
    <2>2. \A t \in Takers : coins'[t] # "twice"
      BY DEF Spent
    <2> QED BY <2>1, <2>2 DEF Spent
  <1>4. ASSUME NEW q \in Procs
        PROVE  LET y == run[q]["settle"]
                   z == run[q]["resume"]
               IN /\ y.at # "off" => y.b \in Blocks /\ y.s \in SlotIds /\ y.t \in Takers
                  /\ z.at # "off" => z.b \in Blocks
                  /\ <<q, "settle">> # <<p, k>> => run'[q]["settle"] = y
                  /\ <<q, "resume">> # <<p, k>> => run'[q]["resume"] = z
    BY Own DEF Placed, RunRow, Kinds
  <1>5. ASSUME NEW q \in Procs
        PROVE  LET y == run[q]["settle"] IN
               y.at # "off" => y.t \in req'[y.b][y.s] /\ resp'[y.b][y.s] # "none"
    <2> DEFINE y == run[q]["settle"]
    <2>1. y.at # "off" => y.b \in Blocks /\ y.s \in SlotIds
      BY <1>4
    <2>2. y.at # "off" => y.t \in req[y.b][y.s] /\ resp[y.b][y.s] # "none"
      BY DEF Sent
    <2> HIDE DEF y
    <2>3. y.at # "off" => y.t \in req'[y.b][y.s] /\ resp'[y.b][y.s] # "none"
      BY <2>1, <2>2 DEF Gathers, Grown
    <2> QED BY <2>3 DEF y
  <1>6. ASSUME NEW q \in Procs, <<q, "settle">> # <<p, k>>
        PROVE  LET y == run[q]["settle"] IN
               /\ y.at = "ceremony" /\ y.fresh => coins'[y.t] = "home"
               /\ y.at = "stake" => sess'[y.b].moved \/ coins'[y.t] = "home"
    <2> DEFINE y == run[q]["settle"]
    <2>0. /\ Past(y) => y.fresh
          /\ y.at = "ceremony" /\ y.fresh => coins[y.t] = "home"
          /\ y.at = "stake" => sess[y.b].moved \/ coins[y.t] = "home"
          /\ y.at # "off" => y.b \in Blocks /\ y.t \in Takers
      BY <1>4 DEF Sent
    <2>1. CASE coins[y.t] = "home" => coins'[y.t] = "home"
      <3> HIDE DEF y
      <3>1. y.at = "stake" => sess'[y.b].moved \/ coins'[y.t] = "home"
        BY <2>0, <2>1 DEF Remembers
      <3>2. y.at = "ceremony" /\ y.fresh => coins'[y.t] = "home"
        BY <2>0, <2>1
      <3> QED BY <3>1, <3>2 DEF y
    <2>2. CASE ~(coins[y.t] = "home" => coins'[y.t] = "home")
      <3>1. y.at # "off" => y.t = r.t
        BY <2>0, <2>2
      <3>2. y.at # "off" => k = "settle" /\ r.fresh /\ q # p
        BY <1>6, <2>2, <3>1
      <3>3. ~Fresh(y)
        <4> SUFFICES ASSUME Fresh(y) PROVE FALSE
          OBVIOUS
        <4>1. k = "settle" /\ q # p /\ Fresh(r) /\ y.t = r.t
          BY <3>1, <3>2 DEF Fresh
        <4> QED BY <4>1 DEF Sent
      <3> QED BY <2>0, <3>3 DEF Fresh, Past
    <2> QED BY <2>1, <2>2
  <1>7. ASSUME NEW q \in Procs
        PROVE  LET y == run'[q]["settle"] IN
               /\ y.at # "off" => y.t \in req'[y.b][y.s] /\ resp'[y.b][y.s] # "none"
               /\ Past(y) => y.fresh
               /\ y.at = "ceremony" /\ y.fresh => coins'[y.t] = "home"
               /\ y.at = "stake" => sess'[y.b].moved \/ coins'[y.t] = "home"
               /\ Fresh(y) => Fresh(run[q]["settle"]) /\ y.t = run[q]["settle"].t
    <2>1. CASE <<q, "settle">> # <<p, k>>
      <3>1. run'[q]["settle"] = run[q]["settle"]
        BY <1>4, <2>1
      <3> DEFINE y == run[q]["settle"]
                 z == run'[q]["settle"]
      <3>2. /\ Past(y) => y.fresh
            /\ y.at # "off" => y.t \in req'[y.b][y.s] /\ resp'[y.b][y.s] # "none"
            /\ y.at = "ceremony" /\ y.fresh => coins'[y.t] = "home"
            /\ y.at = "stake" => sess'[y.b].moved \/ coins'[y.t] = "home"
        BY <1>5, <1>6, <2>1 DEF Sent
      <3>3. z = y
        BY <3>1
      <3> HIDE DEF y, z
      <3>4. /\ z.at # "off" => z.t \in req'[z.b][z.s] /\ resp'[z.b][z.s] # "none"
            /\ Past(z) => z.fresh
            /\ z.at = "ceremony" /\ z.fresh => coins'[z.t] = "home"
            /\ z.at = "stake" => sess'[z.b].moved \/ coins'[z.t] = "home"
            /\ Fresh(z) => Fresh(y) /\ z.t = y.t
        BY <3>2, <3>3
      <3> QED BY <3>4 DEF y, z
    <2>2. CASE <<q, "settle">> = <<p, k>>
      <3>1. run'[q]["settle"] = x /\ run[q]["settle"] = r /\ k = "settle"
        BY <2>2
      <3>2. CASE x = Off
        BY <1>2, <3>1, <3>2 DEF Past, Fresh
      <3>3. CASE x # Off
        <4>1. /\ x.b = r.b /\ x.s = r.s /\ x.t = r.t /\ x.fresh = r.fresh /\ r.fresh
              /\ x.at \in {"stake", "record", "ready", "finish"}
              /\ x.at = "stake" => coins'[r.t] = "home"
          BY <3>1, <3>3
        <4>2. x.t \in req'[x.b][x.s] /\ resp'[x.b][x.s] # "none"
          <5>1. LET y == run[q]["settle"] IN
                y.at # "off" => y.t \in req'[y.b][y.s] /\ resp'[y.b][y.s] # "none"
            BY <1>5
          <5>2. r.t \in req'[r.b][r.s] /\ resp'[r.b][r.s] # "none"
            BY <3>1, <5>1, Zenon
          <5>3. x.b = r.b /\ x.s = r.s /\ x.t = r.t
            BY <4>1
          <5> QED BY <5>2, <5>3, Zenon
        <4>3. /\ Past(x) => x.fresh
              /\ ~(x.at = "ceremony")
              /\ x.at = "stake" => coins'[x.t] = "home"
          BY <4>1
        <4>4. Fresh(r) /\ x.t = r.t
          BY <4>1 DEF Fresh
        <4> QED BY <3>1, <4>2, <4>3, <4>4
      <3> QED BY <3>2, <3>3
    <2> QED BY <2>1, <2>2
  <1>8. ASSUME NEW q \in Procs
        PROVE  LET y == run'[q]["resume"] IN
               /\ y.at = "stake" => sess'[y.b].moved
               /\ y.at # "record"
    <2> DEFINE y == run[q]["resume"]
    <2>1. CASE <<q, "resume">> # <<p, k>>
      <3>1. run'[q]["resume"] = y
        BY <1>4, <2>1
      <3>2. y.at = "stake" => y.b \in Blocks /\ sess[y.b].moved
        BY <1>4 DEF Sent
      <3>3. y.at # "record"
        BY DEF Sent
      <3> HIDE DEF y
      <3> QED BY <3>1, <3>2, <3>3 DEF Remembers
    <2>2. CASE <<q, "resume">> = <<p, k>>
      BY <1>2, <2>2
    <2> QED BY <2>1, <2>2
  <1>9. ASSUME NEW q \in Procs, NEW u \in Procs, q # u,
               Fresh(run'[q]["settle"]), Fresh(run'[u]["settle"])
        PROVE  run'[q]["settle"].t # run'[u]["settle"].t
    <2>1. /\ Fresh(run[q]["settle"]) /\ run'[q]["settle"].t = run[q]["settle"].t
          /\ Fresh(run[u]["settle"]) /\ run'[u]["settle"].t = run[u]["settle"].t
      BY <1>7, <1>9
    <2>2. run[q]["settle"].t # run[u]["settle"].t
      BY <1>9, <2>1 DEF Sent
    <2> QED BY <2>1, <2>2
  <1>10. Sent'
    BY <1>7, <1>8, <1>9 DEF Sent
  <1> QED BY <1>3, <1>10

\* What a run writes in its block's file.
LEMMA Marking ==
  ASSUME TickInv, NEW b
  PROVE  /\ \A t \in Takers : LET s == [sess EXCEPT ![b].party = t] IN
              \A c \in Blocks : /\ c # b => s[c] = sess[c]
                                /\ c = b => /\ s[c].party = t /\ s[c].moved = sess[c].moved
                                            /\ s[c].done = sess[c].done
         /\ LET s == [sess EXCEPT ![b].done = TRUE] IN
              \A c \in Blocks : /\ c # b => s[c] = sess[c]
                                /\ s[c].party = sess[c].party /\ s[c].moved = sess[c].moved
         /\ \A s \in {[sess EXCEPT ![b].moved = TRUE], [sess EXCEPT ![b].ready = TRUE]} :
              \A c \in Blocks : /\ s[c].party = sess[c].party /\ s[c].done = sess[c].done
                                /\ sess[c].moved => s[c].moved
         /\ b \in Blocks => [sess EXCEPT ![b].moved = TRUE][b].moved
  <1>1. sess \in [Blocks -> FileRow]
    BY Markers
  <1>2. ASSUME NEW f \in FileRow
        PROVE  /\ \A t \in Takers : LET g == [f EXCEPT !.party = t] IN
                    g.party = t /\ g.moved = f.moved /\ g.done = f.done
               /\ LET g == [f EXCEPT !.moved = TRUE] IN
                    g.party = f.party /\ g.moved /\ g.done = f.done
               /\ LET g == [f EXCEPT !.ready = TRUE] IN
                    g.party = f.party /\ g.moved = f.moved /\ g.done = f.done
               /\ LET g == [f EXCEPT !.done = TRUE] IN
                    g.party = f.party /\ g.moved = f.moved
    BY DEF FileRow
  <1>3. ASSUME b \in Blocks, NEW g
        PROVE  LET s == [sess EXCEPT ![b] = g] IN
               s[b] = g /\ \A c \in Blocks \ {b} : s[c] = sess[c]
    BY <1>1, <1>3
  <1>4. CASE b \notin Blocks
    BY <1>1, <1>4
  <1>5. CASE b \in Blocks
    <2>1. sess[b] \in FileRow
      BY <1>1, <1>5
    <2> DEFINE m == [sess[b] EXCEPT !.moved = TRUE]
               r == [sess[b] EXCEPT !.ready = TRUE]
               d == [sess[b] EXCEPT !.done = TRUE]
               q(t) == [sess[b] EXCEPT !.party = t]
    <2>2. /\ [sess EXCEPT ![b].moved = TRUE] = [sess EXCEPT ![b] = m]
          /\ [sess EXCEPT ![b].ready = TRUE] = [sess EXCEPT ![b] = r]
          /\ [sess EXCEPT ![b].done = TRUE] = [sess EXCEPT ![b] = d]
          /\ \A t \in Takers : [sess EXCEPT ![b].party = t] = [sess EXCEPT ![b] = q(t)]
      OBVIOUS
    <2>3. /\ m.party = sess[b].party /\ m.moved /\ m.done = sess[b].done
          /\ r.party = sess[b].party /\ r.moved = sess[b].moved /\ r.done = sess[b].done
          /\ d.party = sess[b].party /\ d.moved = sess[b].moved
          /\ \A t \in Takers : /\ q(t).party = t /\ q(t).moved = sess[b].moved
                               /\ q(t).done = sess[b].done
      BY <1>2, <2>1
    <2> HIDE DEF m, r, d, q
    <2> QED BY <1>3, <1>5, <2>2, <2>3
  <1> QED BY <1>4, <1>5

\* What auto-resume does to the files, and what it starts.
LEMMA ResumeEffect ==
  ASSUME TickInv, NEW p \in Procs, Resume(p)
  PROVE  /\ UNCHANGED <<setup, rvVars, posted, st, coins, lock, events>>
         /\ \A b \in Blocks : \/ sess'[b] = sess[b]
                              \/ /\ Droppable(b) /\ sess'[b] = [sess[b] EXCEPT !.done = TRUE]
         /\ \/ UNCHANGED <<run, flag>>
            \/ /\ ~Engaged(p)
               /\ \E x \in RunRow :
                    /\ Starts(p, "resume", x)
                    /\ x.at = "stake" /\ ~x.fresh /\ x.t = sess[x.b].party
                    /\ x.b \in Blocks /\ x.b \in Unfinished /\ Resumable(x.b)
                    /\ sess'[x.b] = sess[x.b]
  <1> DEFINE ready == {b \in Unfinished : Resumable(b)}
             here == IF ready = {} THEN NoBlock ELSE Min(ready)
             x == [Off EXCEPT !.at = "stake", !.b = here, !.t = sess[here].party]
  <1>1. UNCHANGED <<setup, rvVars, posted, st, coins, lock, events>>
    BY DEF Resume
  <1>2. ASSUME NEW b \in Blocks
        PROVE  \/ sess'[b] = sess[b]
               \/ /\ Droppable(b) /\ sess'[b] = [sess[b] EXCEPT !.done = TRUE]
    <2>1. sess' = sess \/ sess' = [c \in Blocks |->
                      IF c \in Unfinished \cap (IF ready = {} THEN Blocks ELSE 1 .. Min(ready))
                         /\ Droppable(c)
                      THEN [sess[c] EXCEPT !.done = TRUE] ELSE sess[c]]
      BY DEF Resume
    <2> HIDE DEF ready
    <2> QED BY <2>1
  <1>3. \/ UNCHANGED <<run, flag>>
        \/ ~Engaged(p) /\ here # NoBlock /\ Starts(p, "resume", x)
    BY DEF Resume
  <1>4. CASE ~Engaged(p) /\ here # NoBlock /\ Starts(p, "resume", x)
    <2>1. ready # {} /\ ready \in SUBSET Nat
      BY <1>4 DEF Unfinished, Blocks
    <2>2. here \in ready
      BY <2>1, MinIn
    <2>3. here \in Blocks /\ here \in Unfinished /\ Resumable(here) /\ ~Droppable(here)
      BY <2>2 DEF Unfinished, Droppable
    <2>4. sess'[here] = sess[here]
      BY <1>2, <2>3
    <2> HIDE DEF here
    <2>5. sess[here].party \in Takers
      BY <2>3, Files DEF Unfinished, FileRow
    <2>6. /\ x \in RunRow /\ x.at = "stake" /\ x.b = here /\ x.t = sess[here].party /\ ~x.fresh
      BY <2>3, <2>5, AsleepRow DEF Off, RunRow
    <2> HIDE DEF x
    <2> QED BY <1>1, <1>2, <1>4, <2>3, <2>4, <2>6
  <1> QED BY <1>1, <1>2, <1>3, <1>4

LEMMA Remembering ==
  ASSUME TickInv, [Next]_vars, "torn" \notin windows
  PROVE  Remembers
  <1>0. sess' = sess => Remembers
    BY DEF Remembers
  <1>1. ASSUME NEW p \in Procs, Resume(p) PROVE Remembers
    <2> SUFFICES ASSUME NEW b \in Blocks, sess[b].moved PROVE sess'[b].moved
      BY DEF Remembers
    <2>1. \/ sess'[b] = sess[b]
          \/ /\ Droppable(b) /\ sess'[b] = [sess[b] EXCEPT !.done = TRUE]
      BY <1>1, ResumeEffect
    <2> QED BY <2>1 DEF Droppable
  <1>2. ASSUME NEW p \in Procs, NEW k \in Kinds, RunStep(p, k) PROVE Remembers
    <2> DEFINE r == run[p][k]
    <2>0. r.at # "off" => r.t \in Takers
      BY Own DEF Placed
    <2>1. CASE k = "settle" /\ Ceremony(p)
      <3>1. r.t \in Takers /\ sess' = [sess EXCEPT ![r.b].party = r.t]
        BY <2>0, <2>1 DEF Ceremony
      <3> QED BY <3>1, Marking DEF Remembers
    <2>2. CASE Stake(p, k)
      BY <1>0, <2>2 DEF Stake
    <2>3. CASE Record(p, k) \/ Ready(p, k)
      BY <2>3, Marking DEF Record, Ready, Remembers
    <2>4. CASE Decline(p, k) \/ Finish(p, k)
      <3>1. sess' = [sess EXCEPT ![r.b].done = TRUE]
        BY <2>4 DEF Decline, Finish
      <3> QED BY <3>1, Marking DEF Remembers
    <2> QED BY <1>2, <2>1, <2>2, <2>3, <2>4 DEF RunStep
  <1>3. ASSUME NEW p \in Procs, TickStart(p) \/ TickStep(p) \/ Crash(p), ~Resume(p) PROVE sess' = sess
    <2>1. CASE TickStart(p) \/ Awaited(p) \/ Load(p) \/ Grace(p)
      BY <2>1 DEF TickStart, Awaited, Load, Grace
    <2>2. CASE Handle(p) \/ Poll(p) \/ Status(p) \/ Act(p) \/ PullNow(p)
      BY <2>2 DEF Handle, Poll, Status, Act, PullNow
    <2>3. CASE Crash(p)
      BY <2>3, CrashEffect
    <2> QED BY <1>3, <2>1, <2>2, <2>3 DEF TickStep
  <1>4. CASE Command
    <2>1. CASE \E b \in Blocks : Abandon(b)
      BY <2>1, Marking DEF Abandon, Remembers
    <2>2. CASE WithdrawOffer \/ PostOffer \/ \E s \in SlotIds : DeclineSlot(s)
      BY <1>0, <2>2 DEF WithdrawOffer, PostOffer, DeclineSlot
    <2> QED BY <1>4, <2>1, <2>2 DEF Command
  <1>5. CASE Taking \/ GraceLapses \/ UNCHANGED vars
    BY <1>0, <1>5 DEF Taking, GraceLapses, vars, agVars
  <1>6. ASSUME NEW p \in Procs, NEW k \in Kinds, Throws(p, k) PROVE sess' = sess
    BY <1>6 DEF Throws
  <1> QED BY <1>0, <1>1, <1>2, <1>3, <1>4, <1>5, <1>6 DEF Next

\* A resume starts over coins that have left.
LEMMA ResumeSent ==
  ASSUME TickInv, Sent, Spent, Gathers, Remembers, NEW p \in Procs, Resume(p)
  PROVE  Sent' /\ Spent'
  <1>1. coins' = coins
    BY ResumeEffect
  <1>2. CASE run' = run
    BY <1>1, <1>2, SentGoes
  <1>3. CASE run' # run
    <2>1. PICK x \in RunRow : /\ Starts(p, "resume", x) /\ x.at = "stake"
                              /\ x.b \in Blocks /\ Resumable(x.b)
                              /\ sess'[x.b] = sess[x.b]
      BY <1>3, ResumeEffect
    <2>2. sess'[x.b].moved
      BY <2>1 DEF Resumable
    <2>3. /\ run'[p]["resume"] = x
          /\ \A q \in Procs : /\ q # p => run'[q]["resume"] = run[q]["resume"]
                              /\ run'[q]["settle"] = run[q]["settle"]
      BY <2>1, StartsTyped DEF Kinds
    <2>4. Spent'
      BY <1>1, SpentGoes DEF Spent
    <2>5. ASSUME NEW q \in Procs
          PROVE  LET r == run'[q]["settle"]
                     y == run'[q]["resume"]
                 IN /\ r.at # "off" => r.t \in req'[r.b][r.s] /\ resp'[r.b][r.s] # "none"
                    /\ Past(r) => r.fresh
                    /\ r.at = "ceremony" /\ r.fresh => coins'[r.t] = "home"
                    /\ r.at = "stake" => sess'[r.b].moved \/ coins'[r.t] = "home"
                    /\ \A u \in Procs \ {q} : Fresh(r) /\ Fresh(run'[u]["settle"]) =>
                                                r.t # run'[u]["settle"].t
                    /\ y.at = "stake" => sess'[y.b].moved
                    /\ y.at # "record"
      <3> DEFINE r == run[q]["settle"]
                 y == run[q]["resume"]
      <3>1. /\ r.at # "off" => r.b \in Blocks /\ r.s \in SlotIds /\ r.t \in Takers
            /\ y.at # "off" => y.b \in Blocks
        BY Own DEF Placed, RunRow, Kinds
      <3>2. /\ r.at # "off" => r.t \in req[r.b][r.s] /\ resp[r.b][r.s] # "none"
            /\ Past(r) => r.fresh
            /\ r.at = "ceremony" /\ r.fresh => coins[r.t] = "home"
            /\ r.at = "stake" => sess[r.b].moved \/ coins[r.t] = "home"
            /\ y.at = "stake" => sess[y.b].moved
            /\ y.at # "record"
        BY DEF Sent
      <3>3. \A u \in Procs \ {q} : Fresh(r) /\ Fresh(run'[u]["settle"]) =>
                                     r.t # run'[u]["settle"].t
        <4> SUFFICES ASSUME NEW u \in Procs \ {q}, Fresh(r), Fresh(run[u]["settle"])
                     PROVE  r.t # run[u]["settle"].t
          BY <2>3
        <4> QED BY DEF Sent
      <3>4. run'[q]["settle"] = r /\ (run'[q]["resume"] = y \/ run'[q]["resume"] = x)
        BY <2>3
      <3> HIDE DEF r, y
      <3>5. /\ r.at # "off" => r.t \in req'[r.b][r.s] /\ resp'[r.b][r.s] # "none"
            /\ r.at = "ceremony" /\ r.fresh => coins'[r.t] = "home"
            /\ r.at = "stake" => sess'[r.b].moved \/ coins'[r.t] = "home"
            /\ y.at = "stake" => sess'[y.b].moved
        BY <1>1, <3>1, <3>2 DEF Gathers, Grown, Remembers
      <3> QED BY <2>1, <2>2, <3>2, <3>3, <3>4, <3>5
    <2>6. Sent'
      BY <2>5 DEF Sent
    <2> QED BY <2>4, <2>6
  <1> QED BY <1>2, <1>3

\* The settlement of a first reply is of a taker nothing was sent for.
LEMMA PollSent ==
  ASSUME TickInv, Boxed, Sent, Spent, Gathers, Remembers, NEW p \in Procs, Poll(p)
  PROVE  Sent' /\ Spent'
  <1>1. coins' = coins /\ sess' = sess
    BY DEF Poll
  <1>2. CASE run' = run
    BY <1>1, <1>2, SentGoes
  <1>3. CASE run' # run
    <2>1. PICK x \in RunRow : Polls(p, x) /\ Starts(p, "settle", x)
      BY <1>3, PollEffect
    <2>2. /\ run'[p]["settle"] = x
          /\ \A q \in Procs : /\ q # p => run'[q]["settle"] = run[q]["settle"]
                              /\ run'[q]["resume"] = run[q]["resume"]
      BY <2>1, StartsTyped DEF Kinds
    <2>3. /\ x.at = "ceremony" /\ x.b \in Blocks /\ x.t \in Takers /\ x.s \in SlotIds
          /\ x.t \in req[x.b][x.s] /\ resp'[x.b][x.s] # "none"
          /\ x.fresh => resp[x.b][x.s] = "none"
      BY <2>1 DEF Polls, Placed, RunRow
    <2>4. \A b \in Blocks, s \in SlotIds : x.t \in req[b][s] => b = x.b /\ s = x.s
      BY <2>3 DEF Boxed
    <2>5. x.fresh => coins[x.t] = "home"
      BY <2>3, <2>4 DEF Spent
    <2>6. ASSUME NEW q \in Procs, x.fresh, Fresh(run[q]["settle"])
          PROVE  run[q]["settle"].t # x.t
      <3> DEFINE r == run[q]["settle"]
      <3>1. /\ r.b \in Blocks /\ r.s \in SlotIds
            /\ r.t \in req[r.b][r.s] /\ resp[r.b][r.s] # "none"
        BY <2>6, Own DEF Fresh, Sent, Placed, RunRow, Kinds
      <3> HIDE DEF r
      <3>2. r.t # x.t
        BY <2>3, <2>4, <2>6, <3>1
      <3> QED BY <3>2 DEF r
    <2>7. Spent'
      BY <1>1, SpentGoes DEF Spent
    <2>8. x.t \in req'[x.b][x.s]
      BY <2>3 DEF Gathers
    <2>9. ASSUME NEW q \in Procs
          PROVE  LET r == run'[q]["settle"]
                     y == run'[q]["resume"]
                 IN /\ r.at # "off" => r.t \in req'[r.b][r.s] /\ resp'[r.b][r.s] # "none"
                    /\ Past(r) => r.fresh
                    /\ r.at = "ceremony" /\ r.fresh => coins'[r.t] = "home"
                    /\ r.at = "stake" => sess'[r.b].moved \/ coins'[r.t] = "home"
                    /\ y.at = "stake" => sess'[y.b].moved
                    /\ y.at # "record"
      <3> DEFINE r == run[q]["settle"]
                 y == run[q]["resume"]
      <3>1. /\ r.at # "off" => r.b \in Blocks /\ r.s \in SlotIds /\ r.t \in Takers
            /\ y.at # "off" => y.b \in Blocks
        BY Own DEF Placed, RunRow, Kinds
      <3>2. /\ r.at # "off" => r.t \in req[r.b][r.s] /\ resp[r.b][r.s] # "none"
            /\ Past(r) => r.fresh
            /\ r.at = "ceremony" /\ r.fresh => coins[r.t] = "home"
            /\ r.at = "stake" => sess[r.b].moved \/ coins[r.t] = "home"
            /\ y.at = "stake" => sess[y.b].moved
            /\ y.at # "record"
        BY DEF Sent
      <3>4. (run'[q]["settle"] = r \/ run'[q]["settle"] = x) /\ run'[q]["resume"] = y
        BY <2>2
      <3> HIDE DEF r, y
      <3>5. /\ r.at # "off" => r.t \in req'[r.b][r.s] /\ resp'[r.b][r.s] # "none"
            /\ r.at = "ceremony" /\ r.fresh => coins'[r.t] = "home"
            /\ r.at = "stake" => sess'[r.b].moved \/ coins'[r.t] = "home"
            /\ y.at = "stake" => sess'[y.b].moved
        BY <1>1, <3>1, <3>2 DEF Gathers, Grown
      <3> QED BY <1>1, <2>3, <2>5, <2>8, <3>2, <3>4, <3>5 DEF Past
    <2>10. ASSUME NEW q \in Procs, NEW u \in Procs \ {q},
                  Fresh(run'[q]["settle"]), Fresh(run'[u]["settle"])
           PROVE  run'[q]["settle"].t # run'[u]["settle"].t
      <3>1. CASE q = p
        BY <2>2, <2>6, <2>10, <3>1 DEF Fresh
      <3>2. CASE u = p
        BY <2>2, <2>6, <2>10, <3>2 DEF Fresh
      <3>3. CASE q # p /\ u # p
        <4>1. Fresh(run[q]["settle"]) /\ Fresh(run[u]["settle"])
          BY <2>2, <2>10, <3>3
        <4>2. run[q]["settle"].t # run[u]["settle"].t
          BY <4>1 DEF Sent
        <4> QED BY <2>2, <3>3, <4>2
      <3> QED BY <3>1, <3>2, <3>3
    <2>11. Sent'
      BY <2>9, <2>10 DEF Sent
    <2> QED BY <2>7, <2>11
  <1> QED BY <1>2, <1>3

LEMMA RunGone ==
  ASSUME TickInv, NEW p \in Procs, NEW k \in Kinds, Stops(p, k)
  PROVE  /\ run'[p][k] = Off
         /\ \A q \in Procs, j \in Kinds : <<q, j>> # <<p, k>> => run'[q][j] = run[q][j]
  BY Own DEF Stops

LEMMA RunWent ==
  ASSUME TickInv, NEW p \in Procs, NEW k \in Kinds, NEW at, RunGoes(p, k, at)
  PROVE  /\ LET r == run[p][k]
                x == run'[p][k]
            IN x.at = at /\ x.b = r.b /\ x.s = r.s /\ x.t = r.t /\ x.fresh = r.fresh
         /\ \A q \in Procs, j \in Kinds : <<q, j>> # <<p, k>> => run'[q][j] = run[q][j]
  <1>1. run \in [Procs -> [Kinds -> RunRow]] /\ run' = [run EXCEPT ![p][k].at = at]
    BY Own DEF RunGoes
  <1>2. run'[p][k] = [run[p][k] EXCEPT !.at = at]
    BY <1>1
  <1>3. run[p][k] \in RunRow
    BY <1>1
  <1>4. \A q \in Procs, j \in Kinds : <<q, j>> # <<p, k>> => run'[q][j] = run[q][j]
    BY <1>1
  <1> QED BY <1>2, <1>3, <1>4 DEF RunRow

LEMMA RunSent ==
  ASSUME TickInv, Sent, Spent, Gathers, Remembers, NEW p \in Procs, NEW k \in Kinds,
         RunStep(p, k) \/ Throws(p, k)
  PROVE  Sent' /\ Spent'
  <1> DEFINE r == run[p][k]
             x == run'[p][k]
  <1>0. r.at # "off" /\ r.t \in Takers
    <2>1. r.at # "off"
      BY DEF RunStep, Ceremony, Stake, Record, Decline, Ready, Finish, Throws, Busy
    <2> QED BY <2>1, Own DEF Placed
  <1>1. \A u \in Takers : coins[u] # "twice"
    BY DEF Spent
  <1>2. k = "settle" /\ Past(r) => r.fresh
    BY DEF Sent
  <1>3. k = "resume" => r.at # "record" /\ (r.at = "stake" => sess[r.b].moved)
    BY DEF Sent
  <1>4. CASE Stops(p, k) /\ coins' = coins
    <2>1. x = Off /\ \A q \in Procs, j \in Kinds : <<q, j>> # <<p, k>> => run'[q][j] = run[q][j]
      BY <1>4, RunGone
    <2> HIDE DEF r, x
    <2> QED BY <1>0, <1>1, <1>4, <2>1, SentRuns DEF r, x
  <1>5. CASE Finish(p, k)
    <2>1. x = Off /\ \A q \in Procs, j \in Kinds : <<q, j>> # <<p, k>> => run'[q][j] = run[q][j]
      BY <1>5, RunGone DEF Finish
    <2>2. /\ \A u \in Takers : u # r.t => coins'[u] = coins[u]
          /\ coins'[r.t] = IF coins[r.t] = "staked" THEN "back" ELSE coins[r.t]
      BY <1>5, FinishEffect
    <2> HIDE DEF r, x
    <2> QED BY <1>0, <1>1, <2>1, <2>2, SentRuns DEF r, x
  <1>6. CASE k = "settle" /\ Ceremony(p)
    <2>1. RunGoes(p, k, "stake") /\ coins' = coins /\ r.fresh /\ r.at = "ceremony"
      BY <1>6 DEF Ceremony
    <2>2. coins[r.t] = "home"
      BY <1>6, <2>1 DEF Sent
    <2>3. /\ x.at = "stake" /\ x.b = r.b /\ x.s = r.s /\ x.t = r.t /\ x.fresh = r.fresh
          /\ \A q \in Procs, j \in Kinds : <<q, j>> # <<p, k>> => run'[q][j] = run[q][j]
      BY <2>1, RunWent
    <2> HIDE DEF r, x
    <2> QED BY <1>0, <1>1, <1>6, <2>1, <2>2, <2>3, SentRuns DEF r, x
  <1>7. CASE Record(p, k) \/ Ready(p, k)
    <2>1. PICK at \in {"ready", "finish"} : RunGoes(p, k, at)
      BY <1>7 DEF Record, Ready, Staked
    <2>2. coins' = coins /\ Past(r)
      BY <1>7 DEF Record, Ready, Past
    <2>3. /\ x.at = at /\ x.b = r.b /\ x.s = r.s /\ x.t = r.t /\ x.fresh = r.fresh
          /\ \A q \in Procs, j \in Kinds : <<q, j>> # <<p, k>> => run'[q][j] = run[q][j]
      BY <2>1, RunWent
    <2> HIDE DEF r, x
    <2> QED BY <1>0, <1>1, <1>2, <2>1, <2>2, <2>3, SentRuns DEF r, x
  <1>8. CASE Stake(p, k)
    <2>0. Past(r) /\ r.at = "stake"
      BY <1>8 DEF Stake, Past
    <2>1. CASE sess[r.b].moved
      <3>1. PICK at \in {"ready", "finish"} : RunGoes(p, k, at)
        BY <1>8, <2>1, StakeEffect
      <3>2. coins' = coins
        BY <1>8, <2>1, StakeEffect
      <3>3. /\ x.at = at /\ x.b = r.b /\ x.s = r.s /\ x.t = r.t /\ x.fresh = r.fresh
            /\ \A q \in Procs, j \in Kinds : <<q, j>> # <<p, k>> => run'[q][j] = run[q][j]
        BY <3>1, RunWent
      <3> HIDE DEF r, x
      <3> QED BY <1>0, <1>1, <1>2, <2>0, <3>1, <3>2, <3>3, SentRuns DEF r, x
    <2>2. CASE ~sess[r.b].moved
      <3>1. /\ RunGoes(p, k, "record")
            /\ \A u \in Takers : u # r.t => coins'[u] = coins[u]
            /\ coins'[r.t] = IF coins[r.t] = "home" THEN "staked" ELSE "twice"
        BY <1>8, <2>2, StakeEffect
      <3>2. k = "settle"
        BY <1>3, <2>0, <2>2 DEF Kinds
      <3>3. coins[r.t] = "home"
        BY <2>0, <2>2, <3>2 DEF Sent
      <3>4. /\ x.at = "record" /\ x.b = r.b /\ x.s = r.s /\ x.t = r.t /\ x.fresh = r.fresh
            /\ \A q \in Procs, j \in Kinds : <<q, j>> # <<p, k>> => run'[q][j] = run[q][j]
        BY <3>1, RunWent
      <3> HIDE DEF r, x
      <3> QED BY <1>0, <1>2, <2>0, <3>1, <3>2, <3>3, <3>4, SentRuns DEF r, x
    <2> QED BY <2>1, <2>2
  <1>9. Throws(p, k) \/ Decline(p, k) => Stops(p, k) /\ coins' = coins
    BY DEF Throws, Decline
  <1> QED BY <1>4, <1>5, <1>6, <1>7, <1>8, <1>9 DEF RunStep

LEMMA OnceNext ==
  ASSUME TickInv, Boxed, Sent, Spent, [Next]_vars, "torn" \notin windows
  PROVE  Sent' /\ Spent'
  <1>0. Gathers /\ Remembers
    BY Gathered, Remembering
  <1>1. coins' = coins /\ run' = run => Sent' /\ Spent'
    BY <1>0, SentGoes
  <1>2. ASSUME NEW p \in Procs, TickStart(p) \/ TickStep(p) \/ Crash(p) PROVE Sent' /\ Spent'
    <2>1. CASE TickStart(p) \/ Awaited(p) \/ Load(p) \/ Grace(p)
      BY <1>1, <2>1 DEF TickStart, Awaited, Load, Grace
    <2>2. CASE Handle(p) \/ Status(p) \/ Act(p) \/ PullNow(p)
      BY <1>1, <2>2 DEF Handle, Status, Act, PullNow
    <2>3. CASE Crash(p)
      <3>1. coins' = coins /\ \A q \in Procs, k \in Kinds : run'[q][k] \in {run[q][k], Off}
        BY <2>3, CrashEffect
      <3> QED BY <1>0, <3>1, SentGoes
    <2> QED BY <1>0, <1>2, <2>1, <2>2, <2>3, ResumeSent, PollSent DEF TickStep
  <1>3. CASE Command \/ GraceLapses
    BY <1>1, <1>3 DEF Command, GraceLapses
  <1>4. CASE Taking \/ UNCHANGED vars
    BY <1>1, <1>4 DEF Taking, vars, agVars
  <1> QED BY <1>0, <1>2, <1>3, <1>4, RunSent DEF Next

LEMMA OnceOpened ==
  ASSUME [Next]_vars
  PROVE  setup' = setup
  <1>1. ASSUME NEW p \in Procs, TickStart(p) \/ TickStep(p) \/ Crash(p) PROVE setup' = setup
    <2>1. CASE TickStart(p) \/ Awaited(p) \/ Load(p) \/ Grace(p)
      BY <2>1 DEF TickStart, Awaited, Load, Grace
    <2>2. CASE Handle(p) \/ Poll(p) \/ Status(p) \/ Act(p) \/ PullNow(p)
      BY <2>2 DEF Handle, Poll, Status, Act, PullNow
    <2>3. CASE Crash(p) \/ Resume(p)
      BY <2>3 DEF Crash, Resume
    <2> QED BY <1>1, <2>1, <2>2, <2>3 DEF TickStep
  <1>2. ASSUME NEW p \in Procs, NEW k \in Kinds, RunStep(p, k) \/ Throws(p, k) PROVE setup' = setup
    BY <1>2 DEF RunStep, Ceremony, Stake, Record, Decline, Ready, Finish, Throws
  <1>3. CASE Command \/ GraceLapses
    BY <1>3 DEF Command, GraceLapses
  <1>4. CASE Taking \/ UNCHANGED vars
    BY <1>4 DEF Taking, vars, agVars
  <1> QED BY <1>1, <1>2, <1>3, <1>4 DEF Next

\* All of it, of a maker whose session files are never torn.
Once == TickInv /\ Boxed /\ ("torn" \notin windows => Sent /\ Spent)

LEMMA OnceInv ==
  /\ Init => Once
  /\ Once /\ [Next]_vars => Once'
  /\ Once => StakedOnce
  <1>1. Init => Once
    BY TickInvInit, OnceInit DEF Once
  <1>2. ASSUME Once, [Next]_vars PROVE Once'
    <2>1. TickInv' /\ Boxed'
      BY <1>2, TickInvNext, BoxedNext DEF Once
    <2>2. windows' = windows
      BY <1>2, OnceOpened DEF setup
    <2>3. "torn" \notin windows => Sent' /\ Spent'
      BY <1>2, OnceNext DEF Once
    <2> QED BY <2>1, <2>2, <2>3 DEF Once
  <1>3. Once => StakedOnce
    BY DEF Once, Spent, StakedOnce
  <1> QED BY <1>1, <1>2, <1>3

\* The coins of a deal leave once, whatever is re-entered, resumed, killed or
\* started over a live tick, as long as no session file is torn: settleTake,
\* auto-resume and the store guards of runA and runB.
THEOREM CoinsLeaveOnce == Spec => []StakedOnce
  BY OnceInv, PTL DEF Spec

-----------------------------------------------------------------------------
(* Coins that are out are on file.                                         *)

\* No fault strikes but failing calls to the relay.
Calm == windows \subseteq {"relay"}

Active(p) == proc[p].pc # "idle" \/ Running(p)

\* Who may act: the watcher, or the cron process whose lock it is.
Alone == \A p \in Procs : Active(p) =>
           IF maker.watch THEN p = Watcher ELSE lock.by = p /\ ~lock.dead

\* Under watch a coroutine has its flag up.
Flagged == maker.watch => \A k \in Kinds : Busy(Watcher, k) => flag[Watcher][k] # Clear

LEMMA AloneInit == Init => Alone /\ Flagged
  <1> SUFFICES ASSUME Init PROVE Alone /\ Flagged
    OBVIOUS
  <1>1. \A p \in Procs : proc[p].pc = "idle" /\ \A k \in Kinds : run[p][k].at = "off"
    BY DEF Init, Asleep, Off
  <1> QED BY <1>1 DEF Alone, Flagged, Active, Running, Busy

\* The one that is active goes on, and lets go of the lock at its end only.
LEMMA AloneMoves ==
  ASSUME Alone, NEW p \in Procs, Active(p), maker' = maker,
         \A q \in Procs \ {p} : proc'[q] = proc[q] /\ run'[q] = run[q],
         lock' = lock \/ (~maker.watch => ~Active(p)')
  PROVE  Alone'
  <1> SUFFICES ASSUME NEW q \in Procs, Active(q)'
               PROVE  IF maker.watch THEN q = Watcher ELSE lock'.by = q /\ ~lock'.dead
    BY DEF Alone
  <1>1. q # p => Active(q)
    BY DEF Active, Running, Busy
  <1>2. q = p
    BY <1>1 DEF Alone
  <1>3. IF maker.watch THEN p = Watcher ELSE lock.by = p /\ ~lock.dead
    BY DEF Alone
  <1> QED BY <1>2, <1>3

LEMMA AloneEnds ==
  ASSUME TickInv, Alone, NEW p \in Procs, Ends(p), UNCHANGED <<maker, run>>,
         proc[p].pc \notin {"idle", "settling", "resuming"}
  PROVE  Alone'
  <1>1. proc' = [proc EXCEPT ![p] = Asleep]
    BY DEF Ends
  <1>2. proc'[p].pc = "idle" /\ \A q \in Procs \ {p} : proc'[q] = proc[q] /\ run'[q] = run[q]
    BY <1>1, Own DEF Asleep
  <1>3. ~maker.watch => ~Active(p)'
    BY <1>2, Unengaged DEF Active, Running, Busy
  <1> QED BY <1>2, <1>3, AloneMoves DEF Active

LEMMA AloneNext ==
  ASSUME TickInv, Calm, Alone, [Next]_vars
  PROVE  Alone'
  <1>0. maker' = maker
    BY OnceOpened DEF setup
  <1>1. ASSUME NEW p \in Procs, TickStart(p) PROVE Alone'
    <2>1. /\ proc[p].pc = "idle" /\ (maker.watch => p = Watcher)
          /\ lock.by = "nobody" \/ lock.dead
          /\ lock' = [by |-> Home(p), dead |-> FALSE] /\ run' = run
      BY <1>1 DEF TickStart, Overdue, Fault, Takeable, Calm
    <2>2. \A q \in Procs \ {p} : proc'[q] = proc[q]
      BY <1>1, Own DEF TickStart
    <2>3. ASSUME NEW q \in Procs \ {p}, Active(q)' PROVE maker.watch /\ q = Watcher
      <3>1. Active(q)
        BY <2>1, <2>2, <2>3 DEF Active, Running, Busy
      <3> QED BY <2>1, <3>1 DEF Alone
    <2>4. ~maker.watch => lock'.by = p /\ ~lock'.dead
      BY <2>1 DEF Home
    <2> QED BY <1>0, <2>1, <2>3, <2>4 DEF Alone
  <1>2. ASSUME NEW p \in Procs, TickStep(p) PROVE Alone'
    <2>1. Active(p)
      BY <1>2 DEF TickStep, Resume, Awaited, Load, Grace, Handle, Poll, Status, Act, PullNow, Active
    <2> DEFINE Others == \A q \in Procs \ {p} : proc'[q] = proc[q] /\ run'[q] = run[q]
    <2>2. Others /\ lock' = lock => Alone'
      BY <1>0, <2>1, AloneMoves
    <2> HIDE DEF Others
    <2>3. CASE Load(p) \/ Handle(p)
      <3>1. run' = run
        BY <2>3 DEF Load, Handle
      <3>2. CASE Ends(p)
        BY <1>0, <2>3, <3>1, <3>2, AloneEnds DEF Load, Handle
      <3>3. CASE ~Ends(p)
        <4> DEFINE Mine == \A q \in Procs \ {p} : proc'[q] = proc[q]
        <4>0. proc \in [Procs -> Row] /\ proc[p].part \in {"offer", "grace", "guard"}
          BY Own DEF Row
        <4>1. CASE Load(p)
          <5>1. PICK price \in Prices :
                  LET read == [proc[p] EXCEPT !.pr = price, !.off = st.offer, !.rec = st.recent,
                                              !.grace = st.recent \ {st.offer}, !.pc = "pull"]
                  IN lock' = lock /\ \/ proc' = [proc EXCEPT ![p] = read]
                                     \/ \E rows : proc' = [proc EXCEPT ![p] =
                                                           Peek(read, st.offer, rows, "offer")]
            BY <3>3, <4>1 DEF Load
          <5>2. lock' = lock /\ Mine
            BY <4>0, <5>1
          <5> QED BY <2>2, <3>1, <5>2 DEF Others
        <4>2. CASE Handle(p)
          <5>1. CASE Throwing(p)
            <6>1. proc[p].part # "offer"
              BY <3>3, <5>1 DEF Throwing
            <6>2. lock' = lock /\ Mine
              BY <4>0, <5>1, <6>1 DEF Throwing
            <6> QED BY <2>2, <3>1, <6>2 DEF Others
          <5>2. CASE ~Throwing(p)
            <6>1. lock' = lock /\ Mine
              BY <4>0, <4>2, <5>2 DEF Handle
            <6> QED BY <2>2, <3>1, <6>1 DEF Others
          <5> QED BY <5>1, <5>2
        <4> QED BY <2>3, <4>1, <4>2
      <3> QED BY <3>2, <3>3
    <2>4. CASE Act(p) \/ PullNow(p)
      <3>1. Ends(p) /\ run' = run /\ proc[p].pc \in {"act", "pull"}
        BY <2>4 DEF Act, PullNow
      <3> QED BY <1>0, <3>1, AloneEnds
    <2>5. CASE Resume(p) \/ Awaited(p) \/ Poll(p)
      <3>1. lock' = lock /\ \E pc : Goes(p, pc)
        BY <2>5 DEF Resume, Awaited, Poll
      <3>2. \A q \in Procs \ {p} : proc'[q] = proc[q]
        BY <3>1, Own DEF Goes
      <3>3. run' = run \/ \E k \in Kinds, x \in RunRow : Starts(p, k, x)
        BY <2>5, ResumeEffect, PollEffect DEF Awaited, Kinds
      <3>4. \A q \in Procs \ {p} : run'[q] = run[q]
        BY <3>3, Own DEF Starts
      <3> QED BY <2>2, <3>1, <3>2, <3>4 DEF Others
    <2>6. CASE Grace(p) \/ Status(p)
      <3>1. UNCHANGED <<run, lock>> /\ \E r : proc' = [proc EXCEPT ![p] = r]
        BY <2>6 DEF Grace, Status
      <3>2. Others
        BY <3>1, Own DEF Others
      <3> QED BY <2>2, <3>1, <3>2
    <2> QED BY <1>2, <2>3, <2>4, <2>5, <2>6 DEF TickStep
  <1>3. ASSUME NEW p \in Procs, NEW k \in Kinds, RunStep(p, k) \/ Throws(p, k) PROVE Alone'
    <2>1. Active(p)
      BY <1>3 DEF RunStep, Ceremony, Stake, Record, Decline, Ready, Finish, Throws, Active,
                  Running, Busy
    <2>2. lock' = lock
      BY <1>3 DEF RunStep, Ceremony, Stake, Record, Decline, Ready, Finish, Throws
    <2>3. \A q \in Procs \ {p} : proc'[q] = proc[q]
      <3>1. proc' = proc \/ \E r : proc' = [proc EXCEPT ![p].off = r]
        BY <1>3 DEF RunStep, Ceremony, Stake, Record, Decline, Ready, Finish, Throws
      <3> QED BY <3>1, Own
    <2>4. \A q \in Procs \ {p} : run'[q] = run[q]
      <3>1. Stops(p, k) \/ \E at : RunGoes(p, k, at)
        BY <1>3 DEF RunStep, Ceremony, Stake, Record, Decline, Ready, Finish, Throws
      <3> QED BY <3>1, Own DEF Stops, RunGoes
    <2> QED BY <1>0, <2>1, <2>2, <2>3, <2>4, AloneMoves
  <1>4. ASSUME NEW p \in Procs, Crash(p) PROVE Alone'
    <2>1. \A q \in Mates(p) : ~Active(q)'
      <3> SUFFICES ASSUME NEW q \in Mates(p) PROVE ~Active(q)'
        OBVIOUS
      <3>1. q \in Procs /\ proc'[q] = Asleep /\ \A k \in Kinds : run'[q][k] = Off
        BY <1>4, CrashEffect DEF Mates
      <3> QED BY <3>1 DEF Active, Running, Busy, Asleep, Off
    <2>2. \A q \in Procs \ Mates(p) : /\ Active(q)' => Active(q)
                                      /\ ~maker.watch /\ lock.by = q => lock' = lock
      <3> SUFFICES ASSUME NEW q \in Procs \ Mates(p)
                   PROVE  /\ Active(q)' => Active(q)
                          /\ ~maker.watch /\ lock.by = q => lock' = lock
        OBVIOUS
      <3>1. proc'[q] = proc[q] /\ run'[q] = run[q]
        BY <1>4, CrashEffect
      <3>2. q # Home(p) \/ maker.watch
        BY DEF Mates, Home
      <3>3. lock.by # Home(p) => lock' = lock
        BY <1>4 DEF Crash
      <3> QED BY <3>1, <3>2, <3>3 DEF Active, Running, Busy
    <2>3. \A q \in Procs : Active(q)' => q \in Procs \ Mates(p)
      BY <2>1
    <2> QED BY <1>0, <2>2, <2>3 DEF Alone
  <1>5. CASE Command \/ GraceLapses \/ Taking \/ UNCHANGED vars
    <2>1. UNCHANGED <<maker, lock, proc, run>>
      BY <1>0, <1>5 DEF Command, GraceLapses, Taking, vars, agVars
    <2> QED BY <2>1 DEF Alone, Active, Running, Busy
  <1> QED BY <1>1, <1>2, <1>3, <1>4, <1>5 DEF Next

LEMMA FlaggedNext ==
  ASSUME TickInv, Alone, Flagged, [Next]_vars
  PROVE  Flagged'
  <1>0. maker' = maker
    BY OnceOpened DEF setup
  <1> SUFFICES ASSUME maker.watch, NEW j \in Kinds, Busy(Watcher, j)'
               PROVE  flag'[Watcher][j] # Clear
    BY <1>0 DEF Flagged
  <1>1. CASE UNCHANGED <<run, flag>>
    BY <1>1 DEF Flagged, Busy
  <1>2. ASSUME NEW p \in Procs, NEW k \in Kinds, NEW x \in RunRow, Starts(p, k, x)
        PROVE  flag'[Watcher][j] # Clear
    <2>1. /\ run'[p][k] = x
          /\ \A q \in Procs, i \in Kinds : <<q, i>> # <<p, k>> => run'[q][i] = run[q][i]
      BY <1>2, StartsTyped
    <2>2. flag' = [flag EXCEPT ![Watcher][k] = x.s] /\ x.s # Clear
      BY <1>2, Homes DEF Starts, Home, RunRow
    <2>3. flag'[Watcher][k] = x.s /\ \A i \in Kinds \ {k} : flag'[Watcher][i] = flag[Watcher][i]
      BY <2>2, Files DEF Flags
    <2>4. j # k => Busy(Watcher, j)
      BY <2>1 DEF Busy
    <2> QED BY <2>2, <2>3, <2>4 DEF Flagged
  <1>3. ASSUME NEW p \in Procs, NEW k \in Kinds, RunStep(p, k) \/ Throws(p, k)
        PROVE  flag'[Watcher][j] # Clear
    <2>1. Busy(p, k)
      BY <1>3 DEF RunStep, Ceremony, Stake, Record, Decline, Ready, Finish, Throws, Busy
    <2>2. p = Watcher
      BY <2>1 DEF Alone, Active, Running
    <2>3. CASE Stops(p, k)
      <3>1. run'[p][k] = Off /\ \A i \in Kinds \ {k} : run'[p][i] = run[p][i]
        BY <2>3, RunGone
      <3>2. \A i \in Kinds \ {k} : flag'[Watcher][i] = flag[Watcher][i]
        BY <2>2, <2>3, Files DEF Stops, Home, Flags
      <3>3. j # k
        BY <2>2, <3>1 DEF Busy, Off
      <3> QED BY <2>2, <3>1, <3>2, <3>3 DEF Flagged, Busy
    <2>4. CASE \E at : RunGoes(p, k, at) /\ flag' = flag
      <3>1. PICK at : RunGoes(p, k, at) /\ flag' = flag
        BY <2>4
      <3>2. \A i \in Kinds \ {k} : run'[p][i] = run[p][i]
        BY <3>1, RunWent
      <3>3. Busy(Watcher, j)
        BY <2>1, <2>2, <3>2 DEF Busy
      <3> QED BY <3>1, <3>3 DEF Flagged
    <2>5. Stops(p, k) \/ \E at : RunGoes(p, k, at) /\ flag' = flag
      BY <1>3 DEF RunStep, Ceremony, Stake, Record, Decline, Ready, Finish, Throws
    <2> QED BY <2>3, <2>4, <2>5
  <1>4. ASSUME NEW p \in Procs, TickStart(p) \/ TickStep(p) \/ Crash(p)
        PROVE  flag'[Watcher][j] # Clear
    <2>1. CASE TickStart(p) \/ Awaited(p) \/ Load(p) \/ Grace(p)
      BY <1>1, <2>1 DEF TickStart, Awaited, Load, Grace
    <2>2. CASE Handle(p) \/ Status(p) \/ Act(p) \/ PullNow(p)
      BY <1>1, <2>2 DEF Handle, Status, Act, PullNow
    <2>3. CASE Resume(p) \/ Poll(p)
      BY <1>1, <1>2, <2>3, ResumeEffect, PollEffect DEF Kinds
    <2>4. CASE Crash(p)
      <3>1. Watcher \in Mates(p)
        BY DEF Mates, Home
      <3>2. run'[Watcher][j] = Off
        BY <2>4, <3>1, CrashEffect
      <3> QED BY <3>2 DEF Busy, Off
    <2> QED BY <1>4, <2>1, <2>2, <2>3, <2>4 DEF TickStep
  <1>5. CASE Command \/ GraceLapses \/ Taking \/ UNCHANGED vars
    BY <1>1, <1>5 DEF Command, GraceLapses, Taking, vars, agVars
  <1> QED BY <1>3, <1>4, <1>5 DEF Next

\* A run past its ceremony carries on the deal of its block's session file.
Held == \A p \in Procs, k \in Kinds :
          Past(run[p][k]) => sess[run[p][k].b].party = run[p][k].t

\* A settlement that is about to send is of a file that is not done, and a
\* resume of one whose coins have left.
Live == /\ \A b \in Blocks : sess[b].party = NoTaker => ~sess[b].done
        /\ \A p \in Procs :
             LET r == run[p]["settle"]
                 x == run[p]["resume"]
             IN /\ r.at = "stake" => sess[r.b].moved \/ ~sess[r.b].done
                /\ Past(x) => sess[x.b].moved

\* The file says that the coins have left, or a run is about to write it.
Tells(b) == \/ sess[b].moved
            \/ \E p \in Procs, k \in Kinds : run[p][k].at = "record" /\ run[p][k].b = b

Keeps == \A t \in Takers : coins[t] = "staked" =>
           \E b \in Blocks : sess[b].party = t /\ ~sess[b].done /\ Tells(b)

LEMMA LiveInit == Init => Held /\ Live /\ Keeps
  <1> SUFFICES ASSUME Init PROVE Held /\ Live /\ Keeps
    OBVIOUS
  <1>1. \A p \in Procs, k \in Kinds : run[p][k].at = "off"
    BY DEF Init, Off
  <1>2. \A b \in Blocks : ~sess[b].done
    BY DEF Init, NoSession
  <1>3. \A t \in Takers : coins[t] = "home"
    BY DEF Init
  <1> QED BY <1>1, <1>2, <1>3 DEF Held, Live, Keeps, Past, Kinds

\* No coins leave; files keep their parties and what they tell; coroutines go
\* on, end, or resume what a file tells.
LEMMA KeepsGoes ==
  ASSUME TickInv, Held, Live, Keeps,
         \A t \in Takers : coins'[t] = "staked" => coins[t] = "staked",
         \A b \in Blocks : /\ sess'[b].party = sess[b].party
                           /\ sess[b].moved => sess'[b].moved,
         \A p \in Procs, k \in Kinds : Past(run'[p][k]) =>
            /\ run'[p][k].b \in Blocks
            /\ \/ /\ Past(run[p][k]) /\ run'[p][k].b = run[p][k].b /\ run'[p][k].t = run[p][k].t
                  /\ run'[p][k].at = "stake" => run[p][k].at = "stake"
               \/ /\ k = "resume" /\ sess[run'[p][k].b].moved
                  /\ sess[run'[p][k].b].party = run'[p][k].t,
         \A p \in Procs, k \in Kinds : run[p][k].at = "record" =>
            \/ run[p][k].b \in Blocks /\ sess'[run[p][k].b].moved
            \/ run'[p][k].at = "record" /\ run'[p][k].b = run[p][k].b,
         \A b \in Blocks : sess'[b].done /\ ~sess[b].done =>
            /\ sess[b].party # NoTaker
            /\ ~Tells(b) \/ coins'[sess[b].party] # "staked"
            /\ \A p \in Procs : run'[p]["settle"].at = "stake" /\ run'[p]["settle"].b = b =>
                                  sess[b].moved
  PROVE  Held' /\ Live' /\ Keeps'
  <1>0. "settle" \in Kinds /\ "resume" \in Kinds
    BY DEF Kinds
  <1>1. Held'
    <2> SUFFICES ASSUME NEW p \in Procs, NEW k \in Kinds, Past(run'[p][k])
                 PROVE  sess'[run'[p][k].b].party = run'[p][k].t
      BY DEF Held
    <2>1. run'[p][k].b \in Blocks /\ sess[run'[p][k].b].party = run'[p][k].t
      BY DEF Held
    <2> QED BY <2>1
  <1>2. \A b \in Blocks : sess'[b].party = NoTaker => ~sess'[b].done
    BY DEF Live
  <1>3. ASSUME NEW p \in Procs, run'[p]["settle"].at = "stake"
        PROVE  LET r == run'[p]["settle"] IN sess'[r.b].moved \/ ~sess'[r.b].done
    <2> DEFINE r == run'[p]["settle"]
    <2>1. Past(r)
      BY <1>3 DEF Past
    <2>2. /\ r.b \in Blocks /\ r.b = run[p]["settle"].b /\ run[p]["settle"].at = "stake"
      BY <1>0, <1>3, <2>1
    <2>3. sess[r.b].moved \/ ~sess[r.b].done
      BY <2>2 DEF Live
    <2> QED BY <1>3, <2>2, <2>3
  <1>4. ASSUME NEW p \in Procs, Past(run'[p]["resume"])
        PROVE  sess'[run'[p]["resume"].b].moved
    <2>1. run'[p]["resume"].b \in Blocks /\ sess[run'[p]["resume"].b].moved
      BY <1>0, <1>4 DEF Live
    <2> QED BY <2>1
  <1>5. Live'
    BY <1>2, <1>3, <1>4 DEF Live
  <1>6. \A b \in Blocks : Tells(b) => Tells(b)'
    <2> SUFFICES ASSUME NEW b \in Blocks, Tells(b), ~sess'[b].moved PROVE Tells(b)'
      BY DEF Tells
    <2>1. PICK p \in Procs, k \in Kinds : run[p][k].at = "record" /\ run[p][k].b = b
      BY DEF Tells
    <2>2. run'[p][k].at = "record" /\ run'[p][k].b = b
      BY <2>1
    <2> QED BY <2>2 DEF Tells
  <1>7. Keeps'
    <2> SUFFICES ASSUME NEW t \in Takers, coins'[t] = "staked"
                 PROVE  \E b \in Blocks : sess'[b].party = t /\ ~sess'[b].done /\ Tells(b)'
      BY DEF Keeps
    <2>1. PICK b \in Blocks : sess[b].party = t /\ ~sess[b].done /\ Tells(b)
      BY DEF Keeps
    <2> QED BY <1>6, <2>1
  <1> QED BY <1>1, <1>5, <1>7

\* Nothing it rests on changes.
LEMMA KeepsStays ==
  ASSUME TickInv, Held, Live, Keeps, UNCHANGED <<coins, sess, run>>
  PROVE  Held' /\ Live' /\ Keeps'
  BY DEF Held, Live, Keeps, Tells, Past

\* Where a scan of the session files may begin, no coroutine is under way.
LEMMA NoneRuns ==
  ASSUME TickInv, Alone, Flagged, NEW p \in Procs, proc[p].pc = "resume", ~Engaged(p)
  PROVE  \A q \in Procs, k \in Kinds : run[q][k].at = "off"
  <1> SUFFICES ASSUME NEW q \in Procs, NEW k \in Kinds, Busy(q, k) PROVE FALSE
    BY DEF Busy
  <1>1. Active(p) /\ Active(q)
    BY DEF Active, Running
  <1>2. q = p /\ (maker.watch => p = Watcher)
    BY <1>1 DEF Alone
  <1>3. CASE maker.watch
    BY <1>2, <1>3 DEF Flagged, Engaged, Home
  <1>4. CASE ~maker.watch
    BY <1>2, <1>4, Unengaged DEF Running
  <1> QED BY <1>3, <1>4

LEMMA ResumeKept ==
  ASSUME TickInv, Alone, Flagged, Held, Live, Keeps, Remembers, NEW p \in Procs, Resume(p)
  PROVE  Held' /\ Live' /\ Keeps'
  <1>0. /\ coins' = coins /\ proc[p].pc = "resume"
        /\ Engaged(p) => UNCHANGED <<sess, run>>
    BY DEF Resume
  <1>1. CASE Engaged(p)
    BY <1>0, <1>1, KeepsStays
  <1>2. CASE ~Engaged(p)
    <2>1. \A q \in Procs, k \in Kinds : run[q][k].at = "off"
      BY <1>0, <1>2, NoneRuns
    <2>2. \A b \in Blocks : \/ sess'[b] = sess[b]
                            \/ ~sess[b].moved /\ sess'[b] = [sess[b] EXCEPT !.done = TRUE]
      BY ResumeEffect DEF Droppable
    <2>3. ASSUME NEW b \in Blocks
          PROVE  /\ sess'[b].party = sess[b].party
                 /\ sess'[b].done /\ ~sess[b].done => sess[b].party # NoTaker /\ ~Tells(b)
      <3>1. sess[b] \in FileRow
        BY DoneRow
      <3>2. sess'[b].party = sess[b].party
        BY <2>2, <3>1 DEF FileRow
      <3>3. sess'[b] # sess[b] => b \in Unfinished
        BY DEF Resume
      <3> QED BY <2>1, <2>2, <3>2, <3>3 DEF Tells, Unfinished
    <2>4. \A q \in Procs : run'[q]["settle"].at = "off"
      <3>1. run' = run \/ \E x \in RunRow : Starts(p, "resume", x)
        BY ResumeEffect
      <3>2. \A q \in Procs : run'[q]["settle"] = run[q]["settle"]
        BY <3>1, StartsTyped DEF Kinds
      <3> QED BY <2>1, <3>2 DEF Kinds
    <2>5. ASSUME NEW q \in Procs, NEW k \in Kinds, Past(run'[q][k])
          PROVE  LET x == run'[q][k]
                 IN k = "resume" /\ x.b \in Blocks /\ sess[x.b].moved /\ sess[x.b].party = x.t
      <3>1. k = "resume"
        BY <2>4, <2>5 DEF Past, Kinds
      <3>2. run' # run
        BY <2>1, <2>5 DEF Past
      <3>3. PICK x \in RunRow : /\ Starts(p, "resume", x) /\ x.t = sess[x.b].party
                                /\ x.b \in Blocks /\ Resumable(x.b)
        BY <3>2, ResumeEffect
      <3>4. run'[q][k] = x \/ run'[q][k] = run[q][k]
        BY <3>1, <3>3, StartsTyped DEF Kinds
      <3>5. run'[q][k] = x
        BY <2>1, <2>5, <3>4 DEF Past
      <3> QED BY <3>1, <3>3, <3>5 DEF Resumable
    <2> QED BY <1>0, <2>1, <2>3, <2>4, <2>5, KeepsGoes DEF Remembers
  <1> QED BY <1>1, <1>2

LEMMA PollKept ==
  ASSUME TickInv, Held, Live, Keeps, NEW p \in Procs, Poll(p)
  PROVE  Held' /\ Live' /\ Keeps'
  <1>1. coins' = coins /\ sess' = sess
    BY DEF Poll
  <1>2. CASE run' = run
    BY <1>1, <1>2, KeepsStays
  <1>3. CASE run' # run
    <2>1. PICK x \in RunRow : x.at = "ceremony" /\ Starts(p, "settle", x)
      BY <1>3, PollEffect DEF Polls
    <2>2. /\ run'[p]["settle"] = x
          /\ \A q \in Procs, k \in Kinds : <<q, k>> # <<p, "settle">> => run'[q][k] = run[q][k]
      BY <2>1, StartsTyped DEF Kinds
    <2>3. run[p]["settle"].at = "off"
      BY <2>1 DEF Starts, Busy
    <2>4. \A q \in Procs, k \in Kinds : /\ Past(run'[q][k]) => run'[q][k] = run[q][k]
                                        /\ Past(run[q][k]) => run'[q][k] = run[q][k]
      BY <2>1, <2>2, <2>3 DEF Past
    <2>5. \A q \in Procs, k \in Kinds : Past(run[q][k]) => run[q][k].b \in Blocks
      BY Own DEF Placed, Past
    <2> QED BY <1>1, <2>4, <2>5, KeepsGoes DEF Past
  <1> QED BY <1>2, <1>3

\* Runs that end, and a death, in a calm.
LEMMA CrashKept ==
  ASSUME TickInv, Calm, Held, Live, Keeps, NEW p \in Procs, Crash(p)
  PROVE  Held' /\ Live' /\ Keeps'
  <1>1. coins' = coins /\ sess' = sess
    BY CrashEffect DEF Calm
  <1>2. \A q \in Mates(p), k \in Kinds : run[q][k].at # "record"
    BY DEF Crash, Calm
  <1>3. \A q \in Procs, k \in Kinds : run'[q][k] = Off \/ run'[q][k] = run[q][k]
    BY CrashEffect
  <1>4. \A q \in Procs, k \in Kinds : run[q][k].at = "record" => run'[q][k] = run[q][k]
    BY <1>2, CrashEffect
  <1>5. \A q \in Procs, k \in Kinds : Past(run'[q][k]) =>
          Past(run[q][k]) /\ run'[q][k] = run[q][k] /\ run[q][k].b \in Blocks
    BY <1>3, Own DEF Placed, Past, Off
  <1> QED BY <1>1, <1>4, <1>5, KeepsGoes

\* A run past its ceremony, and who else is.
LEMMA OthersPast ==
  ASSUME TickInv, Sent, Held, Live, NEW p \in Procs, NEW k \in Kinds, Past(run[p][k]),
         NEW q \in Procs, run[q]["settle"].at = "stake", run[q]["settle"].b = run[p][k].b,
         <<q, "settle">> # <<p, k>>
  PROVE  sess[run[p][k].b].moved
  <1>1. CASE k = "resume"
    BY <1>1 DEF Live
  <1>2. CASE k = "settle"
    <2>1. run[q]["settle"].t = run[p]["settle"].t
      BY <1>2 DEF Held, Past, Kinds
    <2>2. Fresh(run[q]["settle"]) /\ Fresh(run[p]["settle"])
      BY <1>2 DEF Sent, Fresh, Past
    <2>3. FALSE
      BY <1>2, <2>1, <2>2 DEF Sent
    <2> QED BY <2>3
  <1> QED BY <1>1, <1>2 DEF Kinds

\* It stops.
LEMMA StopKept ==
  ASSUME TickInv, Sent, Held, Live, Keeps, Remembers,
         NEW p \in Procs, NEW k \in Kinds, Stops(p, k),
         run[p][k].at # "record",
         \/ UNCHANGED <<sess, coins>>
         \/ /\ Past(run[p][k])
            /\ sess' = [sess EXCEPT ![run[p][k].b].done = TRUE]
            /\ coins'[run[p][k].t] # "staked"
            /\ \A u \in Takers : u # run[p][k].t => coins'[u] = coins[u]
  PROVE  Held' /\ Live' /\ Keeps'
  <1> DEFINE r == run[p][k]
  <1>1. /\ run'[p][k] = Off
        /\ \A q \in Procs, j \in Kinds : <<q, j>> # <<p, k>> => run'[q][j] = run[q][j]
    BY RunGone
  <1>2. \A q \in Procs, j \in Kinds : Past(run'[q][j]) =>
          Past(run[q][j]) /\ run'[q][j] = run[q][j] /\ run[q][j].b \in Blocks
    BY <1>1, Own DEF Placed, Past, Off
  <1>3. \A q \in Procs, j \in Kinds : run[q][j].at = "record" => run'[q][j] = run[q][j]
    BY <1>1
  <1>4. CASE UNCHANGED <<sess, coins>>
    BY <1>2, <1>3, <1>4, KeepsGoes
  <1>5. CASE /\ Past(r)
             /\ sess' = [sess EXCEPT ![r.b].done = TRUE]
             /\ coins'[r.t] # "staked"
             /\ \A u \in Takers : u # r.t => coins'[u] = coins[u]
    <2>1. r.b \in Blocks /\ r.t \in Takers /\ sess[r.b].party = r.t
      BY <1>5, Own DEF Placed, Past, Held
    <2>2. \A b \in Blocks : /\ sess'[b].party = sess[b].party
                            /\ b # r.b => sess'[b] = sess[b]
      BY <1>5, Marking
    <2>3. \A q \in Procs : run'[q]["settle"].at = "stake" /\ run'[q]["settle"].b = r.b =>
                             sess[r.b].moved
      <3> SUFFICES ASSUME NEW q \in Procs, run'[q]["settle"].at = "stake",
                          run'[q]["settle"].b = r.b
                   PROVE  sess[r.b].moved
        OBVIOUS
      <3>1. <<q, "settle">> # <<p, k>>
        BY <1>1 DEF Off
      <3>2. run'[q]["settle"] = run[q]["settle"]
        BY <1>1, <3>1 DEF Kinds
      <3> QED BY <1>5, <3>1, <3>2, OthersPast
    <2> HIDE DEF r
    <2>4. \A b \in Blocks : sess'[b].done /\ ~sess[b].done =>
            /\ b = r.b /\ sess[b].party # NoTaker /\ coins'[sess[b].party] # "staked"
      BY <1>5, <2>1, <2>2
    <2>5. \A t \in Takers : coins'[t] = "staked" => coins[t] = "staked"
      BY <1>5
    <2>6. \A b \in Blocks : sess[b].moved => sess'[b].moved
      BY DEF Remembers
    <2> QED BY <1>2, <1>3, <2>2, <2>3, <2>4, <2>5, <2>6, KeepsGoes
  <1> QED BY <1>4, <1>5

\* It goes on.
LEMMA GoKept ==
  ASSUME TickInv, Held, Live, Keeps, NEW p \in Procs, NEW k \in Kinds,
         NEW at \in {"ready", "finish"}, RunGoes(p, k, at), coins' = coins, Past(run[p][k]),
         \A b \in Blocks : /\ sess'[b].party = sess[b].party /\ sess'[b].done = sess[b].done
                           /\ sess[b].moved => sess'[b].moved,
         run[p][k].at = "record" => sess'[run[p][k].b].moved
  PROVE  Held' /\ Live' /\ Keeps'
  <1>1. /\ run'[p][k].at = at /\ run'[p][k].b = run[p][k].b /\ run'[p][k].t = run[p][k].t
        /\ \A q \in Procs, j \in Kinds : <<q, j>> # <<p, k>> => run'[q][j] = run[q][j]
    BY RunWent
  <1>2. \A q \in Procs, j \in Kinds : Past(run[q][j]) => run[q][j].b \in Blocks
    BY Own DEF Placed, Past
  <1>3. ASSUME NEW q \in Procs, NEW j \in Kinds, Past(run'[q][j])
        PROVE  /\ run'[q][j].b \in Blocks
               /\ Past(run[q][j]) /\ run'[q][j].b = run[q][j].b /\ run'[q][j].t = run[q][j].t
               /\ run'[q][j].at = "stake" => run[q][j].at = "stake"
    BY <1>1, <1>2, <1>3
  <1>4. ASSUME NEW q \in Procs, NEW j \in Kinds, run[q][j].at = "record"
        PROVE  \/ run[q][j].b \in Blocks /\ sess'[run[q][j].b].moved
               \/ run'[q][j].at = "record" /\ run'[q][j].b = run[q][j].b
    BY <1>1, <1>2, <1>4 DEF Past
  <1> QED BY <1>3, <1>4, KeepsGoes

LEMMA Partied ==
  ASSUME TickInv, NEW b \in Blocks, NEW t \in Takers, sess' = [sess EXCEPT ![b].party = t]
  PROVE  \A c \in Blocks : /\ c # b => sess'[c] = sess[c]
                           /\ c = b => /\ sess'[c].party = t /\ sess'[c].moved = sess[c].moved
                                       /\ sess'[c].done = sess[c].done
  <1>1. sess \in [Blocks -> FileRow] /\ sess[b] \in FileRow
    BY Markers
  <1> DEFINE f == [sess[b] EXCEPT !.party = t]
  <1>2. f.party = t /\ f.moved = sess[b].moved /\ f.done = sess[b].done
    BY <1>1 DEF FileRow
  <1> HIDE DEF f
  <1>3. sess' = [sess EXCEPT ![b] = f]
    BY DEF f
  <1> QED BY <1>1, <1>2, <1>3

LEMMA CeremonyKept ==
  ASSUME TickInv, Calm, Held, Live, Keeps, NEW p \in Procs, Ceremony(p)
  PROVE  Held' /\ Live' /\ Keeps'
  <1> DEFINE r == run[p]["settle"]
  <1>0. "settle" \in Kinds /\ "resume" \in Kinds
    BY DEF Kinds
  <1>1. /\ r.at = "ceremony" /\ r.b \in Blocks /\ r.t \in Takers /\ coins' = coins
        /\ sess[r.b].party = NoTaker
    BY <1>0, Own DEF Ceremony, Placed, Calm
  <1>2. /\ run'[p]["settle"].at = "stake" /\ run'[p]["settle"].b = r.b
        /\ run'[p]["settle"].t = r.t
        /\ \A q \in Procs, k \in Kinds : <<q, k>> # <<p, "settle">> => run'[q][k] = run[q][k]
    BY <1>0, RunWent DEF Ceremony
  <1>3. \A c \in Blocks : /\ c # r.b => sess'[c] = sess[c]
                          /\ c = r.b => /\ sess'[c].party = r.t /\ sess'[c].moved = sess[c].moved
                                        /\ sess'[c].done = sess[c].done
    <2>1. sess' = [sess EXCEPT ![r.b].party = r.t]
      BY DEF Ceremony
    <2>2. r.t \in Takers /\ r.b \in Blocks
      BY <1>1
    <2>3. PICK b \in Blocks, t \in Takers : b = r.b /\ t = r.t
      BY <2>2
    <2>4. sess' = [sess EXCEPT ![b].party = t]
      BY <2>1, <2>3
    <2> HIDE DEF r
    <2>5. \A c \in Blocks : /\ c # b => sess'[c] = sess[c]
                            /\ c = b => /\ sess'[c].party = t /\ sess'[c].moved = sess[c].moved
                                        /\ sess'[c].done = sess[c].done
      BY <2>4, Partied
    <2> QED BY <2>3, <2>5
  <1> HIDE DEF r
  <1>4. ASSUME NEW q \in Procs, NEW k \in Kinds, <<q, k>> # <<p, "settle">>, Past(run[q][k])
        PROVE  run[q][k].b \in Blocks /\ run[q][k].b # r.b
    <2>1. run[q][k].t \in Takers /\ run[q][k].b \in Blocks
      BY <1>4, Own DEF Placed, Past
    <2> QED BY <1>1, <1>4, <2>1 DEF Held
  <1>5. Held'
    <2> SUFFICES ASSUME NEW q \in Procs, NEW k \in Kinds, Past(run'[q][k])
                 PROVE  sess'[run'[q][k].b].party = run'[q][k].t
      BY DEF Held
    <2>1. CASE <<q, k>> = <<p, "settle">>
      BY <1>1, <1>2, <1>3, <2>1
    <2>2. CASE <<q, k>> # <<p, "settle">>
      <3>1. run'[q][k] = run[q][k]
        BY <1>2, <2>2
      <3> QED BY <1>3, <1>4, <2>2, <3>1 DEF Held
    <2> QED BY <2>1, <2>2
  <1>6. Live'
    <2>1. \A b \in Blocks : sess'[b].party = NoTaker => ~sess'[b].done
      BY <1>1, <1>3 DEF Live
    <2>2. ASSUME NEW q \in Procs, run'[q]["settle"].at = "stake"
          PROVE  sess'[run'[q]["settle"].b].moved \/ ~sess'[run'[q]["settle"].b].done
      <3>1. CASE q = p
        <4>1. ~sess[r.b].done
          BY <1>1 DEF Live
        <4> QED BY <1>1, <1>2, <1>3, <3>1, <4>1
      <3>2. CASE q # p
        <4>1. run'[q]["settle"] = run[q]["settle"] /\ Past(run[q]["settle"])
          BY <1>0, <1>2, <2>2, <3>2 DEF Past
        <4>2. run[q]["settle"].b \in Blocks /\ run[q]["settle"].b # r.b
          BY <1>0, <1>4, <3>2, <4>1
        <4>3. sess[run[q]["settle"].b].moved \/ ~sess[run[q]["settle"].b].done
          BY <2>2, <4>1 DEF Live
        <4> QED BY <1>3, <4>1, <4>2, <4>3
      <3> QED BY <3>1, <3>2
    <2>3. ASSUME NEW q \in Procs, Past(run'[q]["resume"])
          PROVE  sess'[run'[q]["resume"].b].moved
      <3>1. run'[q]["resume"] = run[q]["resume"]
        BY <1>0, <1>2
      <3>2. run[q]["resume"].b \in Blocks /\ run[q]["resume"].b # r.b
        BY <1>0, <1>4, <2>3, <3>1
      <3> QED BY <1>3, <2>3, <3>1, <3>2 DEF Live
    <2> QED BY <2>1, <2>2, <2>3 DEF Live
  <1>7. Keeps'
    <2> SUFFICES ASSUME NEW t \in Takers, coins'[t] = "staked"
                 PROVE  \E b \in Blocks : sess'[b].party = t /\ ~sess'[b].done /\ Tells(b)'
      BY DEF Keeps
    <2>1. PICK b \in Blocks : sess[b].party = t /\ ~sess[b].done /\ Tells(b)
      BY <1>1 DEF Keeps
    <2>2. sess'[b] = sess[b]
      BY <1>1, <1>3, <2>1
    <2>3. Tells(b)'
      <3>1. \A q \in Procs, k \in Kinds : run[q][k].at = "record" => run'[q][k] = run[q][k]
        BY <1>1, <1>2 DEF r
      <3> QED BY <2>1, <2>2, <3>1 DEF Tells
    <2> QED BY <2>1, <2>2, <2>3
  <1> QED BY <1>5, <1>6, <1>7

LEMMA StakeKept ==
  ASSUME TickInv, Held, Live, Keeps, NEW p \in Procs, NEW k \in Kinds, Stake(p, k)
  PROVE  Held' /\ Live' /\ Keeps'
  <1> DEFINE r == run[p][k]
  <1>0. r.at = "stake" /\ Past(r) /\ sess' = sess /\ r.b \in Blocks
    BY StakeEffect, Own DEF Past, Placed
  <1>1. CASE sess[r.b].moved
    <2>1. PICK at \in {"ready", "finish"} : RunGoes(p, k, at)
      BY <1>1, StakeEffect
    <2>2. coins' = coins
      BY <1>1, StakeEffect
    <2> QED BY <1>0, <2>1, <2>2, GoKept
  <1>2. CASE ~sess[r.b].moved
    <2>1. k = "settle"
      BY <1>0, <1>2 DEF Live, Kinds
    <2>2. /\ RunGoes(p, k, "record")
          /\ \A u \in Takers : u # r.t => coins'[u] = coins[u]
      BY <1>2, StakeEffect
    <2>3. /\ run'[p][k].at = "record" /\ run'[p][k].b = r.b /\ run'[p][k].t = r.t
          /\ \A q \in Procs, j \in Kinds : <<q, j>> # <<p, k>> => run'[q][j] = run[q][j]
      BY <2>2, RunWent
    <2>4. sess[r.b].party = r.t /\ ~sess[r.b].done
      BY <1>0, <1>2, <2>1 DEF Held, Live
    <2> HIDE DEF r
    <2>5. ASSUME NEW q \in Procs, NEW j \in Kinds, Past(run'[q][j])
          PROVE  /\ Past(run[q][j]) /\ run'[q][j].b = run[q][j].b /\ run'[q][j].t = run[q][j].t
                 /\ run'[q][j].at = "stake" => run[q][j].at = "stake"
      BY <1>0, <2>3, <2>5 DEF r
    <2>6. Held'
      BY <1>0, <2>5 DEF Held
    <2>7. Live'
      <3>1. "settle" \in Kinds /\ "resume" \in Kinds
        BY DEF Kinds
      <3>2. ASSUME NEW q \in Procs, run'[q]["settle"].at = "stake"
            PROVE  sess[run'[q]["settle"].b].moved \/ ~sess[run'[q]["settle"].b].done
        <4>1. Past(run'[q]["settle"])
          BY <3>2 DEF Past
        <4> QED BY <2>5, <3>1, <3>2, <4>1 DEF Live
      <3>3. \A q \in Procs : Past(run'[q]["resume"]) => sess[run'[q]["resume"].b].moved
        BY <2>5, <3>1 DEF Live
      <3>4. \A b \in Blocks : sess[b].party = NoTaker => ~sess[b].done
        BY DEF Live
      <3> QED BY <1>0, <3>2, <3>3, <3>4 DEF Live
    <2>8. Keeps'
      <3>1. \A b \in Blocks : Tells(b) => Tells(b)'
        <4>1. \A q \in Procs, j \in Kinds : run[q][j].at = "record" => run'[q][j] = run[q][j]
          BY <1>0, <2>3 DEF r
        <4> QED BY <1>0, <4>1 DEF Tells
      <3>2. PICK here \in Blocks : here = r.b
        BY <1>0 DEF r
      <3>5. Tells(here)'
        BY <2>3, <3>2 DEF Tells
      <3> SUFFICES ASSUME NEW t \in Takers, coins'[t] = "staked"
                   PROVE  \E b \in Blocks : sess[b].party = t /\ ~sess[b].done /\ Tells(b)'
        BY <1>0 DEF Keeps
      <3>3. CASE t = r.t
        BY <2>4, <3>2, <3>3, <3>5
      <3>4. CASE t # r.t
        <4>1. coins[t] = "staked"
          BY <2>2, <3>4 DEF r
        <4> QED BY <3>1, <4>1 DEF Keeps
      <3> QED BY <3>3, <3>4
    <2> QED BY <2>6, <2>7, <2>8
  <1> QED BY <1>1, <1>2

LEMMA RunKept ==
  ASSUME TickInv, Calm, Sent, Spent, Held, Live, Keeps, Remembers,
         NEW p \in Procs, NEW k \in Kinds, RunStep(p, k) \/ Throws(p, k)
  PROVE  Held' /\ Live' /\ Keeps'
  <1> DEFINE r == run[p][k]
  <1>0. Past(r) => r.b \in Blocks /\ r.t \in Takers
    BY Own DEF Placed, Past
  <1>1. CASE Record(p, k) \/ Ready(p, k)
    <2>1. PICK at \in {"ready", "finish"} : RunGoes(p, k, at)
      BY <1>1 DEF Record, Ready, Staked
    <2>2. coins' = coins /\ Past(r)
      BY <1>1 DEF Record, Ready, Past
    <2>3. \A b \in Blocks : /\ sess'[b].party = sess[b].party /\ sess'[b].done = sess[b].done
                            /\ sess[b].moved => sess'[b].moved
      <3>1. PICK b : sess' \in {[sess EXCEPT ![b].moved = TRUE], [sess EXCEPT ![b].ready = TRUE]}
        BY <1>1 DEF Record, Ready
      <3>2. \A s \in {[sess EXCEPT ![b].moved = TRUE], [sess EXCEPT ![b].ready = TRUE]} :
              \A c \in Blocks : /\ s[c].party = sess[c].party /\ s[c].done = sess[c].done
                                /\ sess[c].moved => s[c].moved
        BY Marking
      <3> QED BY <3>1, <3>2
    <2>4. r.at = "record" => sess'[r.b].moved
      BY <1>0, <1>1, <2>2, Marking DEF Record, Ready
    <2> HIDE DEF r
    <2> QED BY <2>1, <2>2, <2>3, <2>4, GoKept DEF r
  <1>2. CASE Finish(p, k)
    <2>1. /\ Stops(p, k) /\ r.at = "finish" /\ Past(r)
          /\ sess' = [sess EXCEPT ![r.b].done = TRUE]
      BY <1>2 DEF Finish, Past
    <2>2. /\ \A u \in Takers : u # r.t => coins'[u] = coins[u]
          /\ coins'[r.t] # "staked"
      BY <1>2, FinishEffect
    <2> QED BY <2>1, <2>2, StopKept
  <1>3. CASE Decline(p, k)
    <2>1. /\ Stops(p, k) /\ r.at = "stake" /\ Past(r) /\ coins' = coins
          /\ ~sess[r.b].moved /\ sess' = [sess EXCEPT ![r.b].done = TRUE]
      BY <1>3 DEF Decline, Past, Calm
    <2>2. coins[r.t] = "home"
      BY <2>1 DEF Sent, Kinds
    <2>3. r.at # "record" /\ coins'[r.t] # "staked"
      BY <2>1, <2>2
    <2> QED BY <2>1, <2>3, StopKept
  <1>4. CASE Throws(p, k)
    <2>1. Stops(p, k) /\ UNCHANGED <<sess, coins>> /\ r.at # "record"
      BY <1>4 DEF Throws, Fault, Calm
    <2> QED BY <2>1, StopKept
  <1> QED BY <1>1, <1>2, <1>3, <1>4, CeremonyKept, StakeKept DEF RunStep

LEMMA CommandKept ==
  ASSUME TickInv, Calm, Held, Live, Keeps, Remembers, Command
  PROVE  Held' /\ Live' /\ Keeps'
  <1>1. coins' = coins /\ run' = run
    BY DEF Command
  <1>2. CASE sess' = sess
    BY <1>1, <1>2, KeepsStays
  <1>3. CASE sess' # sess
    <2>1. PICK b \in Blocks : Abandon(b)
      BY <1>3 DEF Command, WithdrawOffer, PostOffer, DeclineSlot
    <2>2. /\ sess[b].party # NoTaker /\ ~sess[b].moved
          /\ \A p \in Procs, k \in Kinds : run[p][k].b # b
          /\ sess' = [sess EXCEPT ![b].done = TRUE]
      BY <2>1 DEF Abandon, Unfinished, Calm
    <2>3. \A c \in Blocks : sess'[c].party = sess[c].party /\ (c # b => sess'[c] = sess[c])
      BY <2>2, Marking
    <2>4. ~Tells(b)
      BY <2>2 DEF Tells
    <2>5. \A p \in Procs, k \in Kinds : Past(run[p][k]) => run[p][k].b \in Blocks
      BY Own DEF Placed, Past
    <2>6. \A p \in Procs : run[p]["settle"].b # b
      BY <2>2 DEF Kinds
    <2>7. \A c \in Blocks : sess'[c].done /\ ~sess[c].done => c = b
      BY <2>3
    <2> QED BY <1>1, <2>2, <2>3, <2>4, <2>5, <2>6, <2>7, KeepsGoes DEF Remembers
  <1> QED BY <1>2, <1>3

LEMMA KeptNext ==
  ASSUME Once, Calm, Alone, Flagged, Held, Live, Keeps, [Next]_vars
  PROVE  Held' /\ Live' /\ Keeps'
  <1>0. /\ TickInv /\ Sent /\ Spent /\ Remembers
        /\ UNCHANGED <<coins, sess, run>> => Held' /\ Live' /\ Keeps'
    BY Remembering, KeepsStays DEF Once, Calm
  <1>1. ASSUME NEW p \in Procs, TickStart(p) \/ TickStep(p) \/ Crash(p)
        PROVE  Held' /\ Live' /\ Keeps'
    <2>1. CASE TickStart(p) \/ Awaited(p) \/ Load(p) \/ Grace(p)
      BY <1>0, <2>1 DEF TickStart, Awaited, Load, Grace
    <2>2. CASE Handle(p) \/ Status(p) \/ Act(p) \/ PullNow(p)
      BY <1>0, <2>2 DEF Handle, Status, Act, PullNow
    <2> QED BY <1>0, <1>1, <2>1, <2>2, ResumeKept, PollKept, CrashKept DEF TickStep
  <1>2. ASSUME NEW p \in Procs, NEW k \in Kinds, RunStep(p, k) \/ Throws(p, k)
        PROVE  Held' /\ Live' /\ Keeps'
    BY <1>0, <1>2, RunKept
  <1>3. CASE GraceLapses \/ Taking \/ UNCHANGED vars
    BY <1>0, <1>3 DEF GraceLapses, Taking, vars, agVars
  <1> QED BY <1>0, <1>1, <1>2, <1>3, CommandKept DEF Next

Found == Once /\ (Calm => Alone /\ Flagged /\ Held /\ Live /\ Keeps)

LEMMA FoundInv ==
  /\ Init => Found
  /\ Found /\ [Next]_vars => Found'
  /\ Found => SessionKept
  <1>1. Init => Found
    BY OnceInv, AloneInit, LiveInit DEF Found
  <1>2. ASSUME Found, [Next]_vars PROVE Found'
    <2>1. Once' /\ TickInv
      BY <1>2, OnceInv DEF Found, Once
    <2>2. Calm' = Calm
      BY <1>2, OnceOpened DEF setup, Calm
    <2>3. ASSUME Calm PROVE Alone' /\ Flagged' /\ Held' /\ Live' /\ Keeps'
      BY <1>2, <2>1, <2>3, AloneNext, FlaggedNext, KeptNext DEF Found
    <2> QED BY <2>1, <2>2, <2>3 DEF Found
  <1>3. Found => SessionKept
    BY DEF Found, Calm, Keeps, Tells, SessionKept
  <1> QED BY <1>1, <1>2, <1>3

\* Coins that are out are in a session file that auto-resume still looks at, or
\* are about to be: the files the tick, settleTake and the commands write, under
\* any interleaving, deaths and failing relay calls.
THEOREM CoinsFound == Spec => []SessionKept
  BY FoundInv, PTL DEF Spec
=============================================================================
