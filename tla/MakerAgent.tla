---------------------------- MODULE MakerAgent -----------------------------
(***************************************************************************)
(* The unattended maker of integrations/hermes/scripts/xnoxmr.cjs: one     *)
(* identity, one side, one state file, one session file per offer block,   *)
(* one lock file, and the processes that run `tick --live` over them with  *)
(* AUTOSETTLE on.  Under `watch` there is one process and settlements and  *)
(* resumes run beside its ticks; under cron every tick is a process and    *)
(* they run inside it.  Any relay call, any of their waits and any write   *)
(* may fail in the windows of `windows`.                                   *)
(*                                                                         *)
(* A price is what the oracles agree on at a reading: "good" certifies     *)
(* every take, "poor" the large ones only (fees are fixed), and "none" is   *)
(* no trustworthy price.                                                   *)
(*                                                                         *)
(* maker   how it is run (never changes)                                    *)
(* windows the faults that strike (never changes), of                       *)
(*   reuse     a second take is settled on one offer block                  *)
(*   lock      a tick outlives the ten minutes of its lock: a cron tick     *)
(*             waits for a settlement, a watch tick is stuck                *)
(*   abandon   an operator abandons a session that is being settled         *)
(*   gap       a run ends between the coins' leaving and its record         *)
(*   unopened  the maker's own XNO does not show within FUND_WAIT_MS        *)
(*   relay     a call to the relay or to the book fails, done or not        *)
(*   torn      a death in the midst of writing a file                       *)
(* posted  the last offer block published                                  *)
(* st      the state file: offer (NoBlock: none) and recent, the superseded *)
(*         blocks whose GRACE_MS are not over                              *)
(* sess    the session files: party (the taker whose key package it        *)
(*         holds), moved (fund or lock), ready (what a resume needs), done *)
(* coins   the maker's coins in the joint account of each taker's deal     *)
(* lock    the lock file: who wrote it, whether that process is gone       *)
(* flag    __settling (its slot) and __resuming of each process            *)
(* proc    each tick: where it stands and what it read                     *)
(* run     the live settlement and resume coroutines it started            *)
(***************************************************************************)
EXTENDS Rendezvous

CONSTANTS
    Procs,       \* ticks that may be under way at a time: a process each under cron,
                 \* all of one process under `watch`
    Watcher,     \* that process
    Makers,      \* ways to run it: [watch : BOOLEAN, isA : BOOLEAN], isA when the
                 \* maker sells XNO (side 0)
    Prices,      \* what the oracles may show: "good", "poor", "none"
    Small,       \* takers whose deal only a good price certifies
    NoTaker,     \* no taker: an empty session file
    MaxEvents,   \* bound: process deaths, commands an operator runs by hand, calls
                 \* that fail in "relay" and "gap", ticks that start over a live one
    Stuck,       \* blocks whose deals never come to an end (liveness only)
    AllWindows   \* the values of windows to look at

ASSUME MakerAgentAssumption ==
    /\ Watcher \in Procs /\ "nobody" \notin Procs
    /\ Makers \subseteq [watch : BOOLEAN, isA : BOOLEAN]
    /\ Small \subseteq Takers /\ NoTaker \notin Takers
    /\ MaxEvents \in Nat
    /\ Prices \subseteq {"good", "poor", "none"} /\ Prices # {}
    /\ Stuck \subseteq Blocks
    /\ AllWindows \subseteq
         SUBSET {"reuse", "lock", "abandon", "gap", "unopened", "relay", "torn"}

VARIABLES maker, windows, posted, st, sess, coins, lock, flag, proc, run, events

setup == <<maker, windows>>
agVars == <<setup, posted, st, sess, coins, lock, flag, proc, run, events>>
vars == <<rvVars, agVars>>

Free == [by |-> "nobody", dead |-> FALSE]
Off == [at |-> "off", b |-> NoBlock, s |-> 0, t |-> NoTaker, fresh |-> FALSE]
NoSession == [party |-> NoTaker, moved |-> FALSE, ready |-> FALSE, done |-> FALSE]
Asleep == [pc |-> "idle", pr |-> "none", off |-> NoBlock, rec |-> {}, todo |-> {}, fit |-> {},
           ctx |-> NoBlock, part |-> "offer", grace |-> {}, hand |-> FALSE,
           verdict |-> "none", seen |-> {}, threw |-> FALSE]

Kinds == {"settle", "resume"}
Clear == RvSlots  \* a flag that is null
Blank == [offer |-> NoBlock, recent |-> {}]
Verdicts == {"none", "HOLD", "REPRICE", "WITHDRAW"}
Pcs == {"idle", "resume", "load", "handle", "poll", "settling", "resuming",
        "grace", "status", "act", "pull"}

TypeOK ==
    /\ RvTypeOK
    /\ maker \in Makers /\ windows \in AllWindows
    /\ posted \in 0 .. MaxBlocks
    /\ st \in [offer : Blocks \cup {NoBlock}, recent : SUBSET Blocks]
    /\ sess \in [Blocks -> [party : Takers \cup {NoTaker}, moved : BOOLEAN,
                            ready : BOOLEAN, done : BOOLEAN]]
    /\ coins \in [Takers -> {"home", "staked", "back", "twice"}]
    /\ lock \in [by : Procs \cup {"nobody"}, dead : BOOLEAN]
    /\ proc \in [Procs -> [pc : Pcs, pr : Prices \cup {"none"}, off : Blocks \cup {NoBlock},
                           rec : SUBSET Blocks, todo : SUBSET SlotIds, fit : SUBSET SlotIds,
                           ctx : Blocks \cup {NoBlock}, part : {"offer", "grace", "guard"},
                           grace : SUBSET Blocks, hand : BOOLEAN,
                           verdict : Verdicts, seen : SUBSET SlotIds, threw : BOOLEAN]]
    /\ flag \in [Procs -> [Kinds -> SlotIds \cup {Clear}]]
    /\ run \in [Procs -> [Kinds -> [at : {"off", "ceremony", "stake", "record", "ready", "finish"},
                                    b : Blocks \cup {NoBlock}, s : SlotIds,
                                    t : Takers \cup {NoTaker}, fresh : BOOLEAN]]]
    /\ events \in 0 .. MaxEvents

Init ==
    /\ RvInit
    /\ maker \in Makers /\ windows \in AllWindows
    /\ posted = 0
    /\ st = Blank
    /\ sess = [b \in Blocks |-> NoSession]
    /\ coins = [t \in Takers |-> "home"]
    /\ lock = Free
    /\ flag = [p \in Procs |-> [k \in Kinds |-> Clear]]
    /\ proc = [p \in Procs |-> Asleep]
    /\ run = [p \in Procs |-> [k \in Kinds |-> Off]]
    /\ events = 0

-----------------------------------------------------------------------------
(* certify, at the price of the tick and at MIN_ACCEPT_BPS.                *)

Fits(price) == IF price = "good" THEN Takers ELSE Takers \ Small

\* The process a tick and its coroutines belong to, and the ticks it dies with.
Home(p) == IF maker.watch THEN Watcher ELSE p
Mates(p) == {q \in Procs : Home(q) = Home(p)}

Settling(p) == flag[Home(p)]["settle"] # Clear
Busy(p, k) == run[p][k].at # "off"

Goes(p, pc) == proc' = [proc EXCEPT ![p].pc = pc]

\* One of the faults of a window.
Fault(w) == w \in windows /\ events < MaxEvents /\ events' = events + 1

\* A coroutine starts, under watch with its flag up.  Bound: a tick has one of
\* each kind.
Starts(p, k, r) ==
    /\ ~Busy(p, k)
    /\ run' = [run EXCEPT ![p][k] = r]
    /\ flag' = IF maker.watch THEN [flag EXCEPT ![Home(p)][k] = r.s] ELSE flag

\* It ends, and clears its process's flag whichever coroutine raised it.
Stops(p, k) ==
    /\ run' = [run EXCEPT ![p][k] = Off]
    /\ flag' = [flag EXCEPT ![Home(p)][k] = Clear]

-----------------------------------------------------------------------------
(* One tick.                                                               *)

\* lockAcquire: no lock file, or one whose holder is dead.
TakeableFree(l) == l.by = "nobody"  \* mutant: a dead holder keeps the lock
Takeable(l) == l.by = "nobody" \/ l.dead

\* Or one ten minutes old, which another tick of cron finds, and under watch a
\* tick over one stuck longer than TICK_TIMEOUT: runTick lets go of that one.
Overdue(l) == l.by \in Procs /\ Fault("lock")

TickStart(p) ==
    /\ proc[p].pc = "idle"
    /\ \/ /\ Takeable(lock) /\ (maker.watch => p = Watcher)
          /\ UNCHANGED events
       \/ Overdue(lock)
    /\ lock' = [by |-> Home(p), dead |-> FALSE]
    /\ proc' = [proc EXCEPT ![p] = [Asleep EXCEPT !.pc = "resume"]]
    /\ UNCHANGED <<setup, rvVars, posted, st, sess, coins, flag, run>>

\* finally { lockRelease() }: unlinks whatever lock is there.
Ends(p) ==
    /\ proc' = [proc EXCEPT ![p] = Asleep]
    /\ lock' = Free

\* The session files auto-resume looks at, and what it decides of each.
Unfinished == {b \in Blocks : sess[b].party # NoTaker /\ ~sess[b].done}
ResumableAny(b) == TRUE  \* mutant: whatever is unfinished is run again
Resumable(b) == IF maker.isA THEN sess[b].moved /\ sess[b].ready ELSE sess[b].moved
DroppableUnready(b) == ~Resumable(b)  \* mutant: also a funded one that never opened
Droppable(b) == ~Resumable(b) /\ ~sess[b].moved

\* __settling or __resuming.
Engaged(p) == \E k \in Kinds : flag[Home(p)][k] # Clear

\* Files are taken in order; those where nothing moved are marked done, those
\* that are funded but not open are passed over, the first resumable one is
\* run, and the scan stops there.
Resume(p) ==
    LET ready == {b \in Unfinished : Resumable(b)}
        upto == IF ready = {} THEN Blocks ELSE 1 .. Min(ready)
        here == IF ready = {} THEN NoBlock ELSE Min(ready)
    IN /\ proc[p].pc = "resume"
       /\ IF Engaged(p)
          THEN Goes(p, "load") /\ UNCHANGED <<sess, run, flag>>
          ELSE /\ sess' = [b \in Blocks |->
                      IF b \in Unfinished \cap upto /\ Droppable(b)
                      THEN [sess[b] EXCEPT !.done = TRUE] ELSE sess[b]]
               /\ IF here = NoBlock
                  THEN Goes(p, "load") /\ UNCHANGED <<run, flag>>
                  ELSE /\ Starts(p, "resume", [Off EXCEPT !.at = "stake", !.b = here,
                                                          !.t = sess[here].party])
                       /\ Goes(p, IF maker.watch THEN "load" ELSE "resuming")
       /\ UNCHANGED <<setup, rvVars, posted, st, coins, lock, events>>

\* Where a tick goes on after the rows of a look: those of the resting offer and
\* of each superseded block come before the offer's status, the guard's after.
After(part) == IF part = "guard" THEN "act" ELSE "grace"
Onward(me) == IF me.todo = {} THEN After(me.part) ELSE "handle"

\* A cron tick awaits its coroutine; whatever came of it, the tick goes on.
Awaited(p) ==
    /\ \/ /\ proc[p].pc = "resuming" /\ ~Busy(p, "resume")
          /\ Goes(p, "load")
       \/ /\ proc[p].pc = "settling" /\ ~Busy(p, "settle")
          /\ Goes(p, Onward(proc[p]))
    /\ UNCHANGED <<setup, rvVars, posted, st, sess, coins, lock, flag, run, events>>

\* What peekTakes shows of block b.  A slot whose request cannot be fetched is
\* left out, one whose reply cannot be is taken for unanswered.
Look(b, rows) ==
    \/ /\ rows = IF b = NoBlock THEN {} ELSE PeekTakes(b)
       /\ UNCHANGED events
    \/ /\ b # NoBlock /\ \A s \in rows : Valid(b, s)
       /\ Fault("relay")

\* The rows of a look at block b, certified, for handleTake to go through.
Peek(me, b, rows, part) ==
    [me EXCEPT !.pc = IF rows = {} THEN After(part) ELSE "handle", !.part = part,
               !.ctx = b, !.todo = rows, !.fit = {s \in rows : TakerAt(b, s) \in Fits(me.pr)}]

\* Some request on the resting offer has no reply yet.
Pending == \E s \in SlotIds : req[st.offer][s] # {} /\ resp[st.offer][s] = "none"

\* The price and the state file, read once.  Without a price the offer is
\* pulled, unless a take is pending on it (a fetch that fails ends that search,
\* and then none is); with one, TAKES FIRST.
Load(p) ==
    /\ proc[p].pc = "load"
    /\ \E price \in Prices :
         LET read == [proc[p] EXCEPT !.pr = price, !.off = st.offer, !.rec = st.recent,
                                     !.grace = st.recent \ {st.offer}, !.pc = "pull"]
         IN \/ /\ price = "none" /\ (st.offer # NoBlock => Pending)
               /\ UNCHANGED events
               /\ Ends(p)
            \/ /\ price = "none" /\ st.offer # NoBlock
               /\ \/ ~Pending /\ UNCHANGED events
                  \/ Pending /\ Fault("relay")
               /\ proc' = [proc EXCEPT ![p] = read]
               /\ UNCHANGED lock
            \/ /\ price # "none"
               /\ \E rows \in SUBSET SlotIds :
                    /\ Look(st.offer, rows)
                    /\ proc' = [proc EXCEPT ![p] = Peek(read, st.offer, rows, "offer")]
               /\ UNCHANGED lock
    /\ UNCHANGED <<setup, rvVars, posted, st, sess, coins, flag, run>>

\* The superseded blocks still in their grace window, one after the other.
Grace(p) ==
    LET me == proc[p]
        olds == me.grace \cap st.recent
    IN /\ me.pc = "grace"
       /\ \/ /\ olds = {} \/ Settling(p)
             /\ proc' = [proc EXCEPT ![p] = [me EXCEPT !.pc = "status", !.grace = {}]]
             /\ UNCHANGED events
          \/ /\ olds # {} /\ ~Settling(p)
             /\ \E rows \in SUBSET SlotIds :
                  /\ Look(Min(olds), rows)
                  /\ proc' = [proc EXCEPT ![p] =
                        [Peek(me, Min(olds), rows, "grace") EXCEPT !.grace = @ \ {Min(olds)}]]
       /\ UNCHANGED <<setup, rvVars, posted, st, sess, coins, lock, flag, run>>

\* A decline whose post throws ends the tick, in the first look; the grace look
\* goes on with the next block; the guard's swallows it and the verdict stands.
Throwing(p) ==
    LET me == proc[p]
    IN CASE me.part = "offer" -> Ends(p)
         [] me.part = "grace" -> /\ proc' = [proc EXCEPT ![p] = [me EXCEPT !.pc = "grace", !.todo = {}]]
                                 /\ UNCHANGED lock
         [] me.part = "guard" -> /\ proc' = [proc EXCEPT ![p] = [me EXCEPT !.pc = "act", !.todo = {},
                                                                           !.threw = TRUE]]
                                 /\ UNCHANGED lock

\* handleTake of the next row.  Rows and certificates are those of the look.  A
\* certified one is polled for, unless another is settling: it is then declined,
\* and a failure of that is swallowed.
Handle(p) ==
    LET me == proc[p]
        s == Min(me.todo)
        left == [me EXCEPT !.todo = @ \ {s}, !.pc = IF me.todo = {s} THEN After(me.part) ELSE @]
        held == [left EXCEPT !.hand = TRUE]
    IN /\ me.pc = "handle"
       /\ \/ /\ s \notin me.fit
             /\ resp' = PostDecline(me.ctx, s)
             /\ proc' = [proc EXCEPT ![p] = left]
             /\ UNCHANGED <<lock, events>>
          \/ /\ s \notin me.fit /\ Fault("relay")
             /\ resp' \in {resp, PostDecline(me.ctx, s)}
             /\ Throwing(p)
          \/ /\ s \in me.fit /\ Settling(p)
             /\ \/ /\ resp' = IF flag[Home(p)]["settle"] = s THEN resp ELSE PostDecline(me.ctx, s)
                   /\ UNCHANGED events
                \/ resp' = resp /\ Fault("relay")
             /\ proc' = [proc EXCEPT ![p] = held]
             /\ UNCHANGED lock
          \/ /\ s \in me.fit /\ ~Settling(p)
             /\ proc' = [proc EXCEPT ![p] = [held EXCEPT !.pc = "poll"]]
             /\ UNCHANGED <<resp, lock, events>>
       /\ UNCHANGED <<setup, book, req, taker, posted, st, sess, coins, flag, run>>

\* makerPollTake accepts some slot of the block, not necessarily the row's, and
\* settleTake starts on it.  Its declines may fail unseen; a fetch or the
\* acceptance that fails, sent or not, leaves no settlement.
Poll(p) ==
    LET me == proc[p]
        fits == Fits(me.pr)
        replies == PollReplies(me.ctx, fits)
        good == Pollable(me.ctx, fits)
        pick == Min(good)
    IN /\ me.pc = "poll"
       /\ \E sent \in SUBSET DOMAIN replies :
            /\ \/ sent = DOMAIN replies /\ UNCHANGED events
               \/ Fault("relay")
            /\ resp' = ReplyTo(me.ctx, [s \in sent |-> replies[s]])
            /\ \/ /\ good # {} /\ pick \in sent
                  /\ Starts(p, "settle", [at |-> "ceremony", b |-> me.ctx, s |-> pick,
                                          t |-> TakerAt(me.ctx, pick),
                                          fresh |-> resp[me.ctx][pick] = "none"])
                  /\ Goes(p, IF maker.watch THEN Onward(me) ELSE "settling")
               \/ /\ good = {} \/ events' # events
                  /\ Goes(p, Onward(me))
                  /\ UNCHANGED <<run, flag>>
       /\ UNCHANGED <<setup, book, req, taker, posted, st, sess, coins, lock>>

\* offerStatus at the price of now: any verdict (age, drift and price are left open), then the
\* guard: rows that appeared since are answered before the block is pulled.
Verdict == {"REPRICE", "HOLD", "WITHDRAW"}

Guarded(p, v) == v # "HOLD" /\ ~Settling(p) /\ ~proc[p].hand

Status(p) ==
    LET me == proc[p]
    IN /\ me.pc = "status"
       /\ \/ /\ st.offer = NoBlock
             /\ proc' = [proc EXCEPT ![p] = [me EXCEPT !.pc = "act", !.verdict = "none"]]
             /\ UNCHANGED events
          \/ /\ st.offer # NoBlock
             /\ \E v \in Verdict :
                  \/ /\ me.off = NoBlock \/ ~Guarded(p, v)
                     /\ proc' = [proc EXCEPT ![p] = [me EXCEPT !.pc = "act", !.verdict = v]]
                     /\ UNCHANGED events
                  \/ /\ me.off # NoBlock /\ Guarded(p, v)
                     /\ \E rows \in SUBSET SlotIds :
                          /\ Look(me.off, rows)
                          /\ proc' = [proc EXCEPT ![p] = [Peek(me, me.off, rows, "guard")
                                                         EXCEPT !.verdict = v, !.seen = rows]]
       /\ UNCHANGED <<setup, rvVars, posted, st, sess, coins, lock, flag, run>>

\* publishWithdraw and publishPost, each with recordSuperseded and stSave.
Withdrawn(p) == [offer |-> NoBlock,
                 recent |-> (proc[p].rec \cap st.recent) \cup ({proc[p].off} \ {NoBlock})]
Pull(p) ==
    /\ book' = NoBlock
    /\ st' = Withdrawn(p)
    /\ UNCHANGED posted
Post(p) ==
    /\ posted < MaxBlocks
    /\ posted' = posted + 1
    /\ book' = posted + 1
    /\ st' = [Withdrawn(p) EXCEPT !.offer = posted + 1]

\* Either throws, before or after its block is out: the tick ends there, with
\* what was saved before.
PullThrows == /\ Fault("relay")
              /\ book' \in {book, NoBlock}
              /\ UNCHANGED <<posted, st>>
PostThrows(saved) == /\ Fault("relay") /\ posted < MaxBlocks
                     /\ posted' = posted + 1
                     /\ book' = posted + 1
                     /\ st' = saved

\* A settlement, a take just answered, or the verdict keeps the offer.
HoldsOnVerdict(p) == proc[p].verdict = "HOLD"  \* mutant: a take just answered does not
Holds(p) == Settling(p) \/ proc[p].hand \/ proc[p].verdict = "HOLD"

\* Step 3: the resting offer itself.  A post may be refused: nothing to fund it
\* with, or no certified win.
Act(p) ==
    LET me == proc[p]
    IN /\ me.pc = "act"
       /\ \/ /\ \/ Holds(p) /\ UNCHANGED <<book, st, posted>>
                \/ ~Holds(p) /\ me.verdict # "none" /\ Pull(p)
                \/ ~Holds(p) /\ me.verdict # "WITHDRAW" /\ Post(p)
                \/ ~Holds(p) /\ me.verdict = "none" /\ UNCHANGED <<book, st, posted>>
             /\ UNCHANGED events
          \/ ~Holds(p) /\ me.verdict # "none" /\ PullThrows
          \/ /\ ~Holds(p) /\ me.verdict # "WITHDRAW"
             /\ PostThrows(IF me.verdict = "none" THEN st ELSE Withdrawn(p))
       /\ Ends(p)
       /\ UNCHANGED <<setup, req, resp, taker, sess, coins, flag, run>>

PullNow(p) ==
    /\ proc[p].pc = "pull"
    /\ (Pull(p) /\ UNCHANGED events) \/ PullThrows
    /\ Ends(p)
    /\ UNCHANGED <<setup, req, resp, taker, sess, coins, flag, run>>

-----------------------------------------------------------------------------
(* settleTake and the resumed runA / runB: markers land in the store as    *)
(* the steps they record are done.                                         *)

RunGoes(p, k, at) == run' = [run EXCEPT ![p][k].at = at]

\* The joint ceremony needs the taker who read this very reply; its result
\* overwrites `party`, and no other marker, of the block's session file.
Ceremony(p) ==
    LET r == run[p]["settle"]
    IN /\ r.at = "ceremony"
       /\ r.fresh /\ taker[r.t].pc = "accepted"
       /\ "reuse" \notin windows => sess[r.b].party = NoTaker
       /\ sess' = [sess EXCEPT ![r.b].party = r.t]
       /\ RunGoes(p, "settle", "stake")
       /\ UNCHANGED <<setup, rvVars, posted, st, coins, lock, flag, proc, events>>

Staked == IF maker.isA THEN "ready" ELSE "finish"

\* The coins leave (A funds, B locks), unless a marker says they already have.
Stake(p, k) ==
    LET r == run[p][k]
    IN /\ r.at = "stake"
       /\ IF sess[r.b].moved
          THEN RunGoes(p, k, Staked) /\ UNCHANGED coins
          ELSE /\ coins' = [coins EXCEPT ![r.t] = IF @ = "home" THEN "staked" ELSE "twice"]
               /\ RunGoes(p, k, "record")
       /\ UNCHANGED <<setup, rvVars, posted, st, sess, lock, flag, proc, events>>

\* The send returned: its marker is written.
Record(p, k) ==
    /\ run[p][k].at = "record"
    /\ sess' = [sess EXCEPT ![run[p][k].b].moved = TRUE]
    /\ RunGoes(p, k, Staked)
    /\ UNCHANGED <<setup, rvVars, posted, st, coins, lock, flag, proc, events>>

\* fundTimeout, which marks a settlement done: of B before its lock (or a gate
\* declines), of A when its own XNO does not show.  A cron tick takes the
\* funding timeout for a settlement and clears the offer.
Decline(p, k) ==
    LET r == run[p][k]
    IN /\ \/ ~maker.isA /\ r.at = "stake" /\ ~sess[r.b].moved
          \/ /\ maker.isA /\ r.at = "ready" /\ k = "settle" /\ ~sess[r.b].ready
             /\ "unopened" \in windows
       /\ sess' = [sess EXCEPT ![r.b].done = TRUE]
       /\ Stops(p, k)
       /\ \/ UNCHANGED st
          \/ k = "settle" /\ ~maker.watch /\ st' = [st EXCEPT !.offer = NoBlock]
       /\ UNCHANGED <<setup, rvVars, posted, coins, lock, proc, events>>

\* A's open and refund are stored.
Ready(p, k) ==
    /\ run[p][k].at = "ready"
    /\ sess' = [sess EXCEPT ![run[p][k].b].ready = TRUE]
    /\ RunGoes(p, k, "finish")
    /\ UNCHANGED <<setup, rvVars, posted, st, coins, lock, flag, proc, events>>

\* The run returns: swapped, refunded or recovered.  A settlement that swapped
\* clears the offer of the state file, a resume leaves it.
Finish(p, k) ==
    LET r == run[p][k]
    IN /\ r.at = "finish"
       /\ coins' = [coins EXCEPT ![r.t] = IF @ = "staked" THEN "back" ELSE @]
       /\ sess' = [sess EXCEPT ![r.b].done = TRUE]
       /\ Stops(p, k)
       /\ \/ UNCHANGED <<st, proc>>
          \/ /\ k = "settle"
             /\ st' = [st EXCEPT !.offer = NoBlock]
             /\ proc' = IF maker.watch THEN proc ELSE [proc EXCEPT ![p].off = NoBlock]
       /\ UNCHANGED <<setup, rvVars, posted, lock, events>>

\* It throws: the ceremony times out, the peer is gone, a node does not answer.
Throws(p, k) ==
    /\ Busy(p, k)
    /\ IF run[p][k].at = "record" THEN Fault("gap") ELSE UNCHANGED events
    /\ Stops(p, k)
    /\ UNCHANGED <<setup, rvVars, posted, st, sess, coins, lock, proc>>

RunStep(p, k) == \/ k = "settle" /\ Ceremony(p)
                 \/ Stake(p, k) \/ Record(p, k) \/ Decline(p, k) \/ Ready(p, k) \/ Finish(p, k)

-----------------------------------------------------------------------------
(* The surroundings.                                                       *)

\* The process dies, its coroutines with it; its lock file stays behind.  A file
\* it was writing may be left torn, which reads as nothing.
Crash(p) ==
    LET gone == Mates(p)
        ran == {run[q][k].b : q \in gone, k \in Kinds} \cap Blocks
    IN /\ events < MaxEvents
       /\ \E q \in gone : proc[q].pc # "idle" \/ \E k \in Kinds : Busy(q, k)
       /\ "gap" \in windows \/ \A q \in gone, k \in Kinds : run[q][k].at # "record"
       /\ events' = events + 1
       /\ proc' = [q \in Procs |-> IF q \in gone THEN Asleep ELSE proc[q]]
       /\ run' = [q \in Procs |-> IF q \in gone THEN [k \in Kinds |-> Off] ELSE run[q]]
       /\ flag' = [flag EXCEPT ![Home(p)] = [k \in Kinds |-> Clear]]
       /\ lock' = IF lock.by = Home(p) THEN [lock EXCEPT !.dead = TRUE] ELSE lock
       /\ \/ UNCHANGED <<st, sess>>
          \/ /\ "torn" \in windows
             /\ \/ st' = Blank /\ UNCHANGED sess
                \/ /\ \E b \in ran : sess' = [sess EXCEPT ![b] = NoSession]
                   /\ UNCHANGED st
       /\ UNCHANGED <<setup, rvVars, posted, coins>>

\* What an operator runs beside the loop, without taking the lock: `settle
\* --abandon`, `offer withdraw`, `offer post` and `decline`.
Abandon(b) ==
    /\ b \in Unfinished /\ ~sess[b].moved
    /\ "abandon" \in windows \/ \A p \in Procs, k \in Kinds : run[p][k].b # b
    /\ sess' = [sess EXCEPT ![b].done = TRUE]
    /\ UNCHANGED <<book, resp, posted, st>>

WithdrawOffer ==
    /\ book' = NoBlock
    /\ st' = [st EXCEPT !.offer = NoBlock]
    /\ UNCHANGED <<resp, posted, sess>>

PostOffer ==
    /\ posted < MaxBlocks
    /\ posted' = posted + 1
    /\ book' = posted + 1
    /\ st' = [st EXCEPT !.offer = posted + 1]
    /\ UNCHANGED <<resp, sess>>

DeclineSlot(s) ==
    /\ st.offer # NoBlock /\ req[st.offer][s] # {}
    /\ resp' = PostDecline(st.offer, s)
    /\ UNCHANGED <<book, posted, st, sess>>

Command ==
    /\ events < MaxEvents
    /\ events' = events + 1
    /\ \/ \E b \in Blocks : Abandon(b)
       \/ WithdrawOffer \/ PostOffer
       \/ \E s \in SlotIds : DeclineSlot(s)
    /\ UNCHANGED <<setup, req, taker, coins, lock, flag, proc, run>>

\* A superseded block's GRACE_MS are over.
GraceLapses ==
    /\ \E b \in st.recent : st' = [st EXCEPT !.recent = @ \ {b}]
    /\ UNCHANGED <<setup, rvVars, posted, sess, coins, lock, flag, proc, run, events>>

Taking == \E t \in Takers : TakerNext(t) /\ UNCHANGED agVars

TickStep(p) == \/ Resume(p) \/ Awaited(p) \/ Load(p) \/ Grace(p)
               \/ Handle(p) \/ Poll(p) \/ Status(p) \/ Act(p) \/ PullNow(p)

Next ==
    \/ \E p \in Procs : \/ TickStart(p) \/ TickStep(p) \/ Crash(p)
                       \/ \E k \in Kinds : RunStep(p, k) \/ Throws(p, k)
    \/ Command \/ GraceLapses \/ Taking

Spec == Init /\ [][Next]_vars

\* Fairness: the interval timer or cron starts ticks for ever and a tick runs to
\* its end (TICK_TIMEOUT, timeouts on every wait); a resume that is retried for
\* ever finds its nodes answering sooner or later, except on the stuck blocks.
FairSpec ==
    /\ Spec
    /\ \A p \in Procs :
         /\ WF_vars(TickStart(p)) /\ WF_vars(TickStep(p))
         /\ \A k \in Kinds : WF_vars(RunStep(p, k) \/ Throws(p, k))
         /\ SF_vars(run[p]["resume"].b \notin Stuck /\ Stake(p, "resume"))
         /\ SF_vars(run[p]["resume"].b \notin Stuck /\ Ready(p, "resume"))
         /\ SF_vars(run[p]["resume"].b \notin Stuck /\ Finish(p, "resume"))

-----------------------------------------------------------------------------
(* Properties.                                                             *)

\* Coins that left for a deal can be brought home after a restart: some
\* session file that auto-resume still looks at holds that deal's key package
\* and says that they left, or the run that sent them is about to write it ("a
\* dead process's swap either completes, refunds ... or recovers").  Each window
\* but "relay" breaks it.
SessionKept ==
    windows \subseteq {"relay"} =>
    \A t \in Takers : coins[t] = "staked" =>
        \E b \in Blocks :
            /\ sess[b].party = t /\ ~sess[b].done
            /\ \/ sess[b].moved
               \/ \E p \in Procs, k \in Kinds : run[p][k].at = "record" /\ run[p][k].b = b

\* The coins of a deal leave once, however many ticks are re-entered, resumed,
\* killed or started over a live one, and whether or not the send was recorded
\* ("session steps are store-guarded, safe to re-enter"), as long as no session
\* file is torn.
StakedOnce == "torn" \notin windows => \A t \in Takers : coins[t] # "twice"

\* Every deal whose coins have left, and that a restarted process can carry on
\* alone, comes to an end ("a dead process's swap either completes, refunds (XNO
\* side), or recovers the locked XMR").
Recovered ==
    \A b \in Blocks \ Stuck : (sess[b].moved /\ Resumable(b)) ~> sess[b].done

\* The agent never pulls or replaces a block whose last look before doing so
\* showed a valid take that has no reply, but for a look whose answering threw
\* ("so NEVER withdraw/reprice/repost a block that still has an unanswered VALID
\* take").
NoOrphan ==
    [][\A p \in Procs : \A s \in proc[p].seen :
          book' # book /\ proc[p].pc = "act" /\ proc'[p].pc = "idle" /\ ~proc[p].threw
          => resp[proc[p].off][s] # "none"]_vars
=============================================================================
