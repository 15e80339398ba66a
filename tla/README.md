# TLA+ models of NearInstant

NearInstant swaps XNO (Nano) for XMR (Monero) between two strangers, without a custodian.
The Nano goes into a joint account that only both can sign for, the Monero into a joint
address that only both can spend from, and an adaptor signature ties the two: the
signature with which one party takes the Nano publishes the share of the Monero key the
other party lacks. The repository holds several implementations of that idea:

- `web/two_party.js`, the drivers the page and the unattended agent run today: one swap,
  three co-signing rounds, with an adaptor refund;
- `swap-core/swap-engine`, the deterministic machine that cuts a swap into chunks and
  bounds the loss, ported to `web/swap_machine.js`;
- `swap-core/swap-executor` and `nano-ceremony`, the settlement of one chunk by two native
  processes, with guard rung, confirm-before-reveal and checkpoints.

The specifications here state what these programs promise and check it: small instances
with TLC, the main safety properties for all values of the constants with TLAPS.

## 1. Inventory

For each part: state; operations; partners; what is hard; what makes it correct.

**Two-party drivers** (`web/two_party.js`). State: a session store per side (`fund`,
`open`, `refund`, `lock`, `presigned`, `claim`, `x`, ..., and `rsAtt:<step>`), written
after each step; the joint account; the joint address. Operations: `takerHandshake` and
`makerPollTake` (meeting), key ceremony, `runA`/`runB` with `coOpen`, `coSignRefundRole`,
claim round, `waitJointXmrLock`, `refundNow`, `recoverXmrFromRefund`, and the resume of
each. Partners: mailbox relays, Nano endpoints, a Monero daemon, the agent or page around
it. Hard: two processes crash and resume at different steps; every record follows an
irreversible act; A's timed-out refund races B's claim; a resumed round takes a new
channel. Correct when the Nano is claimed only over a standing lock, the lock is spent by
the party that did not get the Nano, B locks once and only under a refund, a public claim
can be turned into the Monero key, a session is closed only over a finished leg, and no
channel key encrypts two messages.

**Agent** (`integrations/hermes/scripts/xnoxmr.cjs`). State: a state file (the resting offer,
the superseded blocks in their grace window), a session file per offer block, a lock file,
and in each process what its tick has read. Operations: `tick` (resume, takes, grace
blocks, offer status, act), `settleTake`, the operator's commands. It runs as one process
that watches, with settlements and resumes beside its ticks, or as one process per tick
under cron. Hard: what a tick read is old when it acts; a process dies with the lock;
takes arrive while an offer is being replaced; a session's store lags behind the chain; a
stuck tick is started over; calls to the relay fail and some of the failures are swallowed.
Correct when coins that left can always be brought home, a deal's coins leave once however
often its session is run, no take that was seen is left without an answer, and every session
that can go on does.

**Certification and quotes** (`two_party.js`, `xnoxmr.cjs`). State: the price cache, the
resting offer with its baseline, the accepted deal with its certificate. Operations:
`marketPrice`, `certify`, `offerStatus`, `publishPost`, the gates before B's lock and A's
pre-signature. Hard: three places where a price may be old and a tick that takes its time;
BigInt division; sizes kept as a power of two in one coin or the other. Correct when nothing is done on an old price,
the loss since the acceptance is bounded, and an offer can be funded and taken.

**Page around the drivers** (`web/index.html`). The session list and what it offers for
each store: resume, refund only, drop.

**Swap machine** (`swap-engine/machine.rs`, `web/swap_machine.js`, `swap_responder.js`).
State: stage, chunk index, settled and in-flight amounts per side. Operations: `handle` of
each event, `abort_actions`, the returned actions. Hard: two copies see events at
different times; aborts at any stage; Monero reorgs. Correct when the loss never exceeds
the largest chunk, one chunk is in flight, and no secret leaves before its gate.

**Chunk schedule** (`schedule.rs`). A loop over a remaining total with a tail fold that
may push two chunks; correct when the chunks are within the cap, sum to the total, and a
call is refused exactly when it cannot fit.

**Chunk settlement** (`swap-executor/session.rs`, `driver.rs`, `checkpoint.rs`,
`nano-ceremony/broadcast.rs`, `transport/ceremonies.rs`). State: each process's position,
its checkpoint file, the frames on the wire, what each node holds of the joint account.
Operations: `run_alice`, `run_bob`, `bob_settle_chunk`, `alice_settle_chunk`,
`saturation_broadcast`, `broadcast_and_confirm`, `broadcast_secret_claim`, `resume_alice`,
`resume_bob`. Hard: nodes that miss a broadcast, lie about confirmations, or hold the
block already; crashes before and after the checkpoint. Correct when x is out only over a
cemented rung, Alice then has what extracts it, and saved settlements finish.

**Mailboxes and wires** (`web/mailbox.js`, `transport/mailbox.rs`). Boxes on relays, in
deterministic slots; send with retries, receive by polling until a deadline. Hard: a lost,
late or repeated message; key reuse.

**Rendezvous handshake** (in `two_party.js`). Eight slots of an offer's box on which takers
post, and as many for replies. Hard: two takers on one slot; a slot read before it is
posted to; two replies in one slot.

**One Nano account and what uses it** (`web/beacon.js`, `ledger_relay.js`, the Nano half of
`wallet.js`). The maker's account carries its offers, its messages in chunks, its payments
and what it receives, each by code of its own that reads the head, signs, works and
submits to several nodes. Hard: frontier races, nodes that lag, lie or lose an answer, a
post repeated after it half succeeded, epochs and clocks. Correct when no block burns
coins, a reader gets a message whole or not at all, and every taker's book shows what the
maker believes it shows.

**Monero wallet** (`web/wallet.js`, `wallet-worker.js`, `headless_wallet.js`). State: one
stored record per address (height, outputs, spent marks). Operations: scan in chunks,
rescan, send (build, mark, publish), lock. Hard: calls that overlap overwrite each other's
record; the marks are the only memory of what was spent. Correct when nothing is spent
twice and no output is passed over.

**Payment channels** (`channels/channel.rs`, `journal.rs`): one-way state updates and a
write-ahead journal. Hard: crash between journal and signature, replay.

**Pledges** (`pledge/bond.rs`, `stream.rs`, `terms.rs`): pre-signed exit chains, the
maturity split and the drip stream. Hard: order of posted blocks, truncated chains.

**Relay daemon and its book** (`dexd`, `dex-core/book.rs`). State: the book and the hashes
seen, behind two locks; peers and outboxes; a thread per connection and a sweeper.
Operations: dial, accept, join, ingest, flood, broadcast, sweep. Hard: the two locks are
taken one after the other; an order is marked before it is in the book; connections end at
any time. Correct when what is seen is what is in the book, and an order reaches everyone
connected.

**Matching and markets** (`matching.rs`, `market.rs`, `triggers.rs`): functions of a book, and trigger
orders over them.

**Maker, swapper and verifier programs**, **Monero side**
(`monero-side`: eclipse and fee checks, co-signing), **puzzle escrow**, **signing**,
**wasm bridges**: see `PROJECT.json`, which lists
every part with its status. `PROJECT.json` also lists the hazards by source line with the
properties that guard them, and the source lines each definition stands for.

## 2. The modules

| module | models |
|---|---|
| `AtomicSwap` | the abstract promise: two legs and the order in which they may move |
| `TwoParty` | the two-party drivers, their stores, the agent and page resumes |
| `MCTwoParty`, `TwoPartyProofs` | instances; theorems |
| `Settlement` | the native settlement of one chunk, broadcasts and checkpoints |
| `MCSettlement`, `SettlementProofs` | instances; theorems |
| `SwapMachine` | both copies of the chunk machine, over external executors and chains |
| `MCSwapMachine`, `SwapMachineProofs` | instances; theorems |
| `ChunkSchedule` | `Schedule::build`, one loop iteration per step |
| `MCChunkSchedule` | instances; theorems in `SwapMachineProofs` |
| `Rendezvous` | an offer's request and reply boxes, and its takers |
| `MakerAgent` | the unattended maker's processes over its files; extends `Rendezvous` |
| `Market` | what the maker decides by price, in the code's integer arithmetic |
| `NanoAccount` | one Nano account on honest and lying nodes |
| `LedgerMail` | a message posted through it in chunks; extends `NanoAccount` |
| `Beacon` | the offers published, paid and received through it; extends `LedgerMail` |
| `XmrWallet` | the wallet's Monero scan, send and lock |
| `DexRelay` | gossip relays, their books, connections and browsers |
| `MCMakerAgent`, `MCMarket`, `MCBeacon`, `MCXmrWallet`, `MCDexRelay` | instances |
| `MakerAgentProofs`, `MarketProofs`, `BeaconProofs`, `WalletProofs`, `RelayProofs` | theorems about `MakerAgent`, `Market`, `Beacon` and what it extends, `XmrWallet`, `DexRelay` |

`AtomicSwap` is instantiated by `TwoParty` and by `Settlement` with a refinement mapping
(`Swap == INSTANCE AtomicSwap WITH ...`): two unrelated programs with one promise.

### TwoParty

One state is a point between two awaits of two processes. `pc` names the await each driver
stands at; `store` is its persisted store; `joint`, `posted` and `settled` are the Nano
account (its open block has one successor, the claim or the refund); `locks`, `depth` and
`sweeper` the Monero output; `attempts`, `peerAtt`, `commits` and `shares` the co-signing
rounds. The model starts after the key ceremony, when both sides have their key packages.

- A: `FundSend`, `FundSave`, `FundGiveUp`, the open round, `OpenTx`, `OpenSave`, the refund round,
  `LockSeen`/`LockAbandon`, `ClaimGate`, the claim round, `PresignSave`,
  `ClaimSeen`/`ClaimDeadline`/`ClaimUnread`, `RefundPost`/`RefundRefused`/`RefundSave`,
  `XmrSweep`, `SweepSave`.
- B: the rounds, `FundGiveUp`, `LockGuard`, `LockDecline`, `LockSend`, `LockSave`,
  `CheckMoved`, `ConfWait`, `ClaimPost`, `ClaimSave`, `Fallback`, `Recover`, `RecoverNone`,
  `RecoverSave`.
- `FundGiveUp` is `coOpen`'s deadline (`two_party.js:743-758`), which ends either side's
  session; A's lies in the window `unprotected`, for its Nano has left by then.
- A round is `SendCommit`, `SendShare` and an end; a round fails when a bounded wait runs
  out (`RoundFail`). A share is bound to the pair of commitments it was made for, so mixed
  attempts do not aggregate.
- `Crash` kills a process anywhere; `Restart` is what the maker's `tick` (`"cli"`) or the
  page's session list (`"browser"`) does with a store: drop it, resume it, offer only the
  refund, continue into the lock.

Signatures are events: completing the claim reveals x, completing the refund reveals A's
Monero share. The mailbox keeps every message; loss shows as a failed round.

### Settlement

`pc` is the next step of each process, `sent` the frames on the wire (a ceremony is a round
of commitments and a round of shares, so a share leaves once the peer has entered), `cp`
the checkpoint files, `head` each node's frontier of the joint chain (open, rung, claim),
`cemented` what the network has confirmed, `todo`/`accepted` the broadcast loop of Bob,
one node per step. `Down` is a crash, an expired wait or a failed call: the process
returned an error or died, and only its checkpoint survives. A wire error needs no fault
of its own: it follows from the peer being down. `Gossip` and `Cement` are the Nano
network; a node refuses a block it already has. `Liars` answer confirmation queries as they
like. `cp = "missed"` is no file, with the memory that its write failed or that Alice died
just before it.

### SwapMachine, ChunkSchedule

`Handle(p)` is `handle` with one action per accepted event; an event the stage does not
expect is an error and changes nothing, so it is no step. Returned actions go to `todo`
and are performed in any order and at any time (`Dispatch`); an event can be fed while the
fact it reports holds, so the two copies may be arbitrarily far behind the world and
behind each other. `ChunkSchedule` runs every call in `Args`: argument checks in `BuildInit`,
one iteration per step, `Returned` a stutter so that a stuck loop is a deadlock.

### Rendezvous, MakerAgent

Boxes live on the ledger, so `req` and `resp` only grow; two messages in one slot blend
into bytes that parse as neither. `TakeOffer` reads the free slot and `PostTake` posts to
it later. The maker's side of the boxes is a set of operators (`PeekTakes`, `PollReplies`),
called by `MakerAgent` where `xnoxmr.cjs` calls `peekTakes` and `makerPollTake`.

`MakerAgent`: `proc[p].pc` is the point between two awaits at which the tick of a process
stands; the rest of `proc[p]` is what it has read and not read again (price, state file,
rows, certificates). `TickStart` takes the lock file, also from a tick that lives
(`Overdue`): one of another process whose lock is ten minutes old, or, under `watch`, one of
the same process, stuck longer than `TICK_TIMEOUT`, so that `Procs` are ticks and `Home` is
the process. `Resume`, `Load`, `Grace`, `Handle`, `Poll`, `Status`, `Act` and `PullNow` are
the parts of `tick` in their order; `run[p]` holds the settlement and the resume that a
watching process runs beside its ticks and a cron process awaits (`Awaited`), `flag` the
`__settling` and `__resuming` of a process, which whichever coroutine ends clears.
`Ceremony`, `Stake`, `Record`, `Decline`, `Ready`, `Finish` and `Throws` are `settleTake` and
the drivers as the session files see them: the coins leave in `Stake` and the marker that
says so is written in `Record`. Every relay call may fail, done or not: a request that
cannot be fetched is left out of a look (`Look`), a decline that throws ends the tick, the
grace block or only the guard (`Throwing`), a failed acceptance leaves no settlement
(`Poll`), a failed publish leaves its block out and the state file as it was
(`PullThrows`, `PostThrows`). `Crash` leaves the lock file behind, and perhaps a torn file,
which reads as none; `Command` is what an operator runs by hand, without the lock (`Abandon`
may end a buyer's session until its lock is on record, the code only until its joint account
is open: the model allows more). A price is "good", "poor" or "none": what it certifies is
all the tick looks at.

### Market

The arithmetic of `certify` at a smaller scale: `Quot` drops the fraction as BigInt does,
`MinViable` is the bisection, `Log2` the quantised size. `Readings` are all prices
`marketPrice` may return: the cache, a fetch on which two sources agree within six per
cent, the stale fallback. `Tick`, `Post`, `Status`, `Accept`, `Gate` are the decisions;
`Pass` lets time go by between any two of them. `born` is when the first of the answers
behind a price was given, which the code does not keep: it stamps a price after three
sources were asked one after the other (`FetchTime`), and a reading tries that three times
with pauses (`RetryTime`).

### NanoAccount, LedgerMail, Beacon

A block stands for the chain it ends. `view` is what each honest node has, `conf` what is
cemented; `Read` is what the quorum read can return, `Taken`/`Lost` the two ends of
`processBlock`, each for any set of nodes reached, and `Misled` the third: a lying node is the
first to answer and gives another block's hash, on which the caller then signs with the
balance it reckons (`Ahead`, `GoesOn`), as `ledger_relay.js:88` and `beacon.js:236` do. A
configuration of one node trusts its answer (`Single`). A deposit shown may have the wrong
amount, which a receive block does not survive, or a negative one, which makes the block a
send (`Drain`). One deposit is modelled. `LedgerMail` posts one message with the
retries of `LedgerRelay.post` and of `MailboxWire.send` around it; `Fetch` is what a reader
makes of the chunks it can see. `Beacon` adds `publish` and the wallet's `receive` and
`send` on the same account, an epoch and clocks, and the taker's `scan` and `scanLive` as
operators over the chain (`Live`). `windows` are fault classes, chosen in `Init`.

### XmrWallet

`file` is the stored record and `job` each call's own copy of it: a call reads it once and
writes it after every chunk, so calls overwrite each other. `Load`, `First`, `Scan`,
`Build`, `Mark`, `Publish` are the awaits of a refresh or a send; `Rescan` (to any height,
also above the tip), `Locks`, `Reload` are the user and the page, `Torn` the end of a
headless process in the middle of rewriting its file (`headless_wallet.js:127`). A write may
be dropped and a read find nothing, both unseen (`Save`, `Load`, `Marked`: the catches of
`wallet.js:316`, `:318`, `:372`, `:445`). `lost` is kept for the properties: the outputs
whose mark was not written, not read, or written over. A node's tip may be a block behind.

### DexRelay

`thread[r][x]` is where the thread of relay `r` for connection `x` stands: `Receive` marks
the hash under one lock, `Insert` puts the order into the book or takes the mark back under
both, `Flood` writes to the peers of that moment. `Snap` is the book sent to whoever joins.
`wire` counts copies under way and is lost with the connection; `Restart` loses everything
but the command line. `Drain` is a browser's thread, which looks into its outbox before it
reads a frame.

## 3. The runs

| run | instance and bounds | shows |
|---|---|---|
| `two_party_safety` | two browsers, 2 crashes each, all timers, gates, failed reads, every exposure window | types, `Implements` (AtomicSwap), `FreshNonce` |
| `two_party_protected` | unattended A, browser B, 2 crashes each, outside the windows; nodes may accept both successors | `LocksOnce`, `RefundInHand`, `Extractable`, `ClosedA`, `ClosedB` |
| `two_party_ends` | two agents, 2 crashes each, outside the windows, frontier reads answered, fairness | `Ends` |
| `settlement` | three nodes, one liar, quorum 2, three faults anywhere, fairness | types, `RevealCemented`, `Extractable`, `CheckpointKept`, `Implements`, `Settles` |
| `swap_machine_safety` | chunks 2, 3, 1; aborts at any stage, one reorg per lock; fairness | types, `LossBound`, `OneInFlight`, `ConfirmBeforeReveal`, `PresignMature`, `SeenLockBacked`, `Completes` |
| `schedule_build` | totals 0..24, bounds 0..6, count 0..5 | `Capped`, `Refusal`, `Total` |
| `agent_safety` | a watching seller of XNO and cron ticks of a buyer; two ticks, two takers, two blocks of two slots; one crash, command, failed relay call, tick started over a live one or send left unrecorded; `Bounded` | `SessionKept`, `StakedOnce`, `NoOrphan` |
| `agent_recovers` | cron ticks of a seller of XNO (whose resume has the more steps), one process, one slot, one crash or command, fairness | `Recovered` |
| `market` | both sides; four mids (moves of 0.3, 3 and 10 per cent), one asking margin, two balances, a fee of two atoms; seven quarter minutes | `FreshMid`, `WorstNet`, `Viable`, `Covered` |
| `ledger` | two honest nodes and a liar; a message of two chunks, two intents, epochs of 2, clocks 1 and 2 ahead; each fault class; `Bounded` | `NoBurn`, `Whole`, `BookTrue` |
| `wallet` | three blocks, two sends, chunks of one block; the page's scan, the user and a settlement; each of the windows, and overlap with rescan | `NoRespend`, `Complete` |
| `relay` | two relays, one of which dials, a page, two orders, one break, restart or leave; with and without a full book and a spent budget; fairness | `Dedup`, `Spread` |

Why these bounds: two crashes per side allow a crash in a resume; two attempts on a step
channel allow one stale attempt beside a current one; uneven chunks make the largest chunk
differ from the one in flight, and three give one before and one after; three nodes with a
quorum of two can meet it with and without the liar and miss one node per broadcast; three
faults allow both parties to go down around one failed submission. Two takers meet on one
slot, on two, and on a block and its successor; two processes meet on one lock. The mids
make a certified deal keep its win, lose some of it, lose it, and disagree with another
source; seven quarter minutes are longer than any age in the code. Two chunks allow a
message to be seen in part and a chunk to be posted twice; two intents allow a withdrawal
and a replacement; the horizon crosses an epoch. Three blocks give an output that is spent,
one being scanned and one that is new; two sends can meet on one output. A page and two
relays are two hops and both kinds of connection; a book with room for one is full with two
orders. `Bounded`, a state constraint of two runs, keeps the product of faults and
traffic small: in `agent_safety` it leaves two blocks and replacements to the calm network
and to failing relay calls, one block to the other faults, and one taker to the tick started
over a live one (a fault of a settlement needs no second block to show, except `reuse`, which
is about two takes on one); a "good" price, which certifies both takers, is seen over one
block. In `ledger` a hash of another block or a negative deposit is met by one intent beside
the message. The theorems have no such bound. A counter never runs into its bound unnoticed: past it the fault simply does not
happen.

The mutants in `PROJECT.json` change one mapped definition the way a plausible bug would,
and each breaks its property under the run's own configuration.

### Exposure windows

Where one fault of one party, or a choice the code leaves to its surroundings, breaks what
the code otherwise keeps, the models name the window instead of leaving the fault out; to
see the failure, widen the constant and run again.

`TwoParty`: `Windows` says in which of them faults may strike. `two_party_safety` allows
all of them: even there the drivers make no move outside `AtomicSwap`. The other runs keep
faults out of them, because inside them the documented promises fail:

- `unprotected`: from A's funding (`two_party.js:1001`) until A has stored its refund
  (`:1005`). B walks away: A's Nano stays in the joint account (`Ends` fails). A dies after
  sending its refund share: B may lock while A has no refund (`RefundInHand` fails). A dies
  between the send and its record: the maker's tick closes the session as "nothing moved"
  (`xnoxmr.cjs:568-570`).
- `presign`: from A's share of the claim until `presigned` is stored (`:1067`): B claims, A
  cannot extract x (`Extractable` fails).
- `lock`: between `xmrSend` and its record (`:842-844`): the page offers to continue into a
  second lock (`LocksOnce` fails); the tick closes the session as "nothing locked"
  (`xnoxmr.cjs:573`).
- `immature`: `recoverXmrFromRefund` gives up after ten minutes, a lock needs ten blocks to
  be spendable: a shallow lock is closed as "none" (`:1263-1266`).

By configuration rather than by window: a page that crashed in the claim wait is only
offered the refund, also after the claim (`index.html:4331`), so `Ends` is checked for
agents; a frontier read that fails at the wrong moment makes B skip and wait for ever, so
`Ends` takes reads as answered; and when nodes accept both successors (`Forks`) A closes as
refunded whichever the network settles, so `ClosedA` and `ClosedB` exempt those states.

`Settlement`: between Alice's last share and her saved file, or when its write fails with a
warning (`session.rs:284-286`), a crash loses what extracts x. `cp = "missed"` marks it,
`Extractable` exempts it, the other properties hold in it. `Settles` has the premise that
enough nodes would still take Bob's rung (`Resumable`): a node that refuses a rung it
already has is counted against the broadcast, and the code does not exclude that too many
do.

`SwapMachine`: an abort between the ordered lock and its first observation returns no
backstop for a lock that stands, although `machine.rs:18-19` promises one at any stage;
`SeenLockBacked` therefore speaks of locks the machine has seen. Alice's machine hands
out no sweep when she aborts with her pre-signature out, although `machine.rs` says she must
keep the sweep contingency (`SweepKept` fails).

`ChunkSchedule`: a tail between the cap and cap plus minimum is split into halves that may
lie below the minimum (`schedule.rs:61`; total 3, bounds 2..2 gives 1 and 2); no lower bound
is claimed.

`MakerAgent`: `windows`, chosen in `Init`. Each of the following breaks `SessionKept`, which
is therefore claimed in `relay` and outside them all:

- `reuse`: a second take settled on one offer block overwrites `party` in its session file,
  and the first deal's coins have no session (`xnoxmr.cjs:812`);
- `lock`: a tick is started over a live one, which a cron settlement makes the normal case
  (its lock is ten minutes old long before it ends) and a stuck tick of `watch` the
  intended one (`:913-921`): two runs share a session file, and the one that fails marks it
  done over the other's coins;
- `abandon`: an operator abandons a session that is being settled;
- `gap`: a death, or an error, between the return of the send and its marker
  (`two_party.js:1001-1002`, `:842-845`): the next tick closes the session as "nothing moved"
  or "nothing locked" (`xnoxmr.cjs:568-573`);
- `unopened`: A's own funding does not show within `FUND_WAIT_MS`; `fundTimeout` makes
  `settleTake` mark the session done with the XNO in the joint account (`:826-833`);
- `torn`: the session file is being rewritten when the process ends.

That a session file has one run at a time is not claimed: under cron it is false in daily
use. `StakedOnce`, the consequence that matters, holds in all of these but `torn`, because
both drivers look at the markers before they send and an unrecorded session is closed and
not run again. (`torn` needs two faults: while a tick started over a live one resumes the
file, the other dies writing it, and the resume, which reads the file again, sends.) `NoOrphan` holds in all windows, but it speaks of looks whose answers went
out: when a decline throws in the pre-withdraw guard, the throw is swallowed (`:773`) and the
block is pulled over a take that has no answer (`threw`); and a request that could not be
fetched was not seen (`:660`, `peekTakes`).

The tick resumes the first session it can and stops there, so one that never ends starves
those after it: with `Stuck = {1}`, `Recovered` fails for block 2.

`Market`: `xnoxmr.cjs:99-103` says that "nothing older than its 60 s gate is ever acted on".
The age that is tested runs from the last of three fetches made one after the other, each of
up to eight seconds, so the first answer behind a price may be older than the minute by the
time of a fetch: `FreshMid` claims `StaleAge + FetchTime`, and with `StaleAge` alone it
fails. The size of an offer is written in XNO and read as XMR when the maker sells XMR;
with `Sides = {1}`, `NeverPhantom`, which is `Covered` for both sides, fails.

`Beacon`: `BookTrue` is claimed of a calm account (`windows = {}`): two uses at a time, a
lagging quorum or a lost answer leave the state file and the book different. `Whole` exempts
chunks that were posted twice: `fetch` counts chunks, not places, so a repeated chunk can stand
in for a missing one. `NoBurn` holds of every block in the windows `overlap`, `lag`, `lie`
and `deaf`. With `echo`, where the first node to answer a submission gives the hash of an
older head, the caller signs its next block on that head with a balance that already lacks
the last amount, and an honest node takes a send that gives it away: chunks, offers and
cancels are exposed (`Endangered`), a payment is not, for the wallet reads its head anew.
With `minus`, a deposit of a negative amount makes the receive block itself the loss. Nothing
else is exempt in these windows.

`XmrWallet`: an output is spent twice only after its mark was lost, and outside the windows
no mark is (`NoRespend`). The marks are lost by:

- `overlap`: the page's background scan, started before a send, writes its older record over
  them (`wallet.js:337`, against the comment at `:437-440`);
- `lock`: a lock between build and mark makes the mark throw, which is swallowed, and the
  transaction still goes out (`:445`);
- `store`: a full or disabled store drops the write, or shows no record to the next call;
- `rescan`: a rescan starts from a record without marks (`:370`), and a Monero node cannot
  tell which outputs are spent;
- `torn`: the headless wallet rewrites its file in place, and a torn one is read as blank.

Each of them leads to a second spend in the run. Only the outputs in `lost` are exempt: every
other output is spent once in these windows as well. With `calls`, two sends at a time (the
user's and a settlement's) choose alike before either marks, and `NoRespend` claims nothing;
`Complete` holds in all of them.

`DexRelay`: `Spread` is claimed of a book with room, writes that do not stall and budgets
that are not spent. Outside, an order is marked, unmarked and not asked for again: a
stalled write takes a live peer off the map for good (`main.rs:271-280`), a snapshot larger
than the budget drops the connection (`:313`), and a relay dials its peers only when it
starts.

### Fairness

`TwoParty!FairSpec`: each process that can step does (a bounded wait ends, an agent
restarts a dead session, an agent polls), Monero blocks are found, Nano votes end.
`Settlement!FairSpec`: each process runs and, once down, is resumed by its operator; nodes
gossip and cement. `SwapMachine!FairSpec`: the event source polls and the executor performs
what it was handed; nobody is forced to abort. `MakerAgent!FairSpec`: ticks start for ever
and run to their end, runs go on or throw; each step of a resume is strongly fair, because
a resume that throws leaves the step disabled until the next tick tries again, and the code
tries for ever: what is assumed is that the nodes answer some try. `DexRelay!FairSpec`:
threads run, read what has arrived and drain outboxes; nobody has to post, dial, sweep or
leave. No fairness is assumed of crashes, timeouts of a peer, refusals or failed reads. The
remaining runs are of safety only.

## 4. What is proved

All theorems hold for every value of the constants (`Params`, `NodesAssumption`,
`ScheduleAssumption`, `MarketAssumption`, `NanoAssumption`, `MailAssumption`,
`BeaconAssumption`, `XmrAssumption`, `RelayAssumption`, the agents' assumptions, the set of
calls). Where a property needs an exposure window of section 3 shut, its theorem
assumes that window shut and no other: the rest may all be open, with any number of faults.

- `TwoPartyProofs`: `TypeCorrect`; `Atomicity`, `Spec => Implements` when nodes do not
  accept two successors. The inductive invariant `SwapInv` adds to the types that the
  account has one successor, that before the funding neither driver is past its first
  wait, that before the lock A has sent no claim share (so B can complete no claim), and
  that each side goes for the Monero only over the other's Nano. Further:
  - `NonceFresh` (`FreshNonce`, no window): `NetInv` says that the channels used are counted
    and that on the live wire a round committed to is never entered again (`Fresh`), that a
    side mid-round has sent exactly its part of it (`InRound`), and that a share is bound to
    two posted commitments (`Bound`).
  - `LocksOnlyOnce` (`lock` shut): `LockKept`, the lock is on record before B can come back
    to where it is sent.
  - `RefundsInHand` (`unprotected` shut): `Sheltered`. While A has paid and has no refund,
    both are on the live wire on the way to the refund round (`OnTrack`), and B leaves that
    round only when both shares of it are posted, so Monero moves only after A can sign.
  - `ClaimsExtractable` (`presign` shut): `Witnessed`. Each share B can complete a claim with
    belongs to the round A still stands in, until A has the pre-signature.
  - `ClosesA` (`unprotected` shut), `ClosesB` (`lock`, `immature` shut): from `Sheltered`,
    `LockKept` and `Recorded` (what a store claims of a chain, the chain has).
- `SettlementProofs`: `TypeCorrect`, `RevealsCemented`, `StaysExtractable`,
  `CheckpointsKept`, `SettlementAtomic`. `IInv` is: `Order` (what a party did before it
  stands where it stands, also across a resume), `Gate` (Bob's claim stands over a
  cemented rung: `HonestReport`, a quorum larger than the liars holds an honest node),
  `Handed` (a pre-signature of Bob's means both shares are out; Alice's share means she is
  about to save, saved or missed it, or both sessions ended without one), `Ended`.
- `SwapMachineProofs`: `TypeCorrect`, `LossBounded`, `OneChunkInFlight`,
  `ConfirmsBeforeReveal`, `PresignsMature`, `SeenLocksBacked`. `Books` ties each machine's
  amounts to the settled prefix of the schedule, `Gates` and `Flight` tie them to the world
  and to the actions not yet performed, `Owned` says whose machine hands out which action;
  `Backed`, for the last, that Bob's machine has nothing in flight before its bonds.
  Of `ChunkSchedule`, which makes the schedule: `BuildTypeCorrect`, `ChunksCapped`,
  `RefusalExact`, from `Accounted` (while something remains, all chunks pushed are full
  ones), and `ScheduleRuns`: what build returns satisfies `ScheduleAssumption`, so the
  machines' theorems hold of every schedule built. `SumsExactly`: the chunks and what
  remains sum to the total. The running sums of a list are a recursive function, so its
  step (`AddsMore`) is proved by the least index at which two of them could differ.
- `MakerAgentProofs`, for any processes, blocks, slots and takers, any deaths and commands:
  - `TakesAnswered` (`NoOrphan`, no window), from `TickInv`: of the takes its last look
    showed, a tick still has those without a reply on its list, unless a settlement is in
    hand (`Looked`), and a listed take belongs to the block looked at (`Rowed`).
  - `CoinsLeaveOnce` (`StakedOnce`; `torn` shut, everything else open). `Boxed`: a taker's
    request is in one slot of one block; `Sent`: a run about to send a taker's coins was
    started on the first reply that taker's slot ever got, of which there is one; `Spent`: so
    no second run can be about to send them once they have left.
  - `CoinsFound` (`SessionKept`; all but `relay` shut). `Alone`: only the process that holds
    the lock, or the watcher, has anything under way, and `Flagged`: under `watch` its flags
    say so; `Held`: a run past its ceremony is of the party its session file names, and the
    two runs of a process are of two files; `Live`: no run past its ceremony works on a
    session that is done. An ending run may mark a file done only because no other run has
    coins out under it.
- `MarketProofs`: `ActsOnFresh`, `LossIsBounded`, `NeverOversold`, `SmallestIsWin`. The first rests on `IInv`,
  whose part `Dated` says that the cached quote and the price in hand bear a time that has
  passed, no more than a fetch after the first answer they came from, so the age that is
  tested is the true one less that. The second rests on `WInv`: an accepted deal was a win of `MinBps` of its outlay at some mid
  (`Signed`), and the gate's loss is counted from there; `RateBelow` and `RateAbove` say
  what a truncated rate tells of the amounts, a loss being known only to the next whole
  basis point. The third (`Covered`) is inductive once `LogBelow` is known: the power a
  size is rounded to is no more than the size.
  The fourth (`Viable`) is about a bisection over a rate that is not monotone: with every
  division dropping a fraction, a larger fill may win less. What makes it end well is
  that a fill that wins still wins at twice the size (`WinDoubles`), and that the first
  rounds only look at powers of two; `Closes` is what holds after each round. It assumes
  a fee that makes up for a dropped fraction, `MinBps <= (Fee - 1) * 10000` (the code:
  a floor of 30, a fee of 80,000,000, `two_party.js:78`), and at most half taken off
  the mid (`xnoxmr.cjs:164` clamps to five per cent).
- `BeaconProofs`, for any nodes, liars, messages, clocks and epochs:
  - `TypeCorrect`, from `TypeInv` (a chunk on a chain has a place of the message).
  - `NothingBurnt` (`NoBurn`; one liar at most, and none when it is the only node: `OneLiar`),
    from `Sounds`: whatever head a user is about to sign on was agreed by two nodes, so by an
    honest one, and is sound, unless it came from a hash answered in `echo`; the wallet's
    own blocks never stand on such a head.
  - `ComesBackWhole` (`Whole`, nothing assumed): as many chunks as the message has, no two
    at one place, fill all places.
  - `BookIsTrue` (`BookTrue`; no taker's clock more than an epoch behind the maker's), from
    `CalmInv`: in a calm account there is one chain that every node has a prefix of (`Best`),
    intents lie on it in the order they were made (`Ordered`), the state file names the last
    (`Reflects`), and whoever is about to sign stands on it (`OnTop`) alone (`Exclusive`).
    Beyond that skew a taker looks in namespaces that the newest cancel is not in.
- `WalletProofs`: `TypeCorrect`, `NothingMissed`, `NotRespent`. `Good` (no output between a
  record's ends is missing) is carried for the stored record and for every call's copy,
  because calls overwrite each other's record. `Calm` says, while the user's
  calls do not overlap, that what was relayed is marked or lost (`Once`) and that a call that
  sends has not chosen a marked input (`Fits`); no step takes a mark from the record but
  into `lost` (`Keeps`). Outside the windows one call runs at a time and holds the stored
  record's marks (`Agrees`), so `lost` stays empty.
- `RelayProofs`: `Types`, `SeenIsBook`, for any number of relays, browsers and orders and any
  configuration. `Dedup` is not inductive alone: a refusal takes a mark back, and another thread or
  the book might rest on the same mark. `Marks` excludes it: an order is marked by one
  thread at a time and not while it is in the book, which holds because both are decided
  under one lock.

Only model-checked:

- liveness (`Ends`, `Settles`, `Completes`, `Recovered`, `Spread`): needs fairness and ENABLED;
  every safety property of the runs is also a theorem;
- the recursive definitions themselves (the running sums, the bisection) are not
  proved right by induction, which the provers lack: the theorems say what they need of them
  by a least counterexample, and the runs evaluate them.

## 5. What is not modelled

Cryptography (FROST, adaptor signatures, CLSAG, puzzles, reserve proofs), encodings, work
generation and rendering: the models take the interface (a share, a pre-signature, its
completion, the extraction) as given. Amounts are abstract except in the machine, the
schedule and the market. Time is abstract except in `Market`, `Beacon` and `DexRelay`:
elsewhere a deadline may pass while its wait is unanswered.

Of modelled parts: the order in which a poll meets the two boxes of a step
(`two_party.js:300`) and attempts scanned from the oldest (`:277`); a `blocks_info` that
fails half way through a fetch; the relay's connection caps, origin check and the upgrade of an
order by a proof of funds; custody keys and the vault of the web wallet.

Much of the JavaScript is not a program of its own: `deploy/` and `dist/` hold copies of
`web/`, and the `pkg` directories generated bindings (`wasm_bridge.js`, `wasm_monero.js`,
`wasm_frost.js`) without state. Of the rest, most of `index.html` and of the agent's
commands formats and displays. Not modelled yet: the parts planned below.

## 6. Plan

In this order, each with its own MC module, run and proofs where they pay:

1. `StepWire`: the resume channels of `two_party.js` (attempt windows `my-2..my+2`, the
   first channel that answers wins) over a mailbox with late and stale messages; which
   pairs of attempts can meet, and that a pair that meets agrees.
2. `Channel` with `Journal`: channel states only move one way across crashes; implemented
   against an abstract monotone channel.
3. `Pledge`: exit chain, maturity split and drip stream: amounts are conserved whatever
   prefix is posted, in whatever order.
4. `Makerd` over the book of `DexRelay`, with triggers and matching: its own quotes come
   back into the book its mid is read from (`makerd/main.rs:270-279`), the thread that reads
   that book is never started again once its connection ends (`:242-267`), and a stop is
   taken off the engine before its order is written, so a failed write loses it (`:316-325`).
