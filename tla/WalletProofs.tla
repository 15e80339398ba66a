---------------------------- MODULE WalletProofs ----------------------------
(***************************************************************************)
(* For any calls, chunks, look-back and bounds: types, no output is passed   *)
(* over, and none is spent twice whose mark the code did not lose.           *)
(***************************************************************************)
EXTENDS XmrWallet, TLAPS

Job == [pc : Pcs, st : Records, left : Nat, need : Amounts \cup {0}, ins : SUBSET Blocks]

\* A record has every output between its two ends.
Good(st) ==
  /\ st.scannedTo <= Height \/ st.scannedTo <= st.restore
  /\ st.scannedTo >= 0 => Paid(st.restore, st.scannedTo - 1) \subseteq st.outputs

Sound(r) ==
  /\ Good(r.st)
  /\ r.pc = "scan" => r.st.scannedTo >= 0
  /\ r.pc \in {"load", "first", "scan"} => r.left >= 1

\* Every call writes its own copy over the stored record, so the copies must be
\* as good as the record.
IInv == TypeOK /\ Good(file) /\ \A j \in Jobs : Sound(job[j])

-----------------------------------------------------------------------------
(* Numbers.                                                                *)

LEMMA MinOf ==
  ASSUME NEW a \in Int, NEW b \in Int
  PROVE  Min({a, b}) \in {a, b} /\ Min({a, b}) <= a /\ Min({a, b}) <= b
<1>1. \E x \in {a, b} : \A y \in {a, b} : x <= y  OBVIOUS
<1> QED  BY <1>1 DEF Min

LEMMA MaxOf ==
  ASSUME NEW a \in Int, NEW b \in Int
  PROVE  Max({a, b}) \in {a, b} /\ Max({a, b}) >= a /\ Max({a, b}) >= b
<1>1. \E x \in {a, b} : \A y \in {a, b} : x >= y  OBVIOUS
<1> QED  BY <1>1 DEF Max

LEMMA HeightType == TypeOK => Height \in Nat /\ Height <= MaxBlocks
  BY DEF TypeOK, Height

LEMMA TipsType == TypeOK => Tips \subseteq 0 .. Height
<1> SUFFICES ASSUME TypeOK PROVE Tips \subseteq 0 .. Height
  OBVIOUS
<1>1. Height \in Nat  BY HeightType
<1> QED  BY <1>1 DEF Tips

\* Where a first scan starts.
LEMMA FromOf == ASSUME TypeOK, NEW t \in Tips PROVE Max({0, t - Lookback}) \in 0 .. MaxBlocks
<1>1. t \in 0 .. Height /\ Lookback \in Nat /\ MaxBlocks \in Nat /\ Height <= MaxBlocks /\ Height \in Nat
  BY TipsType, HeightType, XmrAssumption
<1>2. PICK b \in Int : b = t - Lookback  BY <1>1
<1>3. Max({0, b}) \in {0, b} /\ Max({0, b}) >= 0  BY MaxOf
<1> QED  BY <1>1, <1>2, <1>3

\* The block after the last one looked at, and nothing in between.
LEMMA NextType ==
  ASSUME NEW from \in Nat, NEW t \in Nat
  PROVE  /\ LastOf(from, t) \in Int /\ LastOf(from, t) < t
         /\ NextOf(from, t) \in Nat /\ NextOf(from, t) <= t
         /\ NextOf(from, t) - 1 <= LastOf(from, t) \/ NextOf(from, t) <= from
<1> DEFINE l == LastOf(from, t)
<1>1. Chunk \in Nat \ {0}  BY XmrAssumption
<1>2. t - 1 \in Int /\ from + Chunk - 1 \in Int  BY <1>1
<1>3. l \in {t - 1, from + Chunk - 1} /\ l <= t - 1 /\ l <= from + Chunk - 1
  BY <1>2, MinOf DEF LastOf
<1> HIDE DEF l
<1>4. l \in Int /\ l < t  BY <1>2, <1>3
<1>5. NextOf(from, t) = IF from > l THEN t ELSE l + 1  BY DEF NextOf, l
<1>6. CASE from > l
  <2>1. l = t - 1 /\ t <= from  BY <1>1, <1>3, <1>6
  <2> QED  BY <1>4, <1>5, <1>6, <2>1 DEF l
<1>7. CASE ~(from > l)
  BY <1>4, <1>5, <1>7 DEF l
<1> QED  BY <1>6, <1>7

-----------------------------------------------------------------------------
(* Records.                                                                *)

LEMMA BlankGood == TypeOK => Blank \in Records /\ Good(Blank) /\ Idle \in Job /\ Sound(Idle)
<1> SUFFICES ASSUME TypeOK PROVE Blank \in Records /\ Good(Blank) /\ Idle \in Job /\ Sound(Idle)
  OBVIOUS
<1>1. MaxBlocks \in Nat /\ Height \in Nat  BY HeightType, XmrAssumption
<1>2. Blank \in Records /\ Good(Blank)  BY <1>1 DEF Blank, Records, Good
<1> QED  BY <1>2 DEF Idle, Job, Sound, Pcs

\* A scan that starts at a block has missed nothing.
LEMMA StartGood ==
  ASSUME TypeOK, NEW st \in Records, NEW h \in 0 .. MaxBlocks
  PROVE  LET new == [st EXCEPT !.restore = h, !.scannedTo = h]
         IN new \in Records /\ Good(new) /\ new.scannedTo >= 0 /\ new.spent = st.spent
<1> DEFINE new == [st EXCEPT !.restore = h, !.scannedTo = h]
<1>1. MaxBlocks \in Nat /\ Height \in Nat /\ Height <= MaxBlocks  BY HeightType, XmrAssumption
<1>2. h \in 0 .. MaxBlocks /\ h \in -1 .. MaxBlocks  BY <1>1
<1>3. /\ new \in Records /\ new.restore = h /\ new.scannedTo = h
      /\ new.outputs = st.outputs /\ new.spent = st.spent
  BY <1>2 DEF Records
<1> HIDE DEF new
<1>4. Paid(h, h - 1) = {}  BY <1>1 DEF Paid
<1>5. Good(new) /\ new.scannedTo >= 0  BY <1>1, <1>2, <1>3, <1>4 DEF Good
<1> QED  BY <1>3, <1>5 DEF new

\* A chunk leaves no gap, at a node that is behind too.
LEMMA ScanGood ==
  ASSUME TypeOK, NEW st \in Records, Good(st), st.scannedTo >= 0, NEW t \in Tips
  PROVE  LET new == Scanned(st, t)
         IN new \in Records /\ Good(new) /\ new.scannedTo >= 0 /\ new.spent = st.spent
<1> DEFINE from == st.scannedTo
           l == LastOf(from, t)
           next == NextOf(from, t)
           new == Scanned(st, t)
<1>1. MaxBlocks \in Nat /\ Height \in Nat /\ Height <= MaxBlocks  BY HeightType, XmrAssumption
<1>2. t \in 0 .. Height  BY TipsType
<1>3. from \in Nat /\ t \in Nat /\ st.restore \in 0 .. MaxBlocks /\ st.outputs \in SUBSET Blocks
  BY <1>1, <1>2 DEF Records
<1>4. /\ l \in Int /\ l < t
      /\ next \in Nat /\ next <= t
      /\ next - 1 <= l \/ next <= from
  BY <1>3, NextType
<1>5. new = [st EXCEPT !.outputs = @ \cup Paid(from, l), !.scannedTo = next]
  BY DEF Scanned
<1> HIDE DEF l, next, new
<1>6. Paid(from, l) \subseteq Blocks
  BY <1>1, <1>2, <1>3, <1>4 DEF Paid, Blocks
<1>7. next \in -1 .. MaxBlocks /\ next <= Height /\ next >= 0  BY <1>1, <1>2, <1>4
<1>8. /\ new \in Records /\ new.restore = st.restore /\ new.scannedTo = next
      /\ new.outputs = st.outputs \cup Paid(from, l) /\ new.spent = st.spent
  BY <1>3, <1>5, <1>6, <1>7 DEF Records
<1>9. Paid(st.restore, next - 1) \subseteq Paid(st.restore, from - 1) \cup Paid(from, l)
  BY <1>1, <1>3, <1>4 DEF Paid
<1>10. Paid(st.restore, from - 1) \subseteq st.outputs  BY DEF Good
<1>11. Good(new) /\ new.scannedTo >= 0  BY <1>7, <1>8, <1>9, <1>10 DEF Good
<1> QED  BY <1>8, <1>11 DEF new

\* Inputs are outputs found and not marked.
LEMMA ChosenFree ==
  ASSUME NEW st \in Records, NEW tip, NEW need, NEW ins \in Chosen(st, tip, need)
  PROVE  ins \in SUBSET Blocks /\ ins \cap st.spent = {}
  BY DEF Chosen, Spendable, Records
-----------------------------------------------------------------------------
(* Steps.                                                                  *)

\* A call goes on with a sound copy, and leaves a good record.
Goes(j) ==
  /\ file' \in Records /\ Good(file') /\ lost' \subseteq Blocks
  /\ \E r \in Job : Sound(r) /\ Set(j, r)

LEMMA JobType == ASSUME IInv, NEW j \in Jobs PROVE job[j] \in Job /\ Sound(job[j])
  BY DEF IInv, TypeOK, Job

LEMMA SaveGood ==
  ASSUME IInv, NEW st \in Records, Good(st), Save(st)
  PROVE  file' \in Records /\ Good(file') /\ lost' \subseteq Blocks
<1>1. file \in Records /\ Good(file) /\ lost \subseteq Blocks  BY DEF IInv, TypeOK
<1>2. CASE Write(st)
  <2>1. file.spent \subseteq Blocks  BY <1>1 DEF Records
  <2> QED  BY <1>1, <1>2, <2>1 DEF Write
<1>3. CASE UNCHANGED <<file, lost>>
  BY <1>1, <1>3
<1> QED  BY <1>2, <1>3 DEF Save

LEMMA ThrowGoes == ASSUME IInv, NEW j \in Jobs, Throw(j) PROVE Goes(j)
  BY BlankGood DEF IInv, TypeOK, Throw, Goes

\* What follows the last chunk.
LEMMA CaughtGoes ==
  ASSUME IInv, NEW j \in Jobs, NEW st \in Records, Good(st), NEW t, Caught(j, st, t)
  PROVE  \E r \in Job : Sound(r) /\ Set(j, r)
<1>1. CASE Set(j, Idle)
  BY <1>1, BlankGood DEF IInv
<1>2. CASE \E ins \in Chosen(st, t, job[j].need) :
             Set(j, [job[j] EXCEPT !.pc = "build", !.st = st, !.ins = ins])
  <2>1. PICK ins \in Chosen(st, t, job[j].need) :
               Set(j, [job[j] EXCEPT !.pc = "build", !.st = st, !.ins = ins])
    BY <1>2
  <2> DEFINE r == [job[j] EXCEPT !.pc = "build", !.st = st, !.ins = ins]
  <2>2. ins \in SUBSET Blocks  BY ChosenFree
  <2>3. job[j] \in Job  BY JobType
  <2>4. r \in Job /\ r.pc = "build" /\ r.st = st  BY <2>2, <2>3 DEF Job, Pcs
  <2> HIDE DEF r
  <2>5. Sound(r)  BY <2>4 DEF Sound
  <2> QED  BY <2>1, <2>4, <2>5 DEF r
<1> QED  BY <1>1, <1>2 DEF Caught

\* How a call is entered, with a number of chunks.
Enters(r, n) ==
  \/ r = [Idle EXCEPT !.pc = "load", !.left = n]
  \/ \E a \in Amounts \cup {0} : r = [Idle EXCEPT !.pc = "load", !.left = n, !.need = a]

LEMMA Entered ==
  ASSUME IInv, NEW n \in Nat, NEW r, Enters(r, n)
  PROVE  r \in Job /\ r.pc = "load" /\ r.st = Blank /\ r.left = n
<1>1. Blank \in Records  BY BlankGood DEF IInv
<1> QED  BY <1>1 DEF Enters, Idle, Job, Pcs

LEMMA Positive == \A n \in Nat \ {0} : n >= 1
  OBVIOUS

LEMMA EnterGoes ==
  ASSUME IInv, NEW j \in Jobs, NEW n \in Nat \ {0}, file' \in Records, Good(file'),
         lost' \subseteq Blocks,
         \/ Set(j, [Idle EXCEPT !.pc = "load", !.left = n])
         \/ \E a \in Amounts \cup {0} : Set(j, [Idle EXCEPT !.pc = "load", !.left = n, !.need = a])
  PROVE  Goes(j)
<1>1. Good(Blank)  BY BlankGood DEF IInv
<1>2. PICK r : Set(j, r) /\ Enters(r, n)
  BY DEF Enters
<1>3. r \in Job /\ r.pc = "load" /\ r.st = Blank /\ r.left = n  BY <1>2, Entered
<1>4. n >= 1  BY Positive, Zenon
<1>5. Good(r.st)
  <2>1. r.st = Blank  BY <1>3
  <2> QED  BY <1>1, <2>1, Zenon
<1>6. Sound(r)  BY <1>3, <1>4, <1>5 DEF Sound
<1> QED  BY <1>2, <1>3, <1>6 DEF Goes

\* One disjunct of Next that moves a call.
CallSteps(j) ==
  \/ j \in Ticks /\ Tick(j)
  \/ j \in Calls /\ (Call(j) \/ Rescan(j) \/ Build(j) \/ Mark(j) \/ BuildFails(j) \/ Publish(j))
  \/ Load(j) \/ First(j) \/ Scan(j)

LEMMA StepGoes == ASSUME IInv, NEW j \in Jobs, CallSteps(j) PROVE Goes(j)
<1> DEFINE me == job[j]
<1>1. me \in Job /\ Sound(me)  BY JobType
<1>2. file \in Records /\ Good(file) /\ lost \subseteq Blocks  BY DEF IInv, TypeOK
<1>3. TypeOK  BY DEF IInv
<1>4. TickChunks \in Nat \ {0} /\ CallChunks \in Nat \ {0}  BY XmrAssumption
<1>a. CASE Tick(j)
  <2>1. Set(j, [Idle EXCEPT !.pc = "load", !.left = TickChunks]) /\ UNCHANGED <<file, lost>>
    BY <1>a DEF Tick
  <2> QED  BY <1>2, <1>4, <2>1, EnterGoes
<1>b. CASE Call(j)
  <2>1. PICK a \in Amounts \cup {0} :
           Set(j, [Idle EXCEPT !.pc = "load", !.left = CallChunks, !.need = a])
    BY <1>b DEF Call
  <2>2. UNCHANGED <<file, lost>>  BY <1>b DEF Call
  <2> QED  BY <1>2, <1>4, <2>1, <2>2, EnterGoes
<1>c. CASE Rescan(j)
  <2>1. PICK h \in 0 .. MaxBlocks : Save([Blank EXCEPT !.restore = h, !.scannedTo = h])
    BY <1>c DEF Rescan
  <2>2. Set(j, [Idle EXCEPT !.pc = "load", !.left = CallChunks])  BY <1>c DEF Rescan
  <2>4. PICK new \in Records : /\ new = [Blank EXCEPT !.restore = h, !.scannedTo = h]
                               /\ Good(new)
    BY <1>3, <2>1, BlankGood, StartGood
  <2>3. file' \in Records /\ Good(file') /\ lost' \subseteq Blocks  BY <2>1, <2>4, SaveGood
  <2> QED  BY <1>4, <2>2, <2>3, EnterGoes
<1>d. CASE Load(j)
  <2> DEFINE r == [me EXCEPT !.pc = IF file.scannedTo < 0 THEN "first" ELSE "scan",
                             !.st = file]
             none == [me EXCEPT !.pc = "first", !.st = Blank]
  <2>1. /\ me.pc = "load"
        /\ \/ Throw(j)
           \/ Set(j, r) /\ UNCHANGED <<file, lost>>
           \/ Set(j, none) /\ UNCHANGED file /\ lost' = lost \cup file.spent
    BY <1>d DEF Load
  <2>2. /\ r \in Job /\ r.st = file /\ r.left = me.left
        /\ r.pc = IF file.scannedTo < 0 THEN "first" ELSE "scan"
    BY <1>1, <1>2 DEF Job, Pcs
  <2>3. file.scannedTo \in Int /\ file.spent \subseteq Blocks  BY <1>2 DEF Records
  <2>4. Blank \in Records /\ Good(Blank)  BY <1>3, BlankGood
  <2>5. none \in Job /\ none.pc = "first" /\ none.st = Blank /\ none.left = me.left
    BY <1>1, <2>4 DEF Job, Pcs
  <2> HIDE DEF r, none
  <2>6. Sound(r)  BY <1>1, <1>2, <2>1, <2>2, <2>3 DEF Sound
  <2>7. Good(none.st)
    <3>1. none.st = Blank  BY <2>5
    <3> QED  BY <2>4, <3>1, Zenon
  <2>8. Sound(none)  BY <1>1, <2>1, <2>5, <2>7 DEF Sound
  <2> QED  BY <1>2, <2>1, <2>2, <2>3, <2>5, <2>6, <2>8, ThrowGoes DEF Goes
<1>e. CASE First(j)
  <2>1. CASE Throw(j)  BY <2>1, ThrowGoes
  <2>2. CASE ~Throw(j)
    <3> DEFINE From(t) == Max({0, t - Lookback})
               New(t) == [me.st EXCEPT !.restore = From(t), !.scannedTo = From(t)]
               R(t) == [me EXCEPT !.pc = "scan", !.st = New(t)]
    <3>1. PICK t \in Tips : Save(New(t)) /\ Set(j, R(t))  BY <1>e, <2>2 DEF First
    <3>2. From(t) \in 0 .. MaxBlocks  BY <1>3, FromOf
    <3>3. me.st \in Records  BY <1>1 DEF Job
    <3>4. New(t) \in Records /\ Good(New(t)) /\ New(t).scannedTo >= 0
      BY <1>3, <3>2, <3>3, StartGood
    <3> HIDE DEF New
    <3>5. R(t) \in Job /\ R(t).pc = "scan" /\ R(t).st = New(t) /\ R(t).left = me.left
      BY <1>1, <3>4 DEF Job, Pcs
    <3>6. me.pc = "first"  BY <1>e DEF First
    <3> HIDE DEF R
    <3>7. Sound(R(t))  BY <1>1, <3>4, <3>5, <3>6 DEF Sound
    <3>8. file' \in Records /\ Good(file') /\ lost' \subseteq Blocks  BY <3>1, <3>4, SaveGood
    <3> QED  BY <3>1, <3>5, <3>7, <3>8 DEF Goes
  <2> QED  BY <2>1, <2>2
<1>f. CASE Scan(j)
  <2>1. CASE Throw(j)  BY <2>1, ThrowGoes
  <2>2. CASE ~Throw(j)
    <3> DEFINE New(t) == Scanned(me.st, t)
               R(t) == [me EXCEPT !.st = New(t), !.left = @ - 1]
    <3>1. PICK t \in Tips :
            /\ Save(New(t))
            /\ IF New(t).scannedTo >= t \/ me.left = 1 THEN Caught(j, New(t), t)
               ELSE Set(j, R(t))
      BY <1>f, <2>2 DEF Scan
    <3>2. me.pc = "scan"  BY <1>f DEF Scan
    <3>3. me.st \in Records /\ Good(me.st) /\ me.st.scannedTo >= 0 /\ me.left >= 1 /\ me.left \in Nat
      BY <1>1, <3>2 DEF Job, Sound
    <3>4. New(t) \in Records /\ Good(New(t)) /\ New(t).scannedTo >= 0
      BY <1>3, <3>3, ScanGood
    <3> HIDE DEF New
    <3>7. file' \in Records /\ Good(file') /\ lost' \subseteq Blocks  BY <3>1, <3>4, SaveGood
    <3>5. CASE Caught(j, New(t), t)
      BY <3>4, <3>5, <3>7, CaughtGoes DEF Goes
    <3>6. CASE me.left # 1 /\ Set(j, R(t))
      <4>1. me.left - 1 \in Nat /\ me.left - 1 >= 1  BY <3>3, <3>6
      <4>2. R(t) \in Job /\ R(t).st = New(t) /\ R(t).left = me.left - 1
        BY <1>1, <3>4, <4>1 DEF Job
      <4> HIDE DEF R
      <4>3. Sound(R(t))  BY <3>4, <4>1, <4>2 DEF Sound
      <4> QED  BY <3>6, <3>7, <4>2, <4>3 DEF Goes
    <3> QED  BY <3>1, <3>5, <3>6
  <2> QED  BY <2>1, <2>2
<1>g. CASE Build(j)
  <2> DEFINE r == [me EXCEPT !.pc = "built"]
  <2>1. Throw(j) \/ (Set(j, r) /\ UNCHANGED <<file, lost>>)
    BY <1>g DEF Build
  <2>2. r \in Job /\ r.pc = "built" /\ r.st = me.st  BY <1>1 DEF Job, Pcs
  <2> HIDE DEF r
  <2>3. Sound(r)  BY <1>1, <2>2 DEF Sound
  <2> QED  BY <1>2, <2>1, <2>2, <2>3, ThrowGoes DEF Goes, r
<1>h. CASE Mark(j)
  <2> DEFINE st == [me.st EXCEPT !.spent = @ \cup me.ins]
             r == [me EXCEPT !.pc = "publish", !.st = st]
  <2>1. Marked(j, st) /\ Set(j, r)  BY <1>h DEF Mark
  <2>2. me.st \in Records /\ me.ins \in SUBSET Blocks  BY <1>1 DEF Job
  <2>3. /\ st \in Records /\ st.restore = me.st.restore /\ st.scannedTo = me.st.scannedTo
        /\ st.outputs = me.st.outputs
    BY <2>2 DEF Records
  <2> HIDE DEF st
  <2>4. Good(st)  BY <1>1, <2>3 DEF Good, Sound
  <2>5. r \in Job /\ r.pc = "publish" /\ r.st = st  BY <1>1, <2>3 DEF Job, Pcs
  <2> HIDE DEF r
  <2>6. Sound(r)  BY <2>4, <2>5 DEF Sound
  <2>7. file' \in Records /\ Good(file') /\ lost' \subseteq Blocks
    BY <1>2, <2>1, <2>2, <2>3, <2>4, SaveGood DEF Marked, Save
  <2> QED  BY <2>1, <2>5, <2>6, <2>7 DEF Goes
<1>i. CASE BuildFails(j)
  BY <1>i, ThrowGoes DEF BuildFails
<1>k. CASE Publish(j)
  BY <1>k, ThrowGoes DEF Publish
<1> QED  BY <1>a, <1>b, <1>c, <1>d, <1>e, <1>f, <1>g, <1>h, <1>i, <1>k DEF CallSteps
\* The chain only grows: what was good stays good.
LEMMA GoodGrows ==
  ASSUME TypeOK, UNCHANGED chain \/ \E a \in Deposits \cup {0} : chain' = Append(chain, a)
  PROVE  /\ \A st \in Records : Good(st) => Good(st)'
         /\ \A r \in Job : Sound(r) => Sound(r)'
<1>1. \A st \in Records : Good(st) => Good(st)'
  <2>1. CASE UNCHANGED chain
    BY <2>1 DEF Good, Paid, Height
  <2>2. CASE \E a \in Deposits \cup {0} : chain' = Append(chain, a)
    <3>1. PICK a \in Deposits \cup {0} : chain' = Append(chain, a)  BY <2>2
    <3>2. chain \in Seq(Deposits \cup {0})  BY DEF TypeOK
    <3>3. /\ Len(chain) \in Nat /\ Len(chain') = Len(chain) + 1
          /\ \A i \in 1 .. Len(chain) : chain'[i] = chain[i]
      BY <3>1, <3>2
    <3> SUFFICES ASSUME NEW st \in Records, Good(st) PROVE Good(st)'
      OBVIOUS
    <3>4. MaxBlocks \in Nat  BY XmrAssumption
    <3>5. /\ st.scannedTo \in Int /\ st.restore \in Nat
          /\ st.scannedTo <= Len(chain) \/ st.scannedTo <= st.restore
      BY <3>4 DEF Records, Good, Height
    <3>6. \A b \in st.restore .. st.scannedTo - 1 : b + 1 \in 1 .. Len(chain)
      BY <3>3, <3>5
    <3>7. Paid(st.restore, st.scannedTo - 1)' = Paid(st.restore, st.scannedTo - 1)
      BY <3>3, <3>5, <3>6 DEF Paid, Height
    <3> QED  BY <3>3, <3>5, <3>7 DEF Good, Height
  <2> QED  BY <2>1, <2>2
<1>2. \A r \in Job : Sound(r) => Sound(r)'
  <2> SUFFICES ASSUME NEW r \in Job, Sound(r) PROVE Sound(r)'
    OBVIOUS
  <2>1. r.st \in Records  BY DEF Job
  <2> QED  BY <1>1, <2>1 DEF Sound
<1> QED  BY <1>1, <1>2

LEMMA InitInv == Init => IInv
<1> SUFFICES ASSUME Init PROVE IInv
  OBVIOUS
<1>1. Len(<<>>) = 0 /\ MaxBlocks \in Nat  BY XmrAssumption
<1>2. Blank \in Records /\ Good(Blank)
  BY <1>1 DEF Blank, Records, Good, Init, Height
<1>3. Idle \in Job /\ Sound(Idle)  BY <1>2 DEF Idle, Job, Sound, Pcs
<1>4. TypeOK
  BY <1>1, <1>2, <1>3 DEF Init, TypeOK, Height, Job
<1> QED  BY <1>2, <1>3, <1>4 DEF IInv, Init

\* A step moves one call, or none of them.
Idles ==
  /\ UNCHANGED <<file, lost>> \/ Write(Blank)
  /\ job' = job \/ job' = [j \in Jobs |-> Idle]

LEMMA NextMoves ==
  ASSUME IInv, [Next]_vars
  PROVE  /\ \/ UNCHANGED chain /\ (Idles \/ \E j \in Jobs : Goes(j))
            \/ Mine
         /\ UNCHANGED windows /\ locked' \in BOOLEAN
         /\ UNCHANGED relayed \/ \E j \in Calls : Publish(j)
<1>1. CASE \E j \in Jobs : CallSteps(j)
  <2>1. PICK j \in Jobs : CallSteps(j)  BY <1>1
  <2>2. Goes(j)  BY <2>1, StepGoes
  <2>3. /\ UNCHANGED <<windows, chain, locked>>
        /\ UNCHANGED relayed \/ (j \in Calls /\ Publish(j))
    BY <2>1 DEF CallSteps, Tick, Call, Rescan, Load, First, Scan, Build, Mark, BuildFails,
                Publish
  <2>4. locked \in BOOLEAN  BY DEF IInv, TypeOK
  <2> QED  BY <2>2, <2>3, <2>4
<1>2. CASE Unlocks \/ Locks \/ Reload \/ Torn
  BY <1>2 DEF Unlocks, Locks, Reload, Torn, Ends, Idles
<1>3. CASE Mine
  BY <1>3 DEF Mine, IInv, TypeOK
<1>4. CASE UNCHANGED vars
  BY <1>4 DEF vars, Idles, IInv, TypeOK
<1> QED  BY <1>1, <1>2, <1>3, <1>4 DEF Next, CallSteps, Jobs

LEMMA StepInv == IInv /\ [Next]_vars => IInv'
<1> SUFFICES ASSUME IInv, [Next]_vars PROVE IInv'
  OBVIOUS
<1>1. TypeOK /\ job \in [Jobs -> Job] /\ file \in Records
      /\ relayed \in Seq(SUBSET Blocks)
  BY DEF IInv, TypeOK, Job
<1>2. /\ chain' \in Seq(Deposits \cup {0}) /\ Height' <= MaxBlocks
      /\ UNCHANGED chain \/ \E a \in Deposits \cup {0} : chain' = Append(chain, a)
  <2>1. CASE UNCHANGED chain
    BY <1>1, <2>1 DEF TypeOK, Height
  <2>2. CASE Mine
    <3>1. PICK a \in Deposits \cup {0} : chain' = Append(chain, a)  BY <2>2 DEF Mine
    <3>2. chain \in Seq(Deposits \cup {0}) /\ Len(chain) < MaxBlocks /\ MaxBlocks \in Nat
      BY <1>1, <2>2, XmrAssumption DEF Mine, TypeOK, Height
    <3>3. Len(chain') = Len(chain) + 1 /\ chain' \in Seq(Deposits \cup {0}) /\ Len(chain) \in Nat
      BY <3>1, <3>2
    <3> QED  BY <3>1, <3>2, <3>3 DEF Height
  <2> QED  BY <2>1, <2>2, NextMoves
<1>3. relayed' \in Seq(SUBSET Blocks)
  <2>1. CASE UNCHANGED relayed
    BY <1>1, <2>1
  <2>2. CASE \E j \in Calls : Publish(j)
    <3>1. PICK j \in Calls : Publish(j)  BY <2>2
    <3>2. job[j].ins \in SUBSET Blocks  BY <1>1 DEF Job, Jobs
    <3> QED  BY <1>1, <3>1, <3>2 DEF Publish
  <2> QED  BY <2>1, <2>2, NextMoves
<1>4. /\ file' \in Records /\ Good(file') /\ lost' \subseteq Blocks /\ job' \in [Jobs -> Job]
      /\ \A j \in Jobs : Sound(job'[j])
  <2>1. CASE \E j \in Jobs : Goes(j)
    <3>1. PICK j \in Jobs : Goes(j)  BY <2>1
    <3>2. PICK r \in Job : Sound(r) /\ Set(j, r)  BY <3>1 DEF Goes
    <3>3. \A k \in Jobs : job'[k] = IF k = j THEN r ELSE job[k]
      BY <1>1, <3>2 DEF Set
    <3>4. job' \in [Jobs -> Job]  BY <1>1, <3>2 DEF Set
    <3> QED  BY <3>1, <3>2, <3>3, <3>4 DEF Goes, IInv
  <2>2. CASE Idles
    <3>1. Idle \in Job /\ Sound(Idle) /\ Blank \in Records /\ Good(Blank)  BY <1>1, BlankGood
    <3>2. file' \in Records /\ Good(file') /\ lost' \subseteq Blocks
      BY <1>1, <2>2, <3>1, SaveGood DEF Idles, IInv, TypeOK, Save
    <3> QED  BY <1>1, <2>2, <3>1, <3>2 DEF Idles, IInv
  <2>3. CASE Mine
    BY <1>1, <2>3 DEF Mine, IInv, TypeOK
  <2> QED  BY <2>1, <2>2, <2>3, NextMoves
<1>5. Good(file)' /\ \A j \in Jobs : Sound(job[j])'
  <2>1. Good(file)'
    <3>1. PICK f \in Records : f = file'  BY <1>4
    <3>2. Good(f)'  BY <1>1, <1>2, <1>4, <3>1, GoodGrows
    <3> QED  BY <3>1, <3>2 DEF Good
  <2>2. ASSUME NEW j \in Jobs PROVE Sound(job[j])'
    <3>1. PICK r \in Job : r = job'[j]  BY <1>4
    <3>2. Sound(r)'  BY <1>1, <1>2, <1>4, <3>1, GoodGrows
    <3> QED  BY <3>1, <3>2 DEF Sound, Good
  <2> QED  BY <2>1, <2>2
<1>6. TypeOK'
  BY <1>1, <1>2, <1>3, <1>4, NextMoves DEF TypeOK, Job
<1> QED  BY <1>5, <1>6 DEF IInv

\* Every variable has its type.
THEOREM TypeCorrect == Spec => []TypeOK
<1>1. IInv => TypeOK  BY DEF IInv
<1> QED  BY InitInv, StepInv, <1>1, PTL DEF Spec

\* However calls overlap, overwrite each other's record and rescan, and whichever
\* node answers, no output between the ends of the stored record is missing.
THEOREM NothingMissed == Spec => []Complete
<1>1. IInv => Complete  BY DEF IInv, Complete, Good
<1> QED  BY InitInv, StepInv, <1>1, PTL DEF Spec
-----------------------------------------------------------------------------
(* Nothing is spent twice.                                                 *)

Used == 1 .. Len(relayed)

\* A call that sends: what reached the network is marked in its copy or lost, its
\* inputs are not marked until it marks them, and then it alone has sent them.
Fits(r) ==
  /\ r.pc \in {"first", "scan", "build", "built"} =>
       \A m \in Used : relayed[m] \subseteq r.st.spent \cup lost
  /\ r.pc \in {"build", "built"} => r.ins \cap r.st.spent = {}
  /\ r.pc = "publish" =>
       r.ins \subseteq file.spent \cup lost /\ \A m \in Used : relayed[m] \cap r.ins \subseteq lost

\* Alone and undisturbed it has the marks of the record, and the seed to mark with.
Agrees(r) ==
  /\ r.pc \in {"first", "scan", "build", "built"} => r.st.spent = file.spent
  /\ r.pc \in {"built", "publish"} => ~locked

Once ==
  /\ \A m \in Used : relayed[m] \subseteq file.spent \cup lost
  /\ \A m, n \in Used : m # n => relayed[m] \cap relayed[n] \subseteq lost

\* One send at a time: its copy of the record is as good as the record, whatever is
\* written over that. One call at a time, outside all windows: no mark is lost.
Calm ==
  /\ "calls" \notin windows =>
       /\ \A j, k \in Calls : job[j].pc # "idle" /\ job[k].pc # "idle" => j = k
       /\ \A j \in Calls : Fits(job[j])
       /\ Once
  /\ windows = {} =>
       /\ \A j, k \in Jobs : job[j].pc # "idle" /\ job[k].pc # "idle" => j = k
       /\ \A j \in Jobs : Agrees(job[j])
       /\ lost = {}

\* No mark goes but into lost.
Keeps == lost \subseteq lost' /\ file.spent \subseteq file'.spent \cup lost'

LEMMA SaveKeeps ==
  ASSUME NEW st, Save(st)
  PROVE  Keeps /\ (file.spent \subseteq st.spent => lost' = lost)
  BY DEF Save, Write, Keeps

LEMMA OnceKept == ASSUME Once, Keeps, UNCHANGED relayed PROVE Once'
  BY DEF Once, Keeps, Used

LEMMA FitsKept == ASSUME NEW r, Fits(r), Keeps, UNCHANGED relayed PROVE Fits(r)'
  BY DEF Fits, Keeps, Used

\* One call goes on.
LEMMA CalmMove ==
  ASSUME IInv, Calm, UNCHANGED <<windows, relayed, locked>>, Keeps,
         NEW j \in Jobs, NEW r \in Job, Set(j, r), job[j].pc # "idle" \/ Free(j),
         j \in Calls /\ "calls" \notin windows => Fits(r)',
         windows = {} => Agrees(r)' /\ UNCHANGED lost
  PROVE  Calm'
<1>1. job \in [Jobs -> Job] /\ Calls \subseteq Jobs  BY DEF IInv, TypeOK, Job, Jobs
<1>2. \A k \in Jobs : job'[k] = IF k = j THEN r ELSE job[k]  BY <1>1 DEF Set
<1>3. ASSUME "calls" \notin windows
      PROVE  /\ \A k, l \in Calls : job'[k].pc # "idle" /\ job'[l].pc # "idle" => k = l
             /\ \A k \in Calls : Fits(job[k])'
             /\ Once'
  <2>1. j \in Calls => \A k \in Calls \ {j} : job[k].pc = "idle"
    BY <1>1, <1>3 DEF Calm, Free
  <2>2. \A k, l \in Calls : job'[k].pc # "idle" /\ job'[l].pc # "idle" => k = l
    BY <1>1, <1>2, <1>3, <2>1 DEF Calm
  <2>3. ASSUME NEW k \in Calls PROVE Fits(job[k])'
    <3>1. CASE k = j
      <4>1. Fits(r)'  BY <1>3, <3>1
      <4>2. job'[k] = r  BY <1>1, <1>2, <3>1
      <4> QED  BY <4>1, <4>2 DEF Fits, Used
    <3>2. CASE k # j
      <4>1. Fits(job[k])  BY <1>3 DEF Calm
      <4>2. job'[k] = job[k]  BY <1>1, <1>2, <3>2
      <4> QED  BY <4>1, <4>2 DEF Fits, Keeps, Used
    <3> QED  BY <3>1, <3>2
  <2>4. Once'  BY <1>3, OnceKept DEF Calm
  <2> QED  BY <2>2, <2>3, <2>4
<1>4. ASSUME windows = {}
      PROVE  /\ \A k, l \in Jobs : job'[k].pc # "idle" /\ job'[l].pc # "idle" => k = l
             /\ \A k \in Jobs : Agrees(job[k])'
             /\ lost' = {}
  <2>1. \A k \in Jobs \ {j} : job[k].pc = "idle"
    BY <1>4 DEF Calm, Free
  <2>2. ASSUME NEW k \in Jobs PROVE Agrees(job[k])'
    <3>1. CASE k = j
      BY <1>2, <1>4, <3>1 DEF Agrees
    <3>2. CASE k # j
      BY <1>2, <2>1, <3>2 DEF Agrees
    <3> QED  BY <3>1, <3>2
  <2> QED  BY <1>2, <1>4, <2>1, <2>2 DEF Calm
<1> QED  BY <1>3, <1>4 DEF Calm

\* A call ends, by itself or by an error.
LEMMA CalmEnd ==
  ASSUME IInv, Calm, UNCHANGED <<windows, relayed, locked>>, Keeps,
         windows = {} => UNCHANGED lost,
         NEW j \in Jobs, Set(j, Idle), job[j].pc # "idle"
  PROVE  Calm'
<1>1. Idle \in Job /\ Idle.pc = "idle"  BY BlankGood DEF IInv, Idle
<1>2. Fits(Idle)' /\ Agrees(Idle)'  BY <1>1 DEF Fits, Agrees
<1> QED  BY <1>1, <1>2, CalmMove

LEMMA CalmThrow ==
  ASSUME IInv, Calm, UNCHANGED <<windows, relayed, locked>>,
         NEW j \in Jobs, Throw(j), job[j].pc # "idle"
  PROVE  Calm'
<1>1. Set(j, Idle) /\ UNCHANGED <<file, lost>>  BY DEF Throw
<1> QED  BY <1>1, CalmEnd DEF Keeps

\* A call starts.
LEMMA CalmEnter ==
  ASSUME IInv, Calm, UNCHANGED <<windows, relayed, locked>>, Keeps,
         windows = {} => UNCHANGED lost,
         NEW j \in Jobs, NEW n \in Nat, NEW r, Set(j, r), Enters(r, n), Free(j)
  PROVE  Calm'
<1>1. r \in Job /\ r.pc = "load"  BY Entered
<1>2. Fits(r)' /\ Agrees(r)'  BY <1>1 DEF Fits, Agrees
<1> QED  BY <1>1, <1>2, CalmMove

LEMMA StartSpent ==
  ASSUME NEW r \in Records, NEW n
  PROVE  [r EXCEPT !.restore = n, !.scannedTo = n].spent = r.spent
  BY DEF Records

\* What follows the last chunk: the call ends, or has inputs it found unmarked.
LEMMA CaughtFits ==
  ASSUME IInv, NEW j \in Jobs, NEW st \in Records, NEW t, Caught(j, st, t)
  PROVE  \/ Set(j, Idle)
         \/ \E r \in Job : /\ Set(j, r) /\ r.pc = "build" /\ r.st = st
                           /\ r.ins \cap st.spent = {}
<1>1. CASE \E ins \in Chosen(st, t, job[j].need) :
             Set(j, [job[j] EXCEPT !.pc = "build", !.st = st, !.ins = ins])
  <2>1. PICK ins \in Chosen(st, t, job[j].need) :
               Set(j, [job[j] EXCEPT !.pc = "build", !.st = st, !.ins = ins])
    BY <1>1
  <2>2. ins \in SUBSET Blocks /\ ins \cap st.spent = {}  BY ChosenFree
  <2>3. job[j] \in Job  BY JobType
  <2>4. PICK r : r = [job[j] EXCEPT !.pc = "build", !.st = st, !.ins = ins]  OBVIOUS
  <2>5. r \in Job /\ r.pc = "build" /\ r.st = st /\ r.ins = ins  BY <2>2, <2>3, <2>4 DEF Job, Pcs
  <2> QED  BY <2>1, <2>2, <2>4, <2>5
<1> QED  BY <1>1 DEF Caught

LEMMA CalmLoad ==
  ASSUME IInv, Calm, UNCHANGED windows, NEW j \in Jobs, Load(j)
  PROVE  Calm'
<1> DEFINE me == job[j]
<1>1. me \in Job /\ file \in Records  BY JobType DEF IInv, TypeOK
<1>2. me.pc = "load" /\ UNCHANGED <<windows, relayed, locked>>  BY DEF Load
<1>3. CASE Throw(j)
  BY <1>2, <1>3, CalmThrow
<1>4. CASE /\ Set(j, [me EXCEPT !.pc = IF file.scannedTo < 0 THEN "first" ELSE "scan",
                                !.st = file])
           /\ UNCHANGED <<file, lost>>
  <2>1. PICK r : r = [me EXCEPT !.pc = IF file.scannedTo < 0 THEN "first" ELSE "scan",
                                !.st = file]
    OBVIOUS
  <2>2. r \in Job /\ r.st = file /\ r.pc \in {"first", "scan"}  BY <1>1, <2>1 DEF Job, Pcs
  <2>3. Set(j, r) /\ Keeps  BY <1>4, <2>1 DEF Keeps
  <2>4. "calls" \notin windows => Fits(r)'
    BY <1>2, <1>4, <2>2 DEF Calm, Once, Fits, Used
  <2>5. Agrees(r)'  BY <1>4, <2>2 DEF Agrees
  <2> QED  BY <1>2, <1>4, <2>2, <2>3, <2>4, <2>5, CalmMove
<1>5. CASE /\ "store" \in windows
           /\ Set(j, [me EXCEPT !.pc = "first", !.st = Blank])
           /\ UNCHANGED file /\ lost' = lost \cup file.spent
  <2>0. Blank \in Records  BY BlankGood DEF IInv
  <2>1. PICK r : r = [me EXCEPT !.pc = "first", !.st = Blank]
    OBVIOUS
  <2>2. r \in Job /\ r.pc = "first"  BY <1>1, <2>0, <2>1 DEF Job, Pcs
  <2>3. Set(j, r) /\ Keeps  BY <1>5, <2>1 DEF Keeps
  <2>4. "calls" \notin windows => Fits(r)'
    BY <1>2, <1>5, <2>2 DEF Calm, Once, Fits, Used
  <2>5. windows # {}  BY <1>5
  <2> QED  BY <1>2, <2>2, <2>3, <2>4, <2>5, CalmMove
<1> QED  BY <1>3, <1>4, <1>5 DEF Load

\* A write of the record by the call that has its copy.
LEMMA CalmSave ==
  ASSUME IInv, Calm, UNCHANGED <<windows, relayed, locked>>,
         NEW j \in Jobs, job[j].pc \in {"first", "scan"},
         NEW st \in Records, Save(st), st.spent = job[j].st.spent,
         NEW r \in Job, Set(j, r), r.pc \in {"scan", "build"}, r.st = st,
         r.pc = "build" => r.ins \cap st.spent = {}
  PROVE  Calm'
<1>1. Keeps /\ (file.spent \subseteq st.spent => lost' = lost)  BY SaveKeeps
<1>2. j \in Calls /\ "calls" \notin windows => Fits(r)'
  <2> SUFFICES ASSUME j \in Calls, "calls" \notin windows PROVE Fits(r)'
    OBVIOUS
  <2>1. Fits(job[j])  BY DEF Calm
  <2>2. \A m \in Used : relayed[m] \subseteq st.spent \cup lost  BY <2>1 DEF Fits
  <2> QED  BY <1>1, <2>2 DEF Fits, Keeps, Used
<1>3. ASSUME windows = {} PROVE Agrees(r)' /\ UNCHANGED lost
  <2>1. st.spent = file.spent  BY <1>3 DEF Calm, Agrees
  <2>2. lost' = lost /\ file'.spent = file.spent  BY <1>1, <2>1 DEF Save, Write
  <2> QED  BY <2>1, <2>2 DEF Agrees
<1> QED  BY <1>1, <1>2, <1>3, CalmMove

LEMMA CalmFirst ==
  ASSUME IInv, Calm, UNCHANGED windows, NEW j \in Jobs, First(j)
  PROVE  Calm'
<1> DEFINE me == job[j]
<1>1. me \in Job  BY JobType
<1>2. me.pc = "first" /\ UNCHANGED <<windows, relayed, locked>>  BY DEF First
<1>3. CASE Throw(j)
  BY <1>2, <1>3, CalmThrow
<1>4. CASE ~Throw(j)
  <2> DEFINE New(t) == [me.st EXCEPT !.restore = Max({0, t - Lookback}),
                                     !.scannedTo = Max({0, t - Lookback})]
  <2>1. PICK t \in Tips : Save(New(t)) /\ Set(j, [me EXCEPT !.pc = "scan", !.st = New(t)])
    BY <1>4 DEF First
  <2>2. PICK st : st = New(t)  OBVIOUS
  <2>3. me.st \in Records  BY <1>1 DEF Job
  <2>4. st.spent = me.st.spent  BY <2>2, <2>3, StartSpent
  <2>5. st \in Records
    <3>4. PICK h \in 0 .. MaxBlocks : h = Max({0, t - Lookback})  BY FromOf DEF IInv
    <3> QED  BY <2>2, <2>3, <3>4, StartGood DEF IInv
  <2>6. PICK r : r = [me EXCEPT !.pc = "scan", !.st = st]  OBVIOUS
  <2>7. r \in Job /\ r.pc = "scan" /\ r.st = st  BY <1>1, <2>5, <2>6 DEF Job, Pcs
  <2>8. Save(st) /\ Set(j, r)  BY <2>1, <2>2, <2>6
  <2> QED  BY <1>2, <2>4, <2>5, <2>7, <2>8, CalmSave
<1> QED  BY <1>3, <1>4

LEMMA CalmScan ==
  ASSUME IInv, Calm, UNCHANGED windows, NEW j \in Jobs, Scan(j)
  PROVE  Calm'
<1> DEFINE me == job[j]
<1>1. me \in Job /\ Sound(me)  BY JobType
<1>2. me.pc = "scan" /\ UNCHANGED <<windows, relayed, locked>>  BY DEF Scan
<1>3. CASE Throw(j)
  BY <1>2, <1>3, CalmThrow
<1>4. CASE ~Throw(j)
  <2>1. PICK t \in Tips :
          LET st == Scanned(me.st, t)
          IN /\ Save(st)
             /\ IF st.scannedTo >= t \/ me.left = 1 THEN Caught(j, st, t)
                ELSE Set(j, [me EXCEPT !.st = st, !.left = @ - 1])
    BY <1>4 DEF Scan
  <2>2. PICK st : st = Scanned(me.st, t)  OBVIOUS
  <2>3. me.st \in Records /\ Good(me.st) /\ me.st.scannedTo >= 0 /\ me.left >= 1 /\ me.left \in Nat
    BY <1>1, <1>2 DEF Job, Sound
  <2>4. st \in Records /\ st.spent = me.st.spent  BY <2>2, <2>3, ScanGood DEF IInv
  <2>5. /\ Save(st)
        /\ \/ Caught(j, st, t)
           \/ me.left # 1 /\ Set(j, [me EXCEPT !.st = st, !.left = @ - 1])
    BY <2>1, <2>2
  <2>6. CASE Set(j, Idle)
    <3>1. Keeps /\ (file.spent \subseteq st.spent => lost' = lost)  BY <2>5, SaveKeeps
    <3>2. windows = {} => me.st.spent = file.spent  BY <1>2 DEF Calm, Agrees
    <3> QED  BY <1>2, <2>4, <2>6, <3>1, <3>2, CalmEnd
  <2>7. CASE \E r \in Job : Set(j, r) /\ r.pc = "build" /\ r.st = st /\ r.ins \cap st.spent = {}
    BY <1>2, <2>4, <2>5, <2>7, CalmSave
  <2>8. CASE me.left # 1 /\ Set(j, [me EXCEPT !.st = st, !.left = @ - 1])
    <3>1. me.left - 1 \in Nat  BY <2>3, <2>8
    <3>2. PICK r : r = [me EXCEPT !.st = st, !.left = @ - 1]  OBVIOUS
    <3>3. r \in Job /\ r.pc = "scan" /\ r.st = st  BY <1>1, <1>2, <2>4, <3>1, <3>2 DEF Job
    <3> QED  BY <1>2, <2>4, <2>5, <2>8, <3>2, <3>3, CalmSave
  <2> QED  BY <2>4, <2>5, <2>6, <2>7, <2>8, CaughtFits
<1> QED  BY <1>3, <1>4

LEMMA CalmBuild ==
  ASSUME IInv, Calm, UNCHANGED windows, NEW j \in Calls, Build(j)
  PROVE  Calm'
<1> DEFINE me == job[j]
<1>1. j \in Jobs /\ me \in Job  BY JobType DEF Jobs
<1>2. me.pc = "build" /\ UNCHANGED <<windows, relayed, locked>>  BY DEF Build
<1>3. CASE Throw(j)
  BY <1>1, <1>2, <1>3, CalmThrow
<1>4. CASE ~locked /\ Set(j, [me EXCEPT !.pc = "built"]) /\ UNCHANGED <<file, lost>>
  <2>1. PICK r : r = [me EXCEPT !.pc = "built"]  OBVIOUS
  <2>2. r \in Job /\ r.pc = "built" /\ r.st = me.st /\ r.ins = me.ins
    BY <1>1, <2>1 DEF Job, Pcs
  <2>3. Set(j, r) /\ Keeps  BY <1>4, <2>1 DEF Keeps
  <2>4. "calls" \notin windows => Fits(r)'
    BY <1>2, <1>4, <2>2 DEF Calm, Fits, Used
  <2>5. windows = {} => Agrees(r)'  BY <1>1, <1>2, <1>4, <2>2 DEF Calm, Agrees
  <2> QED  BY <1>1, <1>2, <1>4, <2>2, <2>3, <2>4, <2>5, CalmMove
<1> QED  BY <1>3, <1>4 DEF Build

\* The inputs are marked, or lost.
LEMMA CalmMark ==
  ASSUME IInv, Calm, UNCHANGED windows, NEW j \in Calls, Mark(j)
  PROVE  Calm'
<1> DEFINE me == job[j]
<1>1. j \in Jobs /\ me \in Job  BY JobType DEF Jobs
<1>2. PICK st : st = [me.st EXCEPT !.spent = @ \cup me.ins]  OBVIOUS
<1>3. PICK r : r = [me EXCEPT !.pc = "publish", !.st = st]  OBVIOUS
<1>4. /\ me.pc = "built" /\ UNCHANGED <<windows, relayed, locked>>
      /\ Marked(j, st) /\ Set(j, r)
  BY <1>2, <1>3 DEF Mark
<1>5. me.st \in Records /\ me.ins \in SUBSET Blocks  BY <1>1 DEF Job
<1>6. st \in Records /\ st.spent = me.st.spent \cup me.ins  BY <1>2, <1>5 DEF Records
<1>7. r \in Job /\ r.pc = "publish" /\ r.ins = me.ins  BY <1>1, <1>3, <1>6 DEF Job, Pcs
<1>8. Keeps /\ me.ins \subseteq file'.spent \cup lost'
  BY <1>4, <1>6 DEF Marked, Write, Keeps
<1>9. ASSUME "calls" \notin windows PROVE Fits(r)'
  <2>1. Fits(me)  BY <1>9 DEF Calm
  <2>2. \A m \in Used : relayed[m] \subseteq me.st.spent \cup lost
    BY <1>4, <2>1 DEF Fits
  <2>3. me.ins \cap me.st.spent = {}  BY <1>4, <2>1 DEF Fits
  <2>4. \A m \in Used : relayed[m] \cap me.ins \subseteq lost  BY <2>2, <2>3
  <2> QED  BY <1>4, <1>7, <1>8, <2>4 DEF Fits, Keeps, Used
<1>10. ASSUME windows = {} PROVE Agrees(r)' /\ UNCHANGED lost
  <2>1. me.st.spent = file.spent /\ ~locked  BY <1>1, <1>4, <1>10 DEF Calm, Agrees
  <2>2. lost' = lost  BY <1>4, <1>6, <1>10, <2>1 DEF Marked, Write
  <2> QED  BY <1>4, <1>7, <2>1, <2>2 DEF Agrees
<1> QED  BY <1>1, <1>4, <1>7, <1>8, <1>9, <1>10, CalmMove

\* What reaches the network was unmarked everywhere else, and is marked or lost.
LEMMA CalmPublish ==
  ASSUME IInv, Calm, UNCHANGED windows, NEW j \in Calls, Publish(j)
  PROVE  Calm'
<1> DEFINE me == job[j]
<1>1. j \in Jobs /\ me \in Job  BY JobType DEF Jobs
<1>2. me.pc = "publish" /\ Throw(j) /\ UNCHANGED <<windows, locked>>  BY DEF Publish
<1>3. CASE UNCHANGED relayed
  BY <1>1, <1>2, <1>3, CalmThrow
<1>4. CASE relayed' = Append(relayed, me.ins)
  <2>1. relayed \in Seq(SUBSET Blocks) /\ me.ins \in SUBSET Blocks
    BY <1>1 DEF IInv, TypeOK, Job
  <2>2. /\ Len(relayed) \in Nat /\ Len(relayed') = Len(relayed) + 1
        /\ \A m \in Used : relayed'[m] = relayed[m]
        /\ relayed'[Len(relayed) + 1] = me.ins
    BY <1>4, <2>1 DEF Used
  <2>3. Used' = Used \cup {Len(relayed) + 1}  BY <2>2 DEF Used
  <2>4. UNCHANGED <<file, lost>>  BY <1>2 DEF Throw
  <2>5. job \in [Jobs -> Job] /\ Idle.pc = "idle"  BY DEF IInv, TypeOK, Job, Idle
  <2>6. \A k \in Jobs : job'[k] = IF k = j THEN Idle ELSE job[k]
    BY <1>2, <2>5 DEF Throw, Set
  <2>7. ASSUME "calls" \notin windows
        PROVE  /\ \A k, l \in Calls : job'[k].pc # "idle" /\ job'[l].pc # "idle" => k = l
               /\ \A k \in Calls : Fits(job[k])'
               /\ Once'
    <3>1. Fits(me) /\ Once  BY <2>7 DEF Calm
    <3>2. me.ins \subseteq file.spent \cup lost /\ \A m \in Used : relayed[m] \cap me.ins \subseteq lost
      BY <1>2, <3>1 DEF Fits
    <3>3. \A k \in Calls : job'[k].pc = "idle"
      BY <1>2, <2>5, <2>6, <2>7 DEF Calm, Jobs
    <3>4. \A k \in Calls : Fits(job[k])'  BY <3>3 DEF Fits
    <3>5. \A m \in Used' : relayed'[m] \subseteq file'.spent \cup lost'
      BY <2>2, <2>3, <2>4, <3>1, <3>2 DEF Once
    <3>6. \A m, n \in Used' : m # n => relayed'[m] \cap relayed'[n] \subseteq lost'
      <4>1. \A m, n \in Used : m # n => relayed[m] \cap relayed[n] \subseteq lost
        BY <3>1 DEF Once
      <4> QED  BY <2>2, <2>3, <2>4, <3>2, <4>1
    <3> QED  BY <3>3, <3>4, <3>5, <3>6 DEF Once
  <2>8. ASSUME windows = {}
        PROVE  /\ \A k, l \in Jobs : job'[k].pc # "idle" /\ job'[l].pc # "idle" => k = l
               /\ \A k \in Jobs : Agrees(job[k])'
               /\ lost' = {}
    <3>1. \A k \in Jobs : job'[k].pc = "idle"
      BY <1>1, <1>2, <2>5, <2>6, <2>8 DEF Calm
    <3> QED  BY <2>4, <2>8, <3>1 DEF Calm, Agrees
  <2> QED  BY <1>2, <2>7, <2>8 DEF Calm
<1> QED  BY <1>3, <1>4 DEF Publish

LEMMA CalmStart ==
  ASSUME IInv, Calm, UNCHANGED windows, NEW j \in Jobs, Tick(j) \/ Call(j) \/ Rescan(j)
  PROVE  Calm'
<1>1. TickChunks \in Nat /\ CallChunks \in Nat  BY XmrAssumption
<1>2. Free(j) /\ UNCHANGED <<relayed, locked>>  BY DEF Tick, Call, Rescan
<1>3. Keeps /\ (windows = {} => UNCHANGED lost)
  <2>1. CASE Tick(j) \/ Call(j)
    BY <2>1 DEF Tick, Call, Keeps
  <2>2. CASE Rescan(j)
    BY <2>2, SaveKeeps DEF Rescan
  <2> QED  BY <2>1, <2>2
<1>4. \E n \in Nat : \E r : Set(j, r) /\ Enters(r, n)
  <2>1. CASE Tick(j)
    BY <1>1, <2>1 DEF Tick, Enters
  <2>2. CASE Rescan(j)
    BY <1>1, <2>2 DEF Rescan, Enters
  <2>3. CASE Call(j)
    <3>1. PICK a \in Amounts \cup {0} :
             Set(j, [Idle EXCEPT !.pc = "load", !.left = CallChunks, !.need = a])
      BY <2>3 DEF Call
    <3>2. Enters([Idle EXCEPT !.pc = "load", !.left = CallChunks, !.need = a], CallChunks)
      BY DEF Enters
    <3> QED  BY <1>1, <3>1, <3>2
  <2> QED  BY <2>1, <2>2, <2>3
<1>5. PICK n \in Nat : \E r : Set(j, r) /\ Enters(r, n)  BY <1>4
<1>6. PICK r : Set(j, r) /\ Enters(r, n)  BY <1>5
<1> QED  BY <1>2, <1>3, <1>6, CalmEnter

LEMMA CalmStep ==
  ASSUME IInv, Calm, UNCHANGED windows, NEW j \in Jobs, CallSteps(j)
  PROVE  Calm'
<1>1. CASE j \in Calls /\ BuildFails(j)
  BY <1>1, CalmThrow DEF BuildFails
<1> QED  BY <1>1, CalmStart, CalmLoad, CalmFirst, CalmScan, CalmBuild, CalmMark, CalmPublish
         DEF CallSteps

\* Everything ends.
LEMMA CalmEnds ==
  ASSUME IInv, Calm, Ends, Keeps, windows = {} => UNCHANGED lost
  PROVE  Calm'
<1>1. \A j \in Jobs : job'[j].pc = "idle"  BY DEF Ends, Idle
<1>2. Calls \subseteq Jobs /\ UNCHANGED <<windows, relayed>>  BY DEF Ends, Jobs
<1>3. \A j \in Jobs : Fits(job[j])' /\ Agrees(job[j])'  BY <1>1 DEF Fits, Agrees
<1>4. "calls" \notin windows => Once'  BY <1>2, OnceKept DEF Calm
<1> QED  BY <1>1, <1>2, <1>3, <1>4 DEF Calm

LEMMA InitCalm == Init => Calm
<1> SUFFICES ASSUME Init PROVE Calm
  OBVIOUS
<1>1. \A j \in Jobs : job[j].pc = "idle"  BY DEF Init, Idle
<1>2. \A j \in Jobs : Fits(job[j]) /\ Agrees(job[j])  BY <1>1 DEF Fits, Agrees
<1>3. Used = {}  BY DEF Init, Used
<1>4. Once /\ Calls \subseteq Jobs  BY <1>3 DEF Once, Jobs
<1> QED  BY <1>1, <1>2, <1>4 DEF Init, Calm

LEMMA StepCalm == IInv /\ Calm /\ [Next]_vars => Calm'
<1> SUFFICES ASSUME IInv, Calm, [Next]_vars PROVE Calm'
  OBVIOUS
<1>1. UNCHANGED windows  BY NextMoves
<1>2. CASE \E j \in Jobs : CallSteps(j)
  BY <1>1, <1>2, CalmStep
<1>3. CASE UNCHANGED <<file, job, relayed, lost>> /\ (UNCHANGED locked \/ locked' = FALSE)
  BY <1>1, <1>3 DEF Calm, Fits, Agrees, Once, Used
<1>4. CASE Unlocks \/ Mine \/ UNCHANGED vars
  BY <1>3, <1>4 DEF Unlocks, Mine, vars
<1>5. CASE Locks
  <2>1. UNCHANGED <<file, job, relayed, lost>>  BY <1>5 DEF Locks
  <2>2. "calls" \notin windows =>
          /\ \A j, k \in Calls : job'[j].pc # "idle" /\ job'[k].pc # "idle" => j = k
          /\ \A j \in Calls : Fits(job[j])'
          /\ Once'
    BY <2>1 DEF Calm, Fits, Once, Used
  <2>3. ASSUME windows = {} PROVE \A j \in Jobs : Agrees(job[j])'
    <3>1. \A j \in Jobs : job[j].pc \notin {"built", "publish"}
      BY <1>5, <2>3 DEF Locks, Sending
    <3> QED  BY <2>1, <2>3, <3>1 DEF Calm, Agrees
  <2> QED  BY <1>1, <2>1, <2>2, <2>3 DEF Calm
<1>6. CASE Reload
  BY <1>6, CalmEnds DEF Reload, Keeps
<1>7. CASE Torn
  <2>1. Ends /\ Save(Blank) /\ windows # {}  BY <1>7 DEF Torn, Save
  <2>2. Keeps  BY <2>1, SaveKeeps
  <2> QED  BY <2>1, <2>2, CalmEnds
<1> QED  BY <1>2, <1>4, <1>5, <1>6, <1>7 DEF Next, CallSteps, Jobs

\* While two sends do not run at once, an output goes into two transactions only
\* after its mark was lost, wherever the page is closed and whatever the nodes
\* answer; and outside all windows no mark is lost, so none does.
THEOREM NotRespent == Spec => []NoRespend
<1>1. Calm => NoRespend  BY DEF Calm, Once, Used, NoRespend
<1> QED  BY InitInv, StepInv, InitCalm, StepCalm, <1>1, PTL DEF Spec
=============================================================================
