---------------------------- MODULE BeaconProofs ----------------------------
(***************************************************************************)
(* Theorems about the account that the beacon, the ledger mail and the      *)
(* wallet share, for any nodes, clocks, epochs and bounds.                  *)
(***************************************************************************)
EXTENDS Beacon, FiniteSetTheorems, TLAPS

LEMMA Numbers ==
  /\ Total \in Nat \ {0} /\ Refreshes \in Nat /\ Rounds \in Nat \ {0}
  /\ Skew \in Nat /\ MaxPosts \in Nat /\ Horizon \in Nat
<1>1. Total \in Nat \ {0} /\ Refreshes \in Nat /\ Rounds \in Nat \ {0}
  BY MailAssumption
<1>2. Skew \in Nat /\ MaxPosts \in Nat /\ Horizon \in Nat
  BY BeaconAssumption
<1> QED  BY <1>1, <1>2

-----------------------------------------------------------------------------
(* Types.  A chunk has one of the places of the message.                   *)

Block == {e \in Entries : e.k = "chunk" => e.id \in 0 .. Total - 1}
Headed == [head : Seq(Block), sound : BOOLEAN]

Chains == /\ windows \in AllWindows
          /\ view \in [Honest -> Seq(Block)] /\ conf \in Seq(Block)

\* A message that is not out has a chunk left.
Mails == /\ mail \in [pc : MailPcs, idx : 0 .. Total, on : Headed,
                      refreshes : 0 .. Refreshes, rounds : 0 .. Rounds - 1]
         /\ mail.idx = Total => mail.pc = "sent"

Pubs == /\ now \in 0 .. Horizon
        /\ pub \in [pc : PubPcs, k : Kinds, made : 0 .. Horizon + Skew, on : Headed]
        /\ ids \in 0 .. MaxPosts /\ rests \in 0 .. ids

TypeInv == Chains /\ Mails /\ Pubs

LEMMA ReadType ==
  ASSUME Chains, NEW a \in Read
  PROVE  a \in Headed /\ \E h \in Honest : a.head = view[h]
<1>1. PICK n \in Nodes : a \in Answers(n)
  BY DEF Read, AllAnswers
<1>2. PICK h \in Honest, b \in BOOLEAN : a = [head |-> view[h], sound |-> b]
  <2>1. CASE n \in Honest
    <3>1. a = [head |-> view[n], sound |-> TRUE]  BY <1>1, <2>1 DEF Answers
    <3> QED  BY <2>1, <3>1
  <2>2. CASE n \notin Honest
    <3>1. a \in {[head |-> view[m], sound |-> b] : m \in Honest, b \in BOOLEAN}
      BY <1>1, <2>2 DEF Answers
    <3> QED  BY <3>1
  <2> QED  BY <2>1, <2>2
<1>3. view[h] \in Seq(Block)
  BY <1>2 DEF Chains
<1> QED  BY <1>2, <1>3 DEF Headed

\* A block whose balance is another is still a block.
LEMMA Balanced ==
  ASSUME NEW e \in Entries, NEW b \in BOOLEAN
  PROVE  /\ [e EXCEPT !.sound = b] \in Entries
         /\ [e EXCEPT !.sound = b].k = e.k /\ [e EXCEPT !.sound = b].id = e.id
         /\ [e EXCEPT !.sound = b].sound = b
  BY DEF Entries

LEMMA EntryType ==
  ASSUME NEW k \in {"chunk", "receive", "drain"} \cup Kinds, NEW id \in 0 .. MaxPosts + Total
  PROVE  Entry(k, id) \in Entries /\ Entry(k, id).k = k /\ Entry(k, id).id = id
<1>1. 0 \in 0 .. Horizon + Skew /\ 0 \in 0 .. Horizon
  BY Numbers
<1> QED  BY <1>1 DEF Entry, Entries

\* What is received.
LEMMA ReceiptType ==
  ASSUME NEW e \in Receivable, NEW on \in Headed
  PROVE  /\ Receipt(on, e) \in Block /\ Receipt(on, e).k \in {"receive", "drain"}
         /\ Receipt(on, e).k = "drain" => "minus" \in windows
<1>1. /\ Received \in Entries /\ Received.k = "receive"
      /\ Drain \in Entries /\ Drain.k = "drain"
  <2>1. 0 \in 0 .. MaxPosts + Total  BY Numbers
  <2>2. Entry("drain", 0) \in Entries /\ Entry("drain", 0).k = "drain"  BY <2>1, EntryType
  <2> QED  BY <2>1, <2>2, EntryType, Balanced DEF Received, Drain
<1>2. \/ e = Received \/ e = [Received EXCEPT !.sound = FALSE]
      \/ e = Drain /\ "minus" \in windows
  BY DEF Receivable
<1>3. /\ e \in Entries /\ e.k \in {"receive", "drain"}
      /\ e.k = "drain" => "minus" \in windows
  BY <1>1, <1>2, Balanced
<1>4. PICK b \in BOOLEAN : Receipt(on, e) = [e EXCEPT !.sound = b]
  <2>1. e.sound \in BOOLEAN /\ on.sound \in BOOLEAN  BY <1>3 DEF Entries, Headed
  <2> QED  BY <2>1 DEF Receipt
<1>5. Receipt(on, e) \in Entries /\ Receipt(on, e).k = e.k
  BY <1>3, <1>4, Balanced
<1> QED  BY <1>3, <1>5 DEF Block

LEMMA ChunkType ==
  ASSUME TypeInv, mail.pc = "work"
  PROVE  /\ Chunk(mail.on, mail.idx) \in Block
         /\ Chunk(mail.on, mail.idx).k = "chunk"
         /\ Chunk(mail.on, mail.idx).sound = mail.on.sound
<1>1. mail.idx \in 0 .. Total - 1 /\ mail.on.sound \in BOOLEAN
  BY Numbers DEF TypeInv, Mails, Headed
<1>2. mail.idx \in 0 .. MaxPosts + Total
  BY <1>1, Numbers
<1>3. /\ Entry("chunk", mail.idx) \in Entries /\ Entry("chunk", mail.idx).k = "chunk"
      /\ Entry("chunk", mail.idx).id = mail.idx
  BY <1>2, EntryType
<1> QED  BY <1>1, <1>3, Balanced DEF Chunk, Block

LEMMA IntentType ==
  ASSUME TypeInv, Publishes
  PROVE  /\ Intent \in Block /\ Intent.k = pub.k /\ Intent.sound = pub.on.sound
         /\ Intent.id = ids /\ Intent.made = pub.made /\ Intent.at = now
<1>1. ids \in 0 .. MaxPosts + Total /\ now \in 0 .. Horizon
  BY Numbers DEF TypeInv, Pubs
<1>2. pub.k \in {"offer", "cancel"} /\ pub.made \in 0 .. Horizon + Skew
  BY DEF TypeInv, Pubs, Publishes
<1>3. pub.on.sound \in BOOLEAN
  BY DEF TypeInv, Pubs, Headed
<1> QED  BY <1>1, <1>2, <1>3 DEF Intent, Block, Entries, Kinds

Payment == [Entry("pay", ids) EXCEPT !.sound = pub.on.sound]

LEMMA PaymentType ==
  ASSUME TypeInv
  PROVE  Payment \in Block /\ Payment.k = "pay" /\ Payment.sound = pub.on.sound
<1>1. ids \in 0 .. MaxPosts + Total
  BY Numbers DEF TypeInv, Pubs
<1>2. pub.on.sound \in BOOLEAN
  BY DEF TypeInv, Pubs, Headed
<1>3. Entry("pay", ids) \in Entries /\ Entry("pay", ids).k = "pay"
  BY <1>1, EntryType DEF Kinds
<1> QED  BY <1>2, <1>3, Balanced DEF Payment, Block

-----------------------------------------------------------------------------
(* Submitting.                                                             *)

\* A chain and the block it is extended by.
LEMMA Extend ==
  ASSUME NEW S, NEW h \in Seq(S), NEW e \in S
  PROVE  /\ Append(h, e) \in Seq(S) /\ Len(h) \in Nat
         /\ Last(Append(h, e)) = e /\ Front(Append(h, e)) = h
         /\ Len(Append(h, e)) = Len(h) + 1 /\ Append(h, e)[Len(h) + 1] = e
         /\ \A i \in 1 .. Len(h) : Append(h, e)[i] = h[i]
<1>1. /\ Append(h, e) \in Seq(S) /\ Len(Append(h, e)) = Len(h) + 1
      /\ Append(h, e)[Len(h) + 1] = e
      /\ \A i \in 1 .. Len(h) : Append(h, e)[i] = h[i]
      /\ Len(h) \in Nat
  OBVIOUS
<1>2. Last(Append(h, e)) = e
  BY <1>1 DEF Last
<1>3. SubSeq(Append(h, e), 1, Len(h)) = h
  OBVIOUS
<1>4. Front(Append(h, e)) = h
  BY <1>1, <1>3 DEF Front
<1> QED  BY <1>1, <1>2, <1>4

\* Where a submission ends, taken or lost, a node has what it had or, if it had
\* the chain extended, the extension.
Lands(h, e) ==
  view' \in [Honest -> {view[n] : n \in Honest} \cup {Append(h, e)}] /\
  \A n \in Honest :
    \/ view'[n] = view[n]
    \/ view'[n] = Append(h, e) /\ view[n] = h /\ (e.k = "receive" => e.sound)

LEMMA Submitted ==
  ASSUME NEW h \in Seq(Block), NEW e \in Block, NEW reach, Submit(Append(h, e), reach)
  PROVE  Lands(h, e)
<1> DEFINE chain == Append(h, e)
<1>1. Last(chain) = e /\ Front(chain) = h
  BY Extend
<1>2. \A n \in Honest : Takes(n, chain) => view[n] = h /\ (e.k = "receive" => e.sound)
  BY <1>1 DEF Takes
<1>3. view' = [n \in Honest |-> IF n \in reach /\ Takes(n, chain) THEN chain ELSE view[n]]
  BY DEF Submit
<1> HIDE DEF chain
<1>4. /\ view' \in [Honest -> {view[n] : n \in Honest} \cup {chain}]
      /\ \A n \in Honest : \/ view'[n] = view[n]
                           \/ view'[n] = chain /\ view[n] = h /\ (e.k = "receive" => e.sound)
  BY <1>2, <1>3
<1> QED  BY <1>4 DEF Lands, chain

LEMMA Ended ==
  ASSUME NEW h \in Seq(Block), NEW e \in Block,
         Taken(Append(h, e)) \/ Misled(Append(h, e)) \/ Lost(Append(h, e))
  PROVE  Lands(h, e)
<1>1. PICK reach \in SUBSET Nodes : Submit(Append(h, e), reach)
  BY DEF Taken, Misled, Lost
<1> QED  BY <1>1, Submitted

\* What a submission names as the head to go on with.
LEMMA AheadType ==
  ASSUME Chains, NEW chain \in Seq(Block), NEW on \in Ahead(chain), GoesOn(chain, on)
  PROVE  /\ on \in Headed
         /\ (on.head = chain /\ on.sound) \/ "echo" \in windows
         /\ Taken(chain) \/ Misled(chain)
<1>1. CASE on = [head |-> chain, sound |-> TRUE]
  BY <1>1 DEF Headed, GoesOn
<1>2. CASE \E n \in Honest : on = [head |-> view[n], sound |-> FALSE]
  <2>1. on \in Headed /\ ~on.sound  BY <1>2 DEF Headed, Chains
  <2>2. Misled(chain)  BY <2>1 DEF GoesOn
  <2> QED  BY <2>1, <2>2 DEF Misled
<1> QED  BY <1>1, <1>2 DEF Ahead

LEMMA LandsType ==
  ASSUME Chains, NEW h \in Seq(Block), NEW e \in Block, Lands(h, e), UNCHANGED <<windows, conf>>
  PROVE  Chains'
<1>1. Append(h, e) \in Seq(Block)
  BY Extend
<1>2. \A n \in Honest : view[n] \in Seq(Block)
  BY DEF Chains
<1>3. view' \in [Honest -> Seq(Block)]
  BY <1>1, <1>2 DEF Lands
<1> QED  BY <1>3 DEF Chains

-----------------------------------------------------------------------------
(* What a step does to the account.                                        *)

\* A block signed on the head one of the two users of the account holds.
Signed(e) ==
  \E on \in {mail.on, pub.on} :
    /\ Lands(on.head, e) /\ e \in Block
    /\ \/ e.k = "receive" \/ (e.k = "drain" /\ "minus" \in windows)
       \/ e.k = "chunk" /\ e.sound = mail.on.sound
       \/ e.k = pub.k /\ e.sound = pub.on.sound

LEMMA PocketSigned ==
  ASSUME TypeInv, NEW on \in {mail.on, pub.on}, NEW e \in Receivable,
         \/ Taken(Pocketed(on, e)) \/ Misled(Pocketed(on, e)) \/ Lost(Pocketed(on, e))
  PROVE  \E b : Signed(b)
<1>0. PICK b : b = Receipt(on, e)
  OBVIOUS
<1>1. on \in Headed /\ on.head \in Seq(Block)
  BY DEF TypeInv, Mails, Pubs, Headed
<1>2. /\ b \in Block /\ b.k \in {"receive", "drain"}
      /\ b.k = "drain" => "minus" \in windows
  BY <1>0, <1>1, ReceiptType
<1>3. Taken(Append(on.head, b)) \/ Misled(Append(on.head, b)) \/ Lost(Append(on.head, b))
  BY <1>0 DEF Pocketed
<1>4. Lands(on.head, b)
  BY <1>1, <1>2, <1>3, Ended
<1>5. Signed(b)
  BY <1>2, <1>4 DEF Signed
<1> QED  BY <1>5

LEMMA BlockSigned ==
  ASSUME TypeInv, NEW on \in {mail.on, pub.on}, NEW e \in Block,
         \/ e.k = "chunk" /\ e.sound = mail.on.sound
         \/ e.k = pub.k /\ e.sound = pub.on.sound,
         \/ Taken(Append(on.head, e)) \/ Misled(Append(on.head, e))
         \/ Lost(Append(on.head, e))
  PROVE  Signed(e)
<1>1. on.head \in Seq(Block)
  BY DEF TypeInv, Mails, Pubs, Headed
<1>2. Lands(on.head, e)
  BY <1>1, Ended
<1> QED  BY <1>2 DEF Signed

\* Nothing, a submission, a confirmation or a node's correction.
LEMMA AccountStep ==
  ASSUME TypeInv, [Next]_vars
  PROVE  \/ UNCHANGED nanoVars
         \/ UNCHANGED <<windows, conf>> /\ \E e : Signed(e)
         \/ \E n \in Honest : Confirm(n) \/ Adopt(n)
<1>1. CASE PubStart \/ PubRead \/ ReceiveRead \/ SendRead \/ Pass
  BY <1>1 DEF PubStart, PubRead, ReceiveRead, SendRead, Pass
<1>2. CASE PubPocket
  <2>1. PICK e \in Receivable :
          \/ \E on \in Ahead(Pocketed(pub.on, e)) : GoesOn(Pocketed(pub.on, e), on)
          \/ Lost(Pocketed(pub.on, e))
    BY <1>2 DEF PubPocket
  <2>2. Taken(Pocketed(pub.on, e)) \/ Misled(Pocketed(pub.on, e)) \/ Lost(Pocketed(pub.on, e))
    BY <2>1 DEF GoesOn
  <2>3. UNCHANGED <<windows, conf>>  BY <1>2 DEF PubPocket
  <2> QED  BY <2>2, <2>3, PocketSigned
<1>3. CASE PubSubmit
  <2>1. Intent \in Block /\ Intent.k = pub.k /\ Intent.sound = pub.on.sound
    BY <1>3, IntentType DEF PubSubmit
  <2>2. \/ Taken(Append(pub.on.head, Intent)) \/ Misled(Append(pub.on.head, Intent))
        \/ Lost(Append(pub.on.head, Intent))
    BY <1>3 DEF PubSubmit
  <2>3. UNCHANGED <<windows, conf>>
    BY <1>3 DEF PubSubmit
  <2> QED  BY <2>1, <2>2, <2>3, BlockSigned
<1>4. CASE ReceiveSubmit
  <2>1. PICK e \in Receivable :
          \/ Taken(Pocketed(pub.on, e)) \/ Misled(Pocketed(pub.on, e))
          \/ Lost(Pocketed(pub.on, e))
    BY <1>4 DEF ReceiveSubmit
  <2>2. UNCHANGED <<windows, conf>>  BY <1>4 DEF ReceiveSubmit
  <2> QED  BY <2>1, <2>2, PocketSigned
<1>5. CASE SendSubmit
  <2>1. Payment \in Block /\ Payment.k = pub.k /\ Payment.sound = pub.on.sound
    BY <1>5, PaymentType DEF SendSubmit
  <2>2. \/ Taken(Append(pub.on.head, Payment)) \/ Misled(Append(pub.on.head, Payment))
        \/ Lost(Append(pub.on.head, Payment))
    BY <1>5 DEF SendSubmit, Payment
  <2>3. UNCHANGED <<windows, conf>>
    BY <1>5 DEF SendSubmit
  <2> QED  BY <2>1, <2>2, <2>3, BlockSigned
<1>6. CASE MailStart \/ MailRead
  BY <1>6 DEF MailStart, MailRead
<1>7. CASE MailPocket
  <2>1. PICK e \in Receivable :
          \/ \E on \in Ahead(Pocketed(mail.on, e)) : GoesOn(Pocketed(mail.on, e), on)
          \/ Lost(Pocketed(mail.on, e))
    BY <1>7 DEF MailPocket
  <2>2. Taken(Pocketed(mail.on, e)) \/ Misled(Pocketed(mail.on, e)) \/ Lost(Pocketed(mail.on, e))
    BY <2>1 DEF GoesOn
  <2>3. UNCHANGED <<windows, conf>>  BY <1>7 DEF MailPocket
  <2> QED  BY <2>2, <2>3, PocketSigned
<1>8. CASE MailSubmit
  <2> DEFINE e == Chunk(mail.on, mail.idx)
  <2>1. e \in Block /\ e.k = "chunk" /\ e.sound = mail.on.sound
    BY <1>8, ChunkType DEF MailSubmit
  <2>2. \/ Taken(Append(mail.on.head, e)) \/ Misled(Append(mail.on.head, e))
        \/ Lost(Append(mail.on.head, e))
    BY <1>8 DEF MailSubmit, GoesOn
  <2>3. UNCHANGED <<windows, conf>>
    BY <1>8 DEF MailSubmit
  <2> HIDE DEF e
  <2> QED  BY <2>1, <2>2, <2>3, BlockSigned
<1>9. CASE NanoNext
  BY <1>9 DEF NanoNext
<1>10. CASE UNCHANGED vars
  BY <1>10 DEF vars
<1> QED
  BY <1>1, <1>2, <1>3, <1>4, <1>5, <1>6, <1>7, <1>8, <1>9, <1>10 DEF Next, MailNext

LEMMA ChainsStep ==
  ASSUME TypeInv, [Next]_vars
  PROVE  Chains'
<1>1. CASE UNCHANGED nanoVars
  BY <1>1 DEF TypeInv, Chains, nanoVars
<1>2. CASE UNCHANGED <<windows, conf>> /\ \E e : Signed(e)
  <2>1. PICK e \in Block, on \in {mail.on, pub.on} : Lands(on.head, e)
    BY <1>2 DEF Signed
  <2>2. on.head \in Seq(Block)
    BY DEF TypeInv, Mails, Pubs, Headed
  <2> QED  BY <1>2, <2>1, <2>2, LandsType DEF TypeInv
<1>3. ASSUME NEW n \in Honest, Confirm(n) PROVE Chains'
  BY <1>3 DEF Confirm, TypeInv, Chains
<1>4. ASSUME NEW n \in Honest, Adopt(n) PROVE Chains'
  BY <1>4 DEF Adopt, TypeInv, Chains
<1> QED  BY <1>1, <1>2, <1>3, <1>4, AccountStep

-----------------------------------------------------------------------------
(* Types of the two users.                                                 *)

MailRow == [pc : MailPcs, idx : 0 .. Total, on : Headed, refreshes : 0 .. Refreshes,
            rounds : 0 .. Rounds - 1]

LEMMA FreshMail == NoMail \in MailRow /\ NoHead \in Headed
<1>1. <<>> \in Seq(Block)
  OBVIOUS
<1>2. NoHead \in Headed
  BY <1>1 DEF NoHead, Headed
<1> QED  BY <1>2, Numbers DEF NoMail, MailRow, MailPcs

LEMMA RestartMails ==
  ASSUME Mails, Restart
  PROVE  Mails'
<1>1. NoMail \in MailRow /\ NoMail.idx = 0 /\ Total > 0
  BY FreshMail, Numbers DEF NoMail
<1>2. mail.rounds \in 0 .. Rounds - 1 /\ Rounds \in Nat
  BY Numbers DEF Mails
<1>3. CASE mail.rounds + 1 < Rounds
  <2>1. mail' = [NoMail EXCEPT !.pc = "read", !.rounds = mail.rounds + 1]
    BY <1>3 DEF Restart
  <2>2. mail.rounds + 1 \in 0 .. Rounds - 1
    BY <1>2, <1>3
  <2>3. mail' \in MailRow /\ mail'.idx = 0
    BY <1>1, <2>1, <2>2 DEF MailRow, MailPcs
  <2> QED  BY <1>1, <2>3 DEF Mails, MailRow
<1>4. CASE ~(mail.rounds + 1 < Rounds)
  <2>1. mail' = [NoMail EXCEPT !.pc = "failed"]
    BY <1>4 DEF Restart
  <2>2. mail' \in MailRow /\ mail'.idx = 0
    BY <1>1, <2>1 DEF MailRow, MailPcs
  <2> QED  BY <1>1, <2>2 DEF Mails, MailRow
<1> QED  BY <1>3, <1>4

LEMMA MailsStep ==
  ASSUME TypeInv, MailStart \/ MailNext
  PROVE  Mails'
<1>0. mail \in MailRow /\ (mail.idx = Total => mail.pc = "sent") /\ Chains
  BY DEF TypeInv, Mails, MailRow
<1>1. CASE Restart
  BY <1>1, RestartMails DEF TypeInv
<1>2. CASE MailStart
  <2>1. mail' = [mail EXCEPT !.pc = "read"] /\ mail.pc = "idle"
    BY <1>2 DEF MailStart
  <2> QED  BY <1>0, <2>1 DEF Mails, MailRow, MailPcs
<1>3. ASSUME MailRead, ~Restart PROVE Mails'
  <2>1. PICK a \in Read : \/ mail' = [mail EXCEPT !.pc = "work", !.on = a]
                          \/ mail' = [mail EXCEPT !.pc = "pocket", !.on = a]
    BY <1>3 DEF MailRead
  <2>2. a \in Headed /\ mail.pc = "read"
    BY <1>0, <1>3, <2>1, ReadType DEF MailRead
  <2> QED  BY <1>0, <2>1, <2>2 DEF Mails, MailRow, MailPcs
<1>4. ASSUME MailPocket, ~Restart PROVE Mails'
  <2>1a. PICK e \in Receivable : \E on \in Ahead(Pocketed(mail.on, e)) :
          /\ GoesOn(Pocketed(mail.on, e), on)
          /\ mail' = [mail EXCEPT !.pc = "work", !.on = on]
    BY <1>4 DEF MailPocket
  <2>1. PICK on \in Ahead(Pocketed(mail.on, e)) :
          /\ GoesOn(Pocketed(mail.on, e), on)
          /\ mail' = [mail EXCEPT !.pc = "work", !.on = on]
    BY <2>1a
  <2>2. Pocketed(mail.on, e) \in Seq(Block)
    <3>1. mail.on \in Headed /\ mail.on.head \in Seq(Block)  BY <1>0 DEF MailRow, Headed
    <3>2. Receipt(mail.on, e) \in Block  BY <3>1, ReceiptType
    <3> QED  BY <3>1, <3>2 DEF Pocketed
  <2>3. on \in Headed  BY <1>0, <2>1, <2>2, AheadType
  <2>4. mail.pc = "pocket"  BY <1>4 DEF MailPocket
  <2> QED  BY <1>0, <2>1, <2>3, <2>4 DEF Mails, MailRow, MailPcs
<1>5. ASSUME MailSubmit, ~Restart PROVE Mails'
  <2> DEFINE chain == Append(mail.on.head, Chunk(mail.on, mail.idx))
  <2>1. mail.pc = "work"  BY <1>5 DEF MailSubmit
  <2>2. chain \in Seq(Block)
    <3>1. Chunk(mail.on, mail.idx) \in Block  BY <2>1, ChunkType
    <3>2. mail.on.head \in Seq(Block)  BY <1>0 DEF MailRow, Headed
    <3> QED  BY <3>1, <3>2
  <2>3. mail.idx \in 0 .. Total - 1  BY <1>0, <2>1, Numbers DEF MailRow
  <2> HIDE DEF chain
  <2>4. ASSUME NEW on \in Ahead(chain), GoesOn(chain, on),
               mail' = [mail EXCEPT !.idx = @ + 1, !.on = on,
                          !.pc = IF mail.idx + 1 = Total THEN "sent" ELSE "work"]
        PROVE  Mails'
    <3>0. on \in Headed  BY <1>0, <2>2, <2>4, AheadType
    <3>1. mail.idx + 1 \in 0 .. Total  BY <2>3, Numbers
    <3>2. mail' \in MailRow  BY <1>0, <2>4, <3>0, <3>1 DEF MailRow, MailPcs
    <3>3. mail'.idx = Total => mail'.pc = "sent"  BY <1>0, <2>4 DEF MailRow
    <3> QED  BY <3>2, <3>3 DEF Mails, MailRow
  <2>5. CASE /\ mail.refreshes < Refreshes
             /\ mail' = [mail EXCEPT !.pc = "read", !.on = NoHead, !.refreshes = @ + 1]
    <3>1. mail.refreshes + 1 \in 0 .. Refreshes  BY <1>0, <2>5, Numbers DEF MailRow
    <3>2. mail' \in MailRow  BY <1>0, <2>5, <3>1, FreshMail DEF MailRow, MailPcs
    <3>3. mail'.idx # Total  BY <1>0, <2>1, <2>5 DEF MailRow
    <3> QED  BY <3>2, <3>3 DEF Mails, MailRow
  <2> QED  BY <1>5, <2>4, <2>5 DEF MailSubmit, chain
<1> QED  BY <1>1, <1>2, <1>3, <1>4, <1>5 DEF MailNext

PubRow == [pc : PubPcs, k : Kinds, made : 0 .. Horizon + Skew, on : Headed]

LEMMA IdleType == Idle \in PubRow
<1>1. 0 \in 0 .. Horizon + Skew
  BY Numbers
<1> QED  BY <1>1, FreshMail DEF Idle, PubRow, PubPcs, Kinds

LEMMA SignsType ==
  ASSUME TypeInv, NEW on \in Headed, Signs(on)
  PROVE  pub' \in PubRow
<1>1. now + Skew \in 0 .. Horizon + Skew
  BY Numbers DEF TypeInv, Pubs
<1>2. pub \in PubRow
  BY DEF TypeInv, Pubs, PubRow
<1> QED  BY <1>1, <1>2 DEF Signs, PubRow, PubPcs

LEMMA PubsStep ==
  ASSUME TypeInv, [Next]_vars
  PROVE  Pubs'
<1>0. /\ Chains /\ now \in 0 .. Horizon /\ pub \in PubRow /\ pub.on \in Headed
      /\ ids \in 0 .. MaxPosts /\ rests \in 0 .. ids
  BY DEF TypeInv, Pubs, PubRow
<1>1. CASE PubStart
  <2>1. ids' = ids + 1 /\ ids < MaxPosts /\ UNCHANGED <<now, rests>>
    BY <1>1 DEF PubStart
  <2>2. PICK k \in Kinds : pub' = [Idle EXCEPT !.pc = "read", !.k = k]
    BY <1>1 DEF PubStart
  <2>3. pub' \in PubRow
    BY <2>2, IdleType DEF PubRow, PubPcs
  <2>4. ids' \in 0 .. MaxPosts /\ rests' \in 0 .. ids'
    BY <1>0, <2>1, Numbers
  <2> QED  BY <1>0, <2>1, <2>3, <2>4 DEF Pubs, PubRow
<1>2. CASE PubRead \/ ReceiveRead \/ SendRead
  <2>1. UNCHANGED <<now, ids, rests>>
    BY <1>2 DEF PubRead, ReceiveRead, SendRead
  <2>2. CASE pub' = Idle
    BY <1>0, <2>1, <2>2, IdleType DEF Pubs, PubRow
  <2>3. CASE \E a \in Read : Signs(a)
    <3>1. PICK a \in Read : Signs(a)  BY <2>3
    <3>2. pub' \in PubRow  BY <1>0, <3>1, ReadType, SignsType
    <3> QED  BY <1>0, <2>1, <3>2 DEF Pubs, PubRow
  <2>4. CASE \E a \in Read : \E pc \in {"pocket", "work"} : pub' = [pub EXCEPT !.pc = pc, !.on = a]
    <3>1. PICK a \in Read, pc \in {"pocket", "work"} : pub' = [pub EXCEPT !.pc = pc, !.on = a]
      BY <2>4
    <3>2. pub' \in PubRow  BY <1>0, <3>1, ReadType DEF PubRow, PubPcs
    <3> QED  BY <1>0, <2>1, <3>2 DEF Pubs, PubRow
  <2> QED  BY <1>2, <2>2, <2>3, <2>4 DEF PubRead, ReceiveRead, SendRead
<1>3. CASE PubPocket
  <2>1. UNCHANGED <<now, ids, rests>>  BY <1>3 DEF PubPocket
  <2>2. CASE pub' = Idle
    BY <1>0, <2>1, <2>2, IdleType DEF Pubs, PubRow
  <2>3. CASE pub' # Idle
    <3>1a. PICK e \in Receivable : \E on \in Ahead(Pocketed(pub.on, e)) :
            GoesOn(Pocketed(pub.on, e), on) /\ Signs(on)
      BY <1>3, <2>3 DEF PubPocket
    <3>1. PICK on \in Ahead(Pocketed(pub.on, e)) :
            GoesOn(Pocketed(pub.on, e), on) /\ Signs(on)
      BY <3>1a
    <3>2. Pocketed(pub.on, e) \in Seq(Block)
      <4>1. Receipt(pub.on, e) \in Block /\ pub.on.head \in Seq(Block)
        BY <1>0, ReceiptType DEF Headed
      <4> QED  BY <4>1 DEF Pocketed
    <3>3. on \in Headed  BY <1>0, <3>1, <3>2, AheadType
    <3>4. pub' \in PubRow  BY <3>1, <3>3, SignsType
    <3> QED  BY <1>0, <2>1, <3>4 DEF Pubs, PubRow
  <2> QED  BY <2>2, <2>3
<1>4. CASE PubSubmit \/ ReceiveSubmit \/ SendSubmit
  <2>1. /\ pub' = Idle /\ UNCHANGED <<now, ids>>
        /\ rests' \in {ids, 0, rests}
    BY <1>4 DEF PubSubmit, ReceiveSubmit, SendSubmit
  <2>2. rests' \in 0 .. ids  BY <1>0, <2>1, Numbers
  <2> QED  BY <1>0, <2>1, <2>2, IdleType DEF Pubs, PubRow
<1>5. CASE Pass
  <2>1. now' = now + 1 /\ now < Horizon /\ UNCHANGED <<pub, ids, rests>>  BY <1>5 DEF Pass
  <2>2. now' \in 0 .. Horizon  BY <1>0, <2>1, Numbers
  <2> QED  BY <1>0, <2>1, <2>2 DEF Pubs, PubRow
<1>6. CASE UNCHANGED beaconVars
  BY <1>0, <1>6 DEF beaconVars, Pubs, PubRow
<1>7. CASE UNCHANGED vars
  BY <1>6, <1>7 DEF vars, beaconVars
<1> QED  BY <1>1, <1>2, <1>3, <1>4, <1>5, <1>6, <1>7 DEF Next

LEMMA TypeInit == Init => TypeInv
<1> SUFFICES ASSUME Init PROVE TypeInv
  OBVIOUS
<1>1. <<>> \in Seq(Block)
  OBVIOUS
<1>2. Chains  BY <1>1 DEF Init, NanoInit, Chains
<1>3. Mails
  <2>1. mail \in MailRow /\ mail.idx = 0  BY FreshMail DEF Init, MailInit, NoMail
  <2> QED  BY <2>1, Numbers DEF Mails, MailRow
<1>4. Pubs
  <2>1. 0 \in 0 .. Horizon /\ 0 \in 0 .. MaxPosts /\ 0 \in 0 .. 0  BY Numbers
  <2> QED  BY <2>1, IdleType DEF Init, Pubs, PubRow
<1> QED  BY <1>2, <1>3, <1>4 DEF TypeInv

LEMMA TypeStep == TypeInv /\ [Next]_vars => TypeInv'
<1> SUFFICES ASSUME TypeInv, [Next]_vars PROVE TypeInv'
  OBVIOUS
<1>1. CASE MailStart \/ MailNext
  BY <1>1, ChainsStep, MailsStep, PubsStep DEF TypeInv
<1>2. CASE ~(MailStart \/ MailNext)
  <2>1. UNCHANGED mail
    BY <1>2 DEF Next, vars, PubStart, PubRead, PubPocket, PubSubmit, ReceiveRead, ReceiveSubmit,
                SendRead, SendSubmit, Pass
  <2>2. Mails'  BY <2>1 DEF TypeInv, Mails
  <2> QED  BY <2>2, ChainsStep, PubsStep DEF TypeInv
<1> QED  BY <1>1, <1>2

LEMMA TypeInvariant == Spec => []TypeInv
  BY TypeInit, TypeStep, PTL DEF Spec

\* Every reachable state of the account and its users is of its type.
THEOREM TypeCorrect == Spec => []TypeOK
<1>1. TypeInv => TypeOK
  <2> SUFFICES ASSUME TypeInv PROVE TypeOK
    OBVIOUS
  <2>1. Block \subseteq Entries  BY DEF Block
  <2>2. Seq(Block) \subseteq Seq(Entries)  BY <2>1
  <2>3. Headed \subseteq Heads  BY <2>2 DEF Headed, Heads
  <2> QED  BY <2>2, <2>3 DEF TypeInv, Chains, Mails, Pubs, TypeOK
<1> QED  BY <1>1, TypeInvariant, PTL

-----------------------------------------------------------------------------
(* Nothing is given away: two nodes that agree are not both lying.         *)

OneLiar == (\A l, m \in Liars : l = m) /\ (Single => Liars = {})

Safe(chain) == \A i \in 1 .. Len(chain) : chain[i].sound \/ Endangered(chain[i])

\* A head with another balance is one a lying node answered to a submission, and
\* the wallet signs nothing on such a head.
Sounds ==
  /\ NoBurn /\ Safe(conf)
  /\ mail.on.sound \/ "echo" \in windows
  /\ pub.on.sound \/ ("echo" \in windows /\ Publishes)

LEMMA ReadSound ==
  ASSUME OneLiar, NEW a \in Read
  PROVE  a.sound
<1>1. PICK n \in Nodes, m \in Nodes : (n # m \/ Single) /\ a \in Answers(n) /\ a \in Answers(m)
  BY DEF Read, TwoAgree
<1>2. PICK h \in Honest : a \in Answers(h)
  BY <1>1 DEF OneLiar, Honest
<1> QED  BY <1>2 DEF Answers

\* An honest node takes a receive block only if it is sound, and a send from a
\* sound head is sound.
LEMMA LandsSound ==
  ASSUME Chains, Sounds, NEW h \in Seq(Block), NEW e \in Block, Lands(h, e),
         UNCHANGED windows, e.k = "receive" \/ e.sound \/ Endangered(e)
  PROVE  NoBurn'
<1> SUFFICES ASSUME NEW n \in Honest PROVE Safe(view'[n])
  <2>1. \A x : Endangered(x)' <=> Endangered(x)  BY DEF Endangered
  <2> QED  BY <2>1 DEF NoBurn, Safe, Endangered
<1>1. Safe(view[n])
  BY DEF Sounds, NoBurn, Safe
<1>2. CASE view'[n] = view[n]
  BY <1>1, <1>2
<1>3. CASE view'[n] = Append(h, e) /\ view[n] = h /\ (e.k = "receive" => e.sound)
  <2>1. Safe(h) /\ (e.sound \/ Endangered(e))  BY <1>1, <1>3
  <2>2. Safe(Append(h, e))  BY <2>1, Extend DEF Safe
  <2> QED  BY <1>3, <2>2
<1> QED  BY <1>2, <1>3 DEF Lands

LEMMA ChainsSound ==
  ASSUME TypeInv, Sounds, [Next]_vars
  PROVE  NoBurn' /\ Safe(conf)' /\ UNCHANGED windows
<1>1. CASE UNCHANGED nanoVars
  BY <1>1 DEF Sounds, Safe, NoBurn, nanoVars, Endangered
<1>2. CASE UNCHANGED <<windows, conf>> /\ \E e : Signed(e)
  <2>1. PICK e \in Block, on \in {mail.on, pub.on} :
          /\ Lands(on.head, e)
          /\ \/ e.k = "receive" \/ (e.k = "drain" /\ "minus" \in windows)
             \/ e.k = "chunk" /\ e.sound = mail.on.sound
             \/ e.k = pub.k /\ e.sound = pub.on.sound
    BY <1>2 DEF Signed
  <2>2. on.head \in Seq(Block)
    BY DEF TypeInv, Mails, Pubs, Headed
  <2>3. e.k = "receive" \/ e.sound \/ Endangered(e)
    BY <2>1 DEF Sounds, Publishes, Endangered
  <2>4. NoBurn'  BY <1>2, <2>1, <2>2, <2>3, LandsSound DEF TypeInv
  <2>5. Safe(conf)'  BY <1>2 DEF Sounds, Safe, Endangered
  <2> QED  BY <1>2, <2>4, <2>5
<1>3. ASSUME NEW n \in Honest, Confirm(n) PROVE NoBurn' /\ Safe(conf)' /\ UNCHANGED windows
  BY <1>3 DEF Confirm, Sounds, Safe, NoBurn, Endangered
<1>4. ASSUME NEW n \in Honest, Adopt(n) PROVE NoBurn' /\ Safe(conf)' /\ UNCHANGED windows
  <2>1. view' = [view EXCEPT ![n] = conf] /\ UNCHANGED <<windows, conf>>  BY <1>4 DEF Adopt
  <2>2. view \in [Honest -> Seq(Block)]  BY DEF TypeInv, Chains
  <2>3. \A m \in Honest : Safe(view'[m])  BY <2>1, <2>2 DEF Sounds, Safe, NoBurn
  <2> QED  BY <2>1, <2>3 DEF Sounds, Safe, NoBurn, Endangered
<1> QED  BY <1>1, <1>2, <1>3, <1>4, AccountStep

LEMMA MailSound ==
  ASSUME OneLiar, TypeInv, Sounds, [Next]_vars
  PROVE  mail'.on.sound \/ "echo" \in windows
<1>0. mail \in MailRow /\ mail.on \in Headed /\ Chains
      /\ (mail.on.sound \/ "echo" \in windows)
  BY DEF TypeInv, Mails, MailRow, Sounds
<1>1. CASE UNCHANGED mail
  BY <1>0, <1>1
<1>2. CASE Restart
  BY <1>2 DEF Restart, NoMail, NoHead
<1>3. CASE MailStart
  BY <1>0, <1>3 DEF MailStart, MailRow
<1>4. ASSUME MailRead, ~Restart PROVE mail'.on.sound
  <2>1. PICK a \in Read : \E pc : mail' = [mail EXCEPT !.pc = pc, !.on = a]
    BY <1>4 DEF MailRead
  <2> QED  BY <1>0, <2>1, ReadSound DEF MailRow
<1>5. ASSUME MailPocket, ~Restart PROVE mail'.on.sound \/ "echo" \in windows
  <2>1a. PICK e \in Receivable : \E on \in Ahead(Pocketed(mail.on, e)) :
          /\ GoesOn(Pocketed(mail.on, e), on)
          /\ mail' = [mail EXCEPT !.pc = "work", !.on = on]
    BY <1>5 DEF MailPocket
  <2>1. PICK on \in Ahead(Pocketed(mail.on, e)) :
          /\ GoesOn(Pocketed(mail.on, e), on)
          /\ mail' = [mail EXCEPT !.pc = "work", !.on = on]
    BY <2>1a
  <2>2. on.sound \/ "echo" \in windows  BY <2>1 DEF GoesOn, Misled
  <2>3. mail'.on = on  BY <1>0, <2>1 DEF MailRow
  <2> QED  BY <2>2, <2>3
<1>6. ASSUME MailSubmit, ~Restart PROVE mail'.on.sound \/ "echo" \in windows
  <2> DEFINE chain == Append(mail.on.head, Chunk(mail.on, mail.idx))
  <2>1. \/ \E on \in Ahead(chain) :
             /\ GoesOn(chain, on)
             /\ mail' = [mail EXCEPT !.idx = @ + 1, !.on = on,
                           !.pc = IF mail.idx + 1 = Total THEN "sent" ELSE "work"]
        \/ mail' = [mail EXCEPT !.pc = "read", !.on = NoHead, !.refreshes = @ + 1]
    BY <1>6 DEF MailSubmit
  <2> HIDE DEF chain
  <2>2. ASSUME NEW on \in Ahead(chain), GoesOn(chain, on),
               mail' = [mail EXCEPT !.idx = @ + 1, !.on = on,
                          !.pc = IF mail.idx + 1 = Total THEN "sent" ELSE "work"]
        PROVE  mail'.on.sound \/ "echo" \in windows
    <3>1. on.sound \/ "echo" \in windows  BY <2>2 DEF GoesOn, Misled
    <3>2. mail'.on = on  BY <1>0, <2>2 DEF MailRow
    <3> QED  BY <3>1, <3>2
  <2>3. CASE mail' = [mail EXCEPT !.pc = "read", !.on = NoHead, !.refreshes = @ + 1]
    BY <1>0, <2>3 DEF MailRow, NoHead
  <2> QED  BY <2>1, <2>2, <2>3
<1> QED
  BY <1>1, <1>2, <1>3, <1>4, <1>5, <1>6
  DEF Next, vars, MailNext, PubStart, PubRead, PubPocket, PubSubmit, ReceiveRead,
      ReceiveSubmit, SendRead, SendSubmit, Pass

LEMMA PubSound ==
  ASSUME OneLiar, TypeInv, Sounds, [Next]_vars
  PROVE  pub'.on.sound \/ ("echo" \in windows /\ Publishes')
<1>0. pub \in PubRow /\ pub.on \in Headed
      /\ (pub.on.sound \/ ("echo" \in windows /\ Publishes))
  BY DEF TypeInv, Pubs, PubRow, Sounds
<1>1. CASE UNCHANGED pub
  BY <1>0, <1>1 DEF Publishes
<1>2. CASE pub' = Idle
  BY <1>2 DEF Idle, NoHead
<1>3. CASE PubStart
  BY <1>3 DEF PubStart, Idle, NoHead
<1>4. ASSUME PubRead \/ ReceiveRead \/ SendRead, pub' # Idle PROVE pub'.on.sound
  <2>1. PICK a \in Read : pub'.on = a
    BY <1>0, <1>4 DEF PubRead, ReceiveRead, SendRead, Signs, PubRow
  <2> QED  BY <2>1, ReadSound
<1>5. ASSUME PubPocket, pub' # Idle
      PROVE  pub'.on.sound \/ ("echo" \in windows /\ Publishes')
  <2>1a. PICK e \in Receivable : \E on \in Ahead(Pocketed(pub.on, e)) :
          GoesOn(Pocketed(pub.on, e), on) /\ Signs(on)
    BY <1>5 DEF PubPocket
  <2>1. PICK on \in Ahead(Pocketed(pub.on, e)) :
          GoesOn(Pocketed(pub.on, e), on) /\ Signs(on)
    BY <2>1a
  <2>2. on.sound \/ "echo" \in windows  BY <2>1 DEF GoesOn, Misled
  <2>3. pub'.on = on /\ pub'.k = pub.k  BY <1>0, <2>1 DEF Signs, PubRow
  <2>4. Publishes  BY <1>5 DEF PubPocket
  <2> QED  BY <2>2, <2>3, <2>4 DEF Publishes
<1> QED
  BY <1>1, <1>2, <1>3, <1>4, <1>5
  DEF Next, vars, beaconVars, PubSubmit, ReceiveSubmit, SendSubmit, Pass

LEMMA SoundsStep ==
  ASSUME OneLiar, TypeInv, Sounds, [Next]_vars
  PROVE  Sounds'
<1>1. NoBurn' /\ Safe(conf)' /\ UNCHANGED windows  BY ChainsSound
<1>2. mail'.on.sound \/ "echo" \in windows  BY MailSound
<1>3. pub'.on.sound \/ ("echo" \in windows /\ Publishes')  BY PubSound
<1> QED  BY <1>1, <1>2, <1>3 DEF Sounds

\* With one liar at most among two nodes or more, no block an honest node has taken
\* gives away more than its amount, whatever the liar answers to a read and whoever
\* else uses the account; where it answers a submission with another hash or shows
\* a negative deposit, no payment does, nor any block but those signed on that.
THEOREM NothingBurnt == ASSUME OneLiar PROVE Spec => []NoBurn
<1>1. Init => Sounds
  BY DEF Init, NanoInit, MailInit, Sounds, NoBurn, Safe, NoMail, Idle, NoHead
<1>2. TypeInv /\ Sounds /\ [Next]_vars => Sounds'
  BY SoundsStep
<1>3. Sounds => NoBurn
  BY DEF Sounds
<1> QED  BY <1>1, <1>2, <1>3, TypeInvariant, PTL DEF Spec

-----------------------------------------------------------------------------
(* A message comes back whole.                                             *)

\* As many different places as the message has are all its places.
LEMMA AllPlaces ==
  ASSUME NEW known, NEW place \in [known -> 0 .. Total - 1], Cardinality(known) >= Total,
         \A i, j \in known : place[i] = place[j] => i = j
  PROVE  {place[i] : i \in known} = 0 .. Total - 1
<1>1. IsFiniteSet(0 .. Total - 1) /\ Cardinality(0 .. Total - 1) = Total
  <2>1. 0 \in Int /\ Total - 1 \in Int /\ ~(0 > Total - 1)  BY Numbers
  <2> QED  BY <2>1, FS_Interval, Numbers
<1>2. place \in Injection(known, 0 .. Total - 1)
  BY DEF Injection, IsInjective
<1>3. IsFiniteSet(known) /\ Cardinality(known) <= Total
  BY <1>1, <1>2, FS_Injection
<1>4. Cardinality(known) \in Nat
  BY <1>3, FS_CardinalityType
<1>5. Cardinality(known) = Cardinality(0 .. Total - 1)
  BY <1>1, <1>3, <1>4, Numbers
<1>6. place \in Surjection(known, 0 .. Total - 1)
  BY <1>1, <1>2, <1>5, FS_Injection
<1> QED  BY <1>6 DEF Surjection

\* Wherever its chunks lie on the chain, between other blocks and after other
\* posts, and however many of them a reader is shown, it gets the whole message
\* or none of it, as long as no chunk was posted twice.
THEOREM ComesBackWhole == Spec => []Whole
<1>1. TypeInv => Whole
  <2> SUFFICES ASSUME TypeInv, NEW n \in 0 .. Len(conf),
                      NEW known \in SUBSET ChunksIn(SubSeq(conf, 1, n)),
                      Fetch(conf, ChunksIn(SubSeq(conf, 1, n)), known) # {},
                      \A i, j \in ChunksIn(SubSeq(conf, 1, n)) : conf[i].id = conf[j].id => i = j
               PROVE  Fetch(conf, ChunksIn(SubSeq(conf, 1, n)), known) = 0 .. Total - 1
    BY Zenon DEF Whole
  <2> DEFINE place == [i \in known |-> conf[i].id]
  <2>1. conf \in Seq(Block)  BY DEF TypeInv, Chains
  <2>2. \A i \in known : i \in 1 .. Len(conf) /\ conf[i].k = "chunk"
    <3>1. Len(SubSeq(conf, 1, n)) = n /\ \A i \in 1 .. n : SubSeq(conf, 1, n)[i] = conf[i]
      BY <2>1
    <3>2. 1 .. n \subseteq 1 .. Len(conf)  BY <2>1
    <3> QED  BY <3>1, <3>2 DEF ChunksIn
  <2>3. place \in [known -> 0 .. Total - 1]
    <3>1. \A i \in known : conf[i].id \in 0 .. Total - 1  BY <2>1, <2>2 DEF Block
    <3> QED  BY <3>1
  <2>4. /\ Fetch(conf, ChunksIn(SubSeq(conf, 1, n)), known) = {conf[i].id : i \in known}
        /\ ~(Cardinality(known) < Total)
    BY DEF Fetch
  <2>5. Cardinality(known) >= Total
    <3>1. IsFiniteSet(known)
      <4>1. IsFiniteSet(1 .. Len(conf))  BY <2>1, FS_Interval
      <4>2. known \subseteq 1 .. Len(conf)  BY <2>2
      <4> QED  BY <4>1, <4>2, FS_Subset
    <3>2. Cardinality(known) \in Nat  BY <3>1, FS_CardinalityType
    <3> QED  BY <2>4, <3>2, Numbers
  <2>6. \A i, j \in known : place[i] = place[j] => i = j
    OBVIOUS
  <2>7. {place[i] : i \in known} = {conf[i].id : i \in known}
    OBVIOUS
  <2> HIDE DEF place
  <2>8. {place[i] : i \in known} = 0 .. Total - 1
    BY <2>3, <2>5, <2>6, AllPlaces
  <2> QED  BY <2>4, <2>7, <2>8
<1> QED  BY <1>1, TypeInvariant, PTL

-----------------------------------------------------------------------------
(* The book tells the truth while nothing goes wrong: one user at a time,    *)
(* no answer lost, no reader behind.  Then there is one chain, every node    *)
(* has a part of it, and whoever signs signs on the whole.                   *)

\* s is where t began.
Pre(s, t) == Len(s) <= Len(t) /\ \A i \in 1 .. Len(s) : s[i] = t[i]

\* Every chain there is was this one once, and this is one of them.
Best(c) == Pre(conf, c) /\ \A n \in Honest : Pre(view[n], c)
Tips == {<<>>} \cup {view[n] : n \in Honest}

\* Intents are on the chain in the order they were made, the one being made last.
Ordered(c) ==
  /\ \A i, j \in Intents(c) : i < j => c[i].id < c[j].id /\ c[i].made <= c[j].made
  /\ \A i \in Intents(c) : /\ c[i].id \in 1 .. ids /\ c[i].made <= now + Skew
                           /\ pub.pc # "idle" => c[i].id < ids
                           /\ pub.pc = "work" /\ Publishes => c[i].made <= pub.made

\* The state file names the last intent, if that is an offer.
Reflects(c) ==
  \A i \in Intents(c) :
    c[i].id = rests <=> c[i].k = "offer" /\ \A j \in Intents(c) : j <= i

\* Whoever signs signs on it.
OnTop(c) == /\ pub.pc \in {"pocket", "work"} => pub.on.head = c
            /\ mail.pc \in {"pocket", "work"} => mail.on.head = c

Exclusive == /\ pub.pc = "idle" \/ ~MailBusy
             /\ pub.pc = "work" /\ Publishes => pub.made <= now + Skew
             /\ pub.pc # "idle" => ids > 0

Chained(c) == Best(c) /\ Ordered(c) /\ Reflects(c) /\ OnTop(c)

CalmInv == windows = {} => Exclusive /\ \E c \in Tips : Chained(c)

LEMMA TipType ==
  ASSUME Chains, NEW c \in Tips
  PROVE  c \in Seq(Block)
<1>1. <<>> \in Seq(Block)
  OBVIOUS
<1> QED  BY <1>1 DEF Chains, Tips

LEMMA SameChain ==
  ASSUME NEW s \in Seq(Block), NEW t \in Seq(Block), Pre(s, t), Len(t) <= Len(s)
  PROVE  s = t
<1>1. Len(s) = Len(t) /\ \A i \in 1 .. Len(s) : s[i] = t[i]
  BY DEF Pre
<1> QED  BY <1>1

LEMMA PreIsPrefix ==
  ASSUME NEW s \in Seq(Block), NEW t \in Seq(Block), Pre(s, t)
  PROVE  IsPrefix(s, t)
<1> DEFINE u == SubSeq(s, 1, Len(s))
           v == SubSeq(t, 1, Len(s))
<1>1. Len(s) \in Nat /\ Len(s) <= Len(t) /\ \A i \in 1 .. Len(s) : s[i] = t[i]
  BY DEF Pre
<1>2. /\ u \in Seq(Block) /\ Len(u) = Len(s)
      /\ \A i \in 1 .. Len(s) : u[i] = s[i]
  OBVIOUS
<1>3. /\ v \in Seq(Block) /\ Len(v) = Len(s)
      /\ \A i \in 1 .. Len(s) : v[i] = t[i]
  BY <1>1
<1> HIDE DEF u, v
<1>4. u = v
  BY <1>1, <1>2, <1>3
<1> QED  BY <1>1, <1>4 DEF IsPrefix, u, v

\* A quorum that is not behind answers the chain.
LEMMA BestRead ==
  ASSUME Chains, windows = {}, NEW c \in Tips, Best(c), NEW a \in Read
  PROVE  a.head = c
<1>1. PICK h \in Honest : a.head = view[h]
  BY ReadType
<1>2. \A n \in Honest : ~(Len(view[n]) > Len(view[h]))
  BY <1>1 DEF Read, Behind
<1>3. c \in Seq(Block) /\ \A n \in Honest : view[n] \in Seq(Block)
  BY TipType DEF Chains
<1>4. Pre(view[h], c)
  BY DEF Best
<1>5. Len(c) <= Len(view[h])
  <2>1. CASE c = <<>>  BY <1>3, <2>1
  <2>2. ASSUME NEW n \in Honest, c = view[n] PROVE Len(c) <= Len(view[h])
    BY <1>2, <1>3, <2>2
  <2> QED  BY <2>1, <2>2 DEF Tips
<1> QED  BY <1>1, <1>3, <1>4, <1>5, SameChain

\* The nodes a block reached have it if one of them said so, and none has it if
\* none did.
LEMMA TakenMoves ==
  ASSUME Chains, windows = {}, NEW c \in Tips, Best(c), NEW e \in Block,
         NEW d, d = Append(c, e), Taken(d), UNCHANGED conf
  PROVE  Best(d)' /\ (d \in Tips)'
<1>1. c \in Seq(Block) /\ Last(d) = e /\ Front(d) = c /\ d \in Seq(Block) /\ Pre(c, d)
  BY TipType, Extend DEF Pre
<1>2. PICK reach \in SUBSET Nodes : Submit(d, reach) /\ Acknowledged(d, reach)
  BY DEF Taken
<1>3. PICK n \in Honest : n \in reach /\ Takes(n, d)
  BY <1>2 DEF Acknowledged
<1>4. view' = [m \in Honest |-> IF m \in reach /\ Takes(m, d) THEN d ELSE view[m]]
  BY <1>2 DEF Submit
<1>5. view'[n] = d
  BY <1>3, <1>4
<1>6. ASSUME NEW s \in Seq(Block), Pre(s, c) PROVE Pre(s, d)
  BY <1>1, <1>6 DEF Pre
<1>7. ASSUME NEW m \in Honest PROVE Pre(view'[m], d)
  <2>1. CASE view'[m] = d
    BY <1>1, <2>1 DEF Pre
  <2>2. CASE view'[m] = view[m]
    <3>1. Pre(view[m], c) /\ view[m] \in Seq(Block)  BY DEF Best, Chains
    <3> QED  BY <1>6, <2>2, <3>1
  <2> QED  BY <1>4, <2>1, <2>2
<1>8. Pre(conf', d)
  <2>1. Pre(conf, c) /\ conf \in Seq(Block)  BY DEF Best, Chains
  <2> QED  BY <1>6, <2>1
<1> QED  BY <1>5, <1>7, <1>8 DEF Best, Tips, Pre

\* Nobody is misled, and the head to go on with is the block's own.
LEMMA CalmGoes ==
  ASSUME windows = {}, NEW chain
  PROVE  /\ ~Misled(chain)
         /\ \A on \in Ahead(chain) : GoesOn(chain, on) => Taken(chain) /\ on.head = chain
  BY DEF Misled, Ahead, GoesOn

LEMMA LostStays ==
  ASSUME Chains, windows = {}, NEW d, Lost(d)
  PROVE  UNCHANGED view
<1>1. PICK reach \in SUBSET Nodes : Submit(d, reach) /\ ~Acknowledged(d, reach)
  BY DEF Lost
<1>2. \A n \in Honest : ~(n \in reach /\ Takes(n, d))
  BY <1>1 DEF Acknowledged
<1>3. view' = [m \in Honest |-> view[m]]
  BY <1>1, <1>2 DEF Submit
<1> QED  BY <1>3 DEF Chains

LEMMA StaysBest ==
  ASSUME NEW c \in Tips, Best(c), UNCHANGED <<view, conf>>
  PROVE  Best(c)' /\ (c \in Tips)'
  BY DEF Best, Tips, Pre

LEMMA NetworkBest ==
  ASSUME Chains, NEW c \in Tips, Best(c), NanoNext
  PROVE  Best(c)' /\ (c \in Tips)'
<1>0. /\ c \in Seq(Block) /\ conf \in Seq(Block) /\ view \in [Honest -> Seq(Block)]
      /\ Pre(conf, c) /\ \A m \in Honest : Pre(view[m], c)
  BY TipType DEF Chains, Best
<1>1. ASSUME NEW n \in Honest, Confirm(n) PROVE Best(c)' /\ (c \in Tips)'
  BY <1>0, <1>1 DEF Confirm, Best, Tips, Pre
<1>2. ASSUME NEW n \in Honest, Adopt(n) PROVE Best(c)' /\ (c \in Tips)'
  <2>1. ~IsPrefix(conf, view[n]) /\ view' = [view EXCEPT ![n] = conf] /\ UNCHANGED conf
    BY <1>2 DEF Adopt
  <2>2. c # view[n]
    BY <1>0, <2>1, PreIsPrefix
  <2>3. \A m \in Honest : view'[m] = IF m = n THEN conf ELSE view[m]
    BY <1>0, <2>1
  <2>4. (c \in Tips)'
    BY <2>2, <2>3 DEF Tips
  <2>5. \A m \in Honest : Pre(view'[m], c)
    BY <1>0, <2>3
  <2>6. Pre(conf', c)
    BY <1>0, <2>1
  <2> QED  BY <2>4, <2>5, <2>6 DEF Best, Pre
<1> QED  BY <1>1, <1>2 DEF NanoNext

\* d has the intents of c.
Carried(c, d) == Intents(d) = Intents(c) /\ \A i \in Intents(c) : d[i] = c[i]

LEMMA SameIntents ==
  ASSUME NEW c \in Seq(Block), NEW e \in Block, e.k \notin {"offer", "cancel"}
  PROVE  Carried(c, Append(c, e))
<1> DEFINE d == Append(c, e)
<1>1. Len(d) = Len(c) + 1 /\ d[Len(c) + 1] = e /\ Len(c) \in Nat /\ \A i \in 1 .. Len(c) : d[i] = c[i]
  BY Extend
<1> HIDE DEF d
<1>2. Intents(d) = Intents(c)
  BY <1>1 DEF Intents
<1>3. Carried(c, d)
  BY <1>1, <1>2 DEF Intents, Carried
<1> QED  BY <1>3 DEF d

LEMMA NewIntent ==
  ASSUME NEW c \in Seq(Block), NEW e \in Block, e.k \in {"offer", "cancel"}
  PROVE  /\ Intents(Append(c, e)) = Intents(c) \cup {Len(c) + 1}
         /\ \A i \in Intents(c) : i \in Nat /\ i < Len(c) + 1 /\ Append(c, e)[i] = c[i]
<1> DEFINE d == Append(c, e)
<1>1. Len(d) = Len(c) + 1 /\ d[Len(c) + 1] = e /\ Len(c) \in Nat /\ \A i \in 1 .. Len(c) : d[i] = c[i]
  BY Extend
<1> HIDE DEF d
<1>2. Intents(d) = Intents(c) \cup {Len(c) + 1}
  BY <1>1 DEF Intents
<1>3. \A i \in Intents(c) : i \in Nat /\ i < Len(c) + 1 /\ d[i] = c[i]
  BY <1>1 DEF Intents
<1> QED  BY <1>2, <1>3 DEF d

\* An intent is signed at the time it bears.
PubKept ==
  /\ pub'.pc # "idle" => pub.pc # "idle"
  /\ (pub.pc = "work" /\ Publishes)' => pub'.made = now + Skew \/ pub' = pub

LEMMA KeptOrder ==
  ASSUME NEW c, NEW d, Carried(c, d), Ordered(c), Reflects(c), PubKept,
         UNCHANGED <<now, ids, rests>>
  PROVE  Ordered(d)' /\ Reflects(d)'
<1>1. Ordered(d)'
  BY DEF Carried, Ordered, PubKept, Publishes
<1>2. Reflects(d)'
  BY DEF Carried, Reflects
<1> QED  BY <1>1, <1>2

\* What an action has to show of the users, once the chain is settled.
LEMMA CalmHolds ==
  ASSUME NEW d, (d \in Tips)', Best(d)', Ordered(d)', Reflects(d)', OnTop(d)', Exclusive'
  PROVE  CalmInv'
  BY DEF CalmInv, Chained

LEMMA CalmStart ==
  ASSUME TypeInv, windows = {}, Exclusive, NEW c \in Tips, Chained(c),
         PubStart
  PROVE  CalmInv'
<1>1. /\ pub.pc = "idle" /\ ~MailBusy /\ pub'.pc = "read" /\ ids' = ids + 1
      /\ UNCHANGED <<view, conf, mail, now, rests>>
  BY DEF PubStart, Alone, nanoVars, Idle
<1>2. Best(c)' /\ (c \in Tips)'
  BY <1>1, StaysBest DEF Chained
<1>3. Ordered(c)' /\ Reflects(c)'
  <2>1. ids \in Nat  BY Numbers DEF TypeInv, Pubs
  <2> QED  BY <1>1, <2>1 DEF Chained, Ordered, Reflects
<1>4. OnTop(c)' /\ Exclusive'
  <2>1. ids \in Nat  BY Numbers DEF TypeInv, Pubs
  <2> QED  BY <1>1, <2>1 DEF Chained, OnTop, Exclusive, MailBusy
<1> QED  BY <1>2, <1>3, <1>4, CalmHolds

\* The publish or the wallet reads: it ends, or stands on the chain.
LEMMA CalmRead ==
  ASSUME TypeInv, windows = {}, Exclusive, NEW c \in Tips, Chained(c),
         PubRead \/ ReceiveRead \/ SendRead
  PROVE  CalmInv'
<1>0. now \in Nat /\ Skew \in Nat /\ pub \in PubRow /\ Chains
  BY Numbers DEF TypeInv, Pubs, PubRow
<1>1. pub.pc = "read" /\ ~MailBusy /\ ids > 0 /\ UNCHANGED <<view, conf, mail, now, ids, rests>>
  BY DEF PubRead, ReceiveRead, SendRead, Exclusive, nanoVars
<1>2. Best(c)' /\ (c \in Tips)'
  BY <1>1, StaysBest DEF Chained
<1>3. /\ pub'.pc \in {"pocket", "work"} => pub'.on.head = c
      /\ (pub.pc = "work" /\ Publishes)' => pub'.made = now + Skew
  <2>1. CASE pub' = Idle
    BY <2>1 DEF Idle
  <2>2. ASSUME NEW a \in Read, Signs(a) PROVE <1>3!1 /\ <1>3!2
    <3>1. a.head = c  BY <1>0, BestRead DEF Chained
    <3> QED  BY <1>0, <2>2, <3>1 DEF Signs, PubRow
  <2>3. ASSUME NEW a \in Read, pub' = [pub EXCEPT !.pc = "pocket", !.on = a]
        PROVE  <1>3!1 /\ <1>3!2
    <3>1. a.head = c  BY <1>0, BestRead DEF Chained
    <3> QED  BY <1>0, <2>3, <3>1 DEF PubRow
  <2>4. ASSUME NEW a \in Read, pub.k = "pay", pub' = [pub EXCEPT !.pc = "work", !.on = a]
        PROVE  <1>3!1 /\ <1>3!2
    <3>1. a.head = c  BY <1>0, BestRead DEF Chained
    <3> QED  BY <1>0, <2>4, <3>1 DEF PubRow, Publishes
  <2> QED  BY <2>1, <2>2, <2>3, <2>4 DEF PubRead, ReceiveRead, SendRead
<1>4. Ordered(c)' /\ Reflects(c)'
  <2>1. PubKept  BY <1>1, <1>3 DEF PubKept
  <2> QED  BY <1>1, <2>1, KeptOrder DEF Chained, Carried
<1>5. OnTop(c)'
  BY <1>1, <1>3 DEF Chained, OnTop
<1>6. Exclusive'
  BY <1>0, <1>1, <1>3 DEF Exclusive, MailBusy
<1> QED  BY <1>2, <1>4, <1>5, <1>6, CalmHolds

\* Another block than an intent is submitted, by whoever signed it on the chain.
LEMMA CalmBlock ==
  ASSUME TypeInv, windows = {}, NEW c \in Tips, Chained(c),
         NEW e \in Block, e.k \notin {"offer", "cancel"},
         Taken(Append(c, e)), PubKept, UNCHANGED <<conf, now, ids, rests>>
  PROVE  \E d : d = Append(c, e) /\ (d \in Tips)' /\ Best(d)' /\ Ordered(d)' /\ Reflects(d)'
<1>1. PICK d : d = Append(c, e)
  OBVIOUS
<1>2. Best(d)' /\ (d \in Tips)'
  BY <1>1, TakenMoves DEF Chained, TypeInv
<1>3. Carried(c, d)
  BY <1>1, SameIntents, TipType DEF TypeInv
<1>4. Ordered(d)' /\ Reflects(d)'
  BY <1>3, KeptOrder DEF Chained
<1> QED  BY <1>1, <1>2, <1>4

LEMMA CalmPocket ==
  ASSUME TypeInv, windows = {}, Exclusive, NEW c \in Tips, Chained(c), PubPocket
  PROVE  CalmInv'
<1>0. now \in Nat /\ Skew \in Nat /\ pub \in PubRow /\ Chains
  BY Numbers DEF TypeInv, Pubs, PubRow
<1>1. /\ pub.pc = "pocket" /\ pub.on.head = c /\ ~MailBusy /\ ids > 0
      /\ UNCHANGED <<conf, mail, now, ids, rests>>
  BY DEF PubPocket, Exclusive, Chained, OnTop
<1>2. PICK r \in Receivable :
         \/ \E on \in Ahead(Pocketed(pub.on, r)) : GoesOn(Pocketed(pub.on, r), on) /\ Signs(on)
         \/ Lost(Pocketed(pub.on, r)) /\ pub' = Idle
  BY DEF PubPocket
<1>3. PICK e \in Block : /\ e.k \notin {"offer", "cancel"}
                         /\ Pocketed(pub.on, r) = Append(c, e)
  <2>1. Receipt(pub.on, r) \in Block /\ Receipt(pub.on, r).k \in {"receive", "drain"}
    BY <1>0, ReceiptType DEF PubRow
  <2> QED  BY <1>1, <2>1 DEF Pocketed
<1>4. CASE \E on : Taken(Append(c, e)) /\ on.head = Append(c, e) /\ Signs(on)
  <2>1. pub'.pc = "work" /\ pub'.made = now + Skew /\ pub'.on.head = Append(c, e)
    BY <1>0, <1>4 DEF Signs, PubRow
  <2>2. PubKept
    BY <1>1, <2>1 DEF PubKept
  <2>3. PICK d : d = Append(c, e) /\ (d \in Tips)' /\ Best(d)' /\ Ordered(d)' /\ Reflects(d)'
    BY <1>1, <1>3, <1>4, <2>2, CalmBlock
  <2>4. OnTop(d)'
    BY <1>1, <2>1, <2>3 DEF OnTop, MailBusy
  <2>5. Exclusive'
    BY <1>0, <1>1, <2>1 DEF Exclusive, MailBusy
  <2> QED  BY <2>3, <2>4, <2>5, CalmHolds
<1>5. CASE Lost(Append(c, e)) /\ pub' = Idle
  <2>1. Best(c)' /\ (c \in Tips)'
    BY <1>0, <1>1, <1>5, LostStays, StaysBest DEF Chained
  <2>2. Ordered(c)' /\ Reflects(c)'
    <3>1. PubKept  BY <1>5 DEF PubKept, Idle
    <3> QED  BY <1>1, <3>1, KeptOrder DEF Chained, Carried
  <2>3. OnTop(c)' /\ Exclusive'
    BY <1>1, <1>5 DEF OnTop, Exclusive, MailBusy, Idle
  <2> QED  BY <2>1, <2>2, <2>3, CalmHolds
<1> QED  BY <1>2, <1>3, <1>4, <1>5, CalmGoes

LEMMA CalmWallet ==
  ASSUME TypeInv, windows = {}, Exclusive, NEW c \in Tips, Chained(c),
         ReceiveSubmit \/ SendSubmit
  PROVE  CalmInv'
<1>1. /\ pub.on.head = c /\ ~MailBusy /\ pub' = Idle /\ Chains
      /\ UNCHANGED <<conf, mail, now, ids, rests>>
  BY DEF ReceiveSubmit, SendSubmit, Exclusive, Chained, OnTop, TypeInv
<1>2. PICK e \in Block : /\ e.k \notin {"offer", "cancel"}
                         /\ Taken(Append(c, e)) \/ Lost(Append(c, e))
  <2>1. CASE ReceiveSubmit
    <3>1. PICK r \in Receivable : Taken(Pocketed(pub.on, r)) \/ Lost(Pocketed(pub.on, r))
      BY <2>1, CalmGoes DEF ReceiveSubmit
    <3>2. Receipt(pub.on, r) \in Block /\ Receipt(pub.on, r).k \in {"receive", "drain"}
      BY ReceiptType DEF TypeInv, Pubs
    <3> QED  BY <1>1, <3>1, <3>2 DEF Pocketed
  <2>2. CASE SendSubmit
    <3>1. \/ Taken(Append(pub.on.head, Payment)) \/ Lost(Append(pub.on.head, Payment))
      BY <2>2, CalmGoes DEF SendSubmit, Payment
    <3> QED  BY <1>1, <3>1, PaymentType
  <2> QED  BY <2>1, <2>2
<1>3. PubKept
  BY <1>1 DEF PubKept, Idle
<1>4. CASE Taken(Append(c, e))
  <2>1. PICK d : d = Append(c, e) /\ (d \in Tips)' /\ Best(d)' /\ Ordered(d)' /\ Reflects(d)'
    BY <1>1, <1>2, <1>3, <1>4, CalmBlock
  <2>2. OnTop(d)' /\ Exclusive'
    BY <1>1 DEF OnTop, Exclusive, MailBusy, Idle
  <2> QED  BY <2>1, <2>2, CalmHolds
<1>5. CASE Lost(Append(c, e))
  <2>1. Best(c)' /\ (c \in Tips)'
    BY <1>1, <1>5, LostStays, StaysBest DEF Chained
  <2>2. Ordered(c)' /\ Reflects(c)'
    BY <1>1, <1>3, KeptOrder DEF Chained, Carried
  <2>3. OnTop(c)' /\ Exclusive'
    BY <1>1 DEF OnTop, Exclusive, MailBusy, Idle
  <2> QED  BY <2>1, <2>2, <2>3, CalmHolds
<1> QED  BY <1>2, <1>4, <1>5

\* The intent is the newest there is, and the state file follows it.
LEMMA CalmSubmit ==
  ASSUME TypeInv, windows = {}, Exclusive, NEW c \in Tips, Chained(c), PubSubmit
  PROVE  CalmInv'
<1>0. /\ Chains /\ c \in Seq(Block) /\ Len(c) \in Nat /\ ids \in Nat
      /\ \A i \in Intents(c) : i \in Nat
  <2>1. c \in Seq(Block)  BY TipType DEF TypeInv
  <2>2. Len(c) \in Nat  BY <2>1
  <2> QED  BY <2>1, <2>2, Numbers DEF TypeInv, Pubs, Intents
<1>1. /\ pub.pc = "work" /\ Publishes /\ pub.on.head = c /\ ~MailBusy /\ ids > 0 /\ pub' = Idle
      /\ pub.made <= now + Skew /\ UNCHANGED <<conf, mail, now, ids>>
  BY DEF PubSubmit, Exclusive, Chained, OnTop
<1>2. PICK e \in Block : e = Intent /\ e.k = pub.k /\ e.id = ids /\ e.made = pub.made
  BY <1>1, IntentType
<1>4. CASE Taken(Append(c, e)) /\ rests' = IF pub.k = "offer" THEN ids ELSE 0
  <2>1. PICK d : d = Append(c, e)
    OBVIOUS
  <2>2. Best(d)' /\ (d \in Tips)'
    BY <1>0, <1>1, <1>4, <2>1, TakenMoves DEF Chained
  <2> DEFINE l == Len(c) + 1
  <2>3. /\ Intents(d) = Intents(c) \cup {l} /\ d[l] = e
        /\ \A i \in Intents(c) : i \in Nat /\ i < l /\ d[i] = c[i]
    <3>1. e.k \in {"offer", "cancel"} /\ c \in Seq(Block)
      BY <1>0, <1>1, <1>2 DEF Publishes
    <3>2. Append(c, e)[Len(c) + 1] = e
      BY <3>1, Extend
    <3> QED  BY <2>1, <3>1, <3>2, NewIntent
  <2> HIDE DEF l
  <2>4. \A i \in Intents(c) : c[i].id \in 1 .. ids /\ c[i].id < ids /\ c[i].made <= pub.made
    BY <1>1 DEF Chained, Ordered
  <2>5. \A i, j \in Intents(c) : i < j => c[i].id < c[j].id /\ c[i].made <= c[j].made
    BY DEF Chained, Ordered
  <2>6. l \in Nat  BY <1>0 DEF l
  <2>7. Ordered(d)'
    <3>1. \A i, j \in Intents(d) : i < j => d[i].id < d[j].id /\ d[i].made <= d[j].made
      <4> SUFFICES ASSUME NEW i \in Intents(d), NEW j \in Intents(d), i < j
                   PROVE  d[i].id < d[j].id /\ d[i].made <= d[j].made
        OBVIOUS
      <4>1. i \in Intents(c)  BY <2>3, <2>6
      <4>2. CASE j \in Intents(c)  BY <2>3, <2>5, <4>1, <4>2
      <4>3. CASE j = l  BY <1>2, <2>3, <2>4, <4>1, <4>3
      <4> QED  BY <2>3, <4>2, <4>3
    <3>2. \A i \in Intents(d) : d[i].id \in 1 .. ids /\ d[i].made <= now + Skew
      <4>1. \A i \in Intents(c) : c[i].id \in 1 .. ids /\ c[i].made <= now + Skew
        BY DEF Chained, Ordered
      <4>2. ids \in 1 .. ids  BY <1>0, <1>1
      <4> QED  BY <1>1, <1>2, <2>3, <4>1, <4>2
    <3> QED  BY <1>1, <3>1, <3>2 DEF Ordered, Idle
  <2>8. Reflects(d)'
    <3>1. \A i \in Intents(c) : c[i].id # rests'
      BY <1>0, <1>4, <2>4
    <3>2. ids = rests' <=> pub.k = "offer"
      BY <1>0, <1>1, <1>4
    <3>3. \A i \in Intents(d) : d[i].id = rests' <=> d[i].k = "offer" /\ \A j \in Intents(d) : j <= i
      BY <1>2, <2>3, <2>6, <3>1, <3>2
    <3> QED  BY <3>3 DEF Reflects
  <2>9. OnTop(d)' /\ Exclusive'
    BY <1>1 DEF OnTop, Exclusive, MailBusy, Idle
  <2> QED  BY <2>2, <2>7, <2>8, <2>9, CalmHolds
<1>5. CASE Lost(Append(c, e)) /\ UNCHANGED rests
  <2>1. Best(c)' /\ (c \in Tips)'
    BY <1>0, <1>1, <1>5, LostStays, StaysBest DEF Chained
  <2>2. Ordered(c)' /\ Reflects(c)'
    <3>1. PubKept  BY <1>1 DEF PubKept, Idle
    <3> QED  BY <1>1, <1>5, <3>1, KeptOrder DEF Chained, Carried
  <2>3. OnTop(c)' /\ Exclusive'
    BY <1>1 DEF OnTop, Exclusive, MailBusy, Idle
  <2> QED  BY <2>1, <2>2, <2>3, CalmHolds
<1> QED
  <2>1. \/ Taken(Append(c, Intent)) /\ rests' = IF pub.k = "offer" THEN ids ELSE 0
        \/ Lost(Append(c, Intent)) /\ UNCHANGED rests
    BY <1>1, CalmGoes DEF PubSubmit
  <2> QED  BY <1>2, <1>4, <1>5, <2>1

LEMMA CalmMailStart ==
  ASSUME windows = {}, Exclusive, NEW c \in Tips, Chained(c),
         MailStart, Alone, UNCHANGED beaconVars
  PROVE  CalmInv'
<1>1. /\ mail' = [mail EXCEPT !.pc = "read"] /\ pub.pc = "idle"
      /\ UNCHANGED <<view, conf, pub, now, ids, rests>>
  BY DEF MailStart, Alone, beaconVars, nanoVars
<1>2. Best(c)' /\ (c \in Tips)'
  BY <1>1, StaysBest DEF Chained
<1>3. Ordered(c)' /\ Reflects(c)'
  <2>1. PubKept  BY <1>1 DEF PubKept
  <2> QED  BY <1>1, <2>1, KeptOrder DEF Chained, Carried
<1>4. mail'.pc \notin {"pocket", "work"}
  BY <1>1
<1>5. OnTop(c)' /\ Exclusive'
  BY <1>1, <1>4 DEF Chained, OnTop, Exclusive
<1> QED  BY <1>2, <1>3, <1>5, CalmHolds

\* A post that throws signs on nothing.
LEMMA RestartIdle == Restart => mail'.pc \notin {"pocket", "work"}
<1>1. CASE mail' = [NoMail EXCEPT !.pc = "read", !.rounds = mail.rounds + 1]
  BY <1>1 DEF NoMail
<1>2. CASE mail' = [NoMail EXCEPT !.pc = "failed"]
  BY <1>2 DEF NoMail
<1> QED  BY <1>1, <1>2 DEF Restart

LEMMA CalmMailRead ==
  ASSUME TypeInv, windows = {}, Exclusive, NEW c \in Tips, Chained(c),
         MailRead, UNCHANGED beaconVars
  PROVE  CalmInv'
<1>0. mail \in MailRow /\ Chains
  BY DEF TypeInv, Mails, MailRow
<1>1. pub.pc = "idle" /\ UNCHANGED <<view, conf, pub, now, ids, rests>>
  BY DEF MailRead, Exclusive, MailBusy, beaconVars, nanoVars
<1>2. Best(c)' /\ (c \in Tips)'
  BY <1>1, StaysBest DEF Chained
<1>3. Ordered(c)' /\ Reflects(c)'
  <2>1. PubKept  BY <1>1 DEF PubKept
  <2> QED  BY <1>1, <2>1, KeptOrder DEF Chained, Carried
<1>4. mail'.pc \in {"pocket", "work"} => mail'.on.head = c
  <2>1. ASSUME NEW a \in Read, NEW pc, mail' = [mail EXCEPT !.pc = pc, !.on = a]
        PROVE  mail'.on.head = c
    <3>1. a.head = c  BY <1>0, BestRead DEF Chained
    <3> QED  BY <1>0, <2>1, <3>1 DEF MailRow
  <2> QED  BY <2>1, RestartIdle DEF MailRead
<1>5. OnTop(c)' /\ Exclusive'
  BY <1>1, <1>4 DEF Chained, OnTop, Exclusive
<1> QED  BY <1>2, <1>3, <1>5, CalmHolds

LEMMA CalmMailBlock ==
  ASSUME TypeInv, windows = {}, Exclusive, NEW c \in Tips, Chained(c),
         MailPocket \/ MailSubmit, UNCHANGED beaconVars
  PROVE  CalmInv'
<1>0. mail \in MailRow /\ mail.on \in Headed /\ Chains
  BY DEF TypeInv, Mails, MailRow
<1>1. mail.on.head = c /\ pub.pc = "idle" /\ UNCHANGED <<conf, pub, now, ids, rests>>
  BY DEF MailPocket, MailSubmit, Chained, OnTop, Exclusive, MailBusy, beaconVars
<1>2. PICK e \in Block : /\ e.k \notin {"offer", "cancel"}
                         /\ \/ Taken(Append(c, e)) /\ mail'.on.head = Append(c, e)
                            \/ Lost(Append(c, e)) /\ mail'.pc \notin {"pocket", "work"}
  <2>1. CASE MailPocket
    <3>1. PICK r \in Receivable :
            \/ \E on \in Ahead(Pocketed(mail.on, r)) :
                 /\ GoesOn(Pocketed(mail.on, r), on)
                 /\ mail' = [mail EXCEPT !.pc = "work", !.on = on]
            \/ Lost(Pocketed(mail.on, r)) /\ Restart
      BY <2>1 DEF MailPocket
    <3>2. PICK e \in Block : /\ e.k \notin {"offer", "cancel"}
                             /\ Pocketed(mail.on, r) = Append(c, e)
      <4>1. Receipt(mail.on, r) \in Block /\ Receipt(mail.on, r).k \in {"receive", "drain"}
        BY <1>0, ReceiptType
      <4> QED  BY <1>1, <4>1 DEF Pocketed
    <3>3. ASSUME NEW on, mail' = [mail EXCEPT !.pc = "work", !.on = on] PROVE mail'.on = on
      BY <1>0, <3>3 DEF MailRow
    <3>4. \/ Taken(Append(c, e)) /\ mail'.on.head = Append(c, e)
          \/ Lost(Append(c, e)) /\ Restart
      BY <3>1, <3>2, <3>3, CalmGoes
    <3> QED  BY <3>2, <3>4, RestartIdle
  <2>2. CASE MailSubmit
    <3>1. PICK e \in Block : e = Chunk(mail.on, mail.idx) /\ e.k = "chunk"
      BY <2>2, ChunkType DEF MailSubmit
    <3> DEFINE chain == Append(c, e)
    <3> HIDE DEF chain
    <3>2. chain = Append(mail.on.head, Chunk(mail.on, mail.idx))
      BY <1>1, <3>1 DEF chain
    <3>3. ASSUME NEW on \in Ahead(chain), GoesOn(chain, on),
                 mail' = [mail EXCEPT !.idx = @ + 1, !.on = on,
                            !.pc = IF mail.idx + 1 = Total THEN "sent" ELSE "work"]
          PROVE  Taken(chain) /\ mail'.on.head = chain
      <4>1. mail'.on = on  BY <1>0, <3>3 DEF MailRow
      <4> QED  BY <3>3, <4>1, CalmGoes
    <3>4. CASE Lost(chain) /\ mail' = [mail EXCEPT !.pc = "read", !.on = NoHead, !.refreshes = @ + 1]
      <4>1. mail'.pc = "read"  BY <1>0, <3>4 DEF MailRow
      <4> QED  BY <3>1, <3>4, <4>1 DEF chain
    <3>5. CASE Lost(chain) /\ Restart
      BY <3>1, <3>5, RestartIdle DEF chain
    <3>6. \/ Taken(chain) /\ mail'.on.head = chain
          \/ Lost(chain) /\ mail' = [mail EXCEPT !.pc = "read", !.on = NoHead, !.refreshes = @ + 1]
          \/ Lost(chain) /\ Restart
      BY <2>2, <3>2, <3>3 DEF MailSubmit
    <3>7. CASE Taken(chain) /\ mail'.on.head = chain
      BY <3>1, <3>7 DEF chain
    <3> QED  BY <3>4, <3>5, <3>6, <3>7
  <2> QED  BY <2>1, <2>2
<1>3. PubKept
  BY <1>1 DEF PubKept
<1>4. CASE Taken(Append(c, e)) /\ mail'.on.head = Append(c, e)
  <2>1. PICK d : d = Append(c, e) /\ (d \in Tips)' /\ Best(d)' /\ Ordered(d)' /\ Reflects(d)'
    BY <1>1, <1>2, <1>3, <1>4, CalmBlock
  <2>2. OnTop(d)' /\ Exclusive'
    BY <1>1, <1>4, <2>1 DEF OnTop, Exclusive
  <2> QED  BY <2>1, <2>2, CalmHolds
<1>5. CASE Lost(Append(c, e)) /\ mail'.pc \notin {"pocket", "work"}
  <2>1. Best(c)' /\ (c \in Tips)'
    BY <1>0, <1>1, <1>5, LostStays, StaysBest DEF Chained
  <2>2. Ordered(c)' /\ Reflects(c)'
    BY <1>1, <1>3, KeptOrder DEF Chained, Carried
  <2>3. OnTop(c)' /\ Exclusive'
    BY <1>1, <1>5 DEF OnTop, Exclusive
  <2> QED  BY <2>1, <2>2, <2>3, CalmHolds
<1> QED  BY <1>2, <1>4, <1>5

\* The network, time, and nothing.
LEMMA CalmRest ==
  ASSUME TypeInv, windows = {}, Exclusive, NEW c \in Tips, Chained(c),
         \/ NanoNext /\ UNCHANGED <<mail, beaconVars>>
         \/ Pass
         \/ UNCHANGED vars
  PROVE  CalmInv'
<1>0. Chains /\ now \in Nat /\ Skew \in Nat /\ pub.made \in Nat /\ \A i \in Intents(c) : c[i].made \in Nat
  <2>1. c \in Seq(Block)  BY TipType DEF TypeInv
  <2>2. \A i \in Intents(c) : c[i] \in Entries  BY <2>1 DEF Intents, Block
  <2>3. pub.made \in 0 .. Horizon + Skew  BY DEF TypeInv, Pubs
  <2> QED  BY <2>2, <2>3, Numbers DEF TypeInv, Pubs, Entries
<1>1. UNCHANGED <<mail, pub, ids, rests>> /\ (now' = now \/ now' = now + 1)
  BY DEF Pass, beaconVars, vars
<1>2. Best(c)' /\ (c \in Tips)'
  <2>1. CASE NanoNext
    BY <1>0, <2>1, NetworkBest DEF Chained
  <2>2. CASE UNCHANGED <<view, conf>>
    BY <2>2, StaysBest DEF Chained
  <2> QED  BY <2>1, <2>2 DEF Pass, vars, nanoVars
<1>3. Ordered(c)' /\ Reflects(c)'
  BY <1>0, <1>1 DEF Chained, Ordered, Reflects, Publishes
<1>4. OnTop(c)' /\ Exclusive'
  BY <1>0, <1>1 DEF Chained, OnTop, Exclusive, MailBusy, Publishes
<1> QED  BY <1>2, <1>3, <1>4, CalmHolds

LEMMA CalmStep ==
  ASSUME TypeInv, CalmInv, [Next]_vars
  PROVE  CalmInv'
<1>1. UNCHANGED windows
  <2>1. CASE UNCHANGED nanoVars  BY <2>1 DEF nanoVars
  <2> QED  BY <2>1, AccountStep DEF Confirm, Adopt
<1>2. CASE windows # {}
  BY <1>1, <1>2 DEF CalmInv
<1>3. CASE windows = {}
  <2>1. PICK c \in Tips : Exclusive /\ Chained(c)
    BY <1>3 DEF CalmInv
  <2> QED
    BY <1>3, <2>1, CalmStart, CalmRead, CalmPocket, CalmSubmit, CalmWallet, CalmMailStart,
       CalmMailRead, CalmMailBlock, CalmRest DEF Next, MailNext
<1> QED  BY <1>2, <1>3

LEMMA CalmInit == Init => CalmInv
<1> SUFFICES ASSUME Init PROVE CalmInv
  OBVIOUS
<1> DEFINE c == <<>>
<1>1. c \in Tips /\ Len(c) = 0
  BY DEF Tips
<1>2. Best(c)
  BY <1>1 DEF Init, NanoInit, Best, Pre
<1>3. Intents(c) = {}
  BY <1>1 DEF Intents
<1>4. OnTop(c) /\ Exclusive
  BY DEF Init, MailInit, NoMail, Idle, OnTop, Exclusive
<1> HIDE DEF c
<1> QED  BY <1>1, <1>2, <1>3, <1>4 DEF CalmInv, Chained, Ordered, Reflects

\* Times in order have epochs in order, and no more than an epoch apart no more
\* than one.
LEMMA EpochNat ==
  ASSUME NEW a \in Nat
  PROVE  EpochOf(a) \in Nat /\ EpochOf(a) * Epoch <= a /\ a < EpochOf(a) * Epoch + Epoch
<1>1. Epoch \in Nat \ {0}
  BY BeaconAssumption
<1> QED  BY <1>1 DEF EpochOf

LEMMA EpochNear ==
  ASSUME NEW a \in Nat, NEW b \in Nat, b <= a + Epoch
  PROVE  EpochOf(b) <= EpochOf(a) + 1
<1>1. Epoch \in Nat \ {0}
  BY BeaconAssumption
<1> DEFINE p == EpochOf(a)
           q == EpochOf(b)
<1>2. /\ p \in Nat /\ q \in Nat /\ q * Epoch <= b /\ a < p * Epoch + Epoch
  BY EpochNat
<1> HIDE DEF p, q
<1>3. SUFFICES ASSUME q >= p + 2 PROVE FALSE
  BY <1>2 DEF p, q
<1>4. q * Epoch >= (p + 2) * Epoch
  BY <1>1, <1>2, <1>3
<1>5. (p + 2) * Epoch = p * Epoch + Epoch + Epoch
  BY <1>1, <1>2
<1>6. p * Epoch \in Nat /\ q * Epoch \in Nat
  BY <1>1, <1>2
<1> QED  BY <1>1, <1>2, <1>4, <1>5, <1>6

LEMMA EpochOrder ==
  ASSUME NEW a \in Nat, NEW b \in Nat, a <= b
  PROVE  EpochOf(a) <= EpochOf(b)
<1>1. Epoch \in Nat \ {0}
  BY BeaconAssumption
<1> DEFINE p == EpochOf(a)
           q == EpochOf(b)
<1>2. p \in Nat /\ q \in Nat /\ p * Epoch <= a /\ b < q * Epoch + Epoch
  BY EpochNat
<1> HIDE DEF p, q
<1>3. SUFFICES ASSUME p >= q + 1 PROVE FALSE
  BY <1>2 DEF p, q
<1>4. p * Epoch >= (q + 1) * Epoch
  BY <1>1, <1>2, <1>3
<1>5. (q + 1) * Epoch = q * Epoch + Epoch
  BY <1>1, <1>2
<1>6. p * Epoch \in Nat /\ q * Epoch \in Nat
  BY <1>1, <1>2
<1> QED  BY <1>1, <1>2, <1>4, <1>5, <1>6

\* Once it has settled, the network's chain is the one.
LEMMA SettledChain ==
  ASSUME Chains, CalmInv, windows = {}, Settled
  PROVE  Ordered(conf) /\ Reflects(conf)
<1>1. PICK c \in Tips : Chained(c)
  BY DEF CalmInv
<1>2. c \in Seq(Block) /\ conf \in Seq(Block) /\ Pre(conf, c)
  BY <1>1, TipType DEF Chains, Chained, Best
<1>3. c = conf
  <2>1. CASE c = <<>>
    <3>1. Len(c) <= Len(conf)  BY <1>2, <2>1
    <3> QED  BY <1>2, <3>1, SameChain
  <2>2. CASE c # <<>>
    BY <2>2 DEF Tips, Settled
  <2> QED  BY <2>1, <2>2
<1> QED  BY <1>1, <1>3 DEF Chained

\* Of a taker that has all the metadata, the newest intent is the last one.
LEMMA NewestLast ==
  ASSUME NEW chain, NEW raw \in SUBSET Intents(chain)
  PROVE  Newest(chain, raw, Intents(chain)) = {i \in raw : \A j \in raw : j <= i}
<1>1. Intents(chain) \subseteq Int
  BY DEF Intents
<1>2. \A i \in raw : Height(i, Intents(chain)) = i
  BY DEF Height
<1> QED  BY <1>1, <1>2 DEF Newest

\* In a calm account a taker's book is the maker's state file, for any epoch
\* length and age limit, if no taker's clock is more than an epoch behind the
\* maker's.
THEOREM BookIsTrue ==
  ASSUME \A t \in Clocks : Skew <= t + Epoch
  PROVE  Spec => []BookTrue
<1>1. TypeInv /\ CalmInv => BookTrue
  <2> SUFFICES ASSUME TypeInv, CalmInv, windows = {}, Settled,
                      NEW i \in Intents(conf), NEW t \in Clocks
               PROVE  LET shown == i \in Live(conf, now + t, {}, Intents(conf))
                      IN /\ shown => conf[i].id = rests
                         /\ /\ conf[i].id = rests /\ ~Expired(conf, i, now + t)
                            /\ now + t - conf[i].made \in -Epoch .. Epoch
                            => shown
    BY Zenon DEF BookTrue
  <2>0. /\ now \in Nat /\ t \in Nat /\ Skew \in Nat /\ Epoch \in Nat \ {0} /\ Skew <= t + Epoch
        /\ now + t \in Nat
    BY Numbers, BeaconAssumption DEF TypeInv, Pubs
  <2>1. Ordered(conf) /\ Reflects(conf)
    BY SettledChain DEF TypeInv
  <2>2. \A j \in Intents(conf) : j \in Int /\ conf[j].made \in Nat
    <3>1. conf \in Seq(Block)  BY DEF TypeInv, Chains
    <3>2. \A j \in Intents(conf) : j \in Int /\ conf[j] \in Entries  BY <3>1 DEF Intents, Block
    <3> QED  BY <3>2, Numbers DEF Entries
  <2> DEFINE raw == Scanned(conf, now + t, {})
             E(j) == EpochOf(conf[j].made)
             here == EpochOf(now + t)
  <2>3. here \in Nat /\ \A j \in Intents(conf) : E(j) \in Nat
    BY <2>0, <2>2, EpochNat
  <2>4. \A j \in Intents(conf) : E(j) <= here + 1
    <3> SUFFICES ASSUME NEW j \in Intents(conf) PROVE E(j) <= here + 1
      OBVIOUS
    <3>1. conf[j].made <= now + Skew  BY <2>1 DEF Ordered
    <3>2. conf[j].made <= now + t + Epoch  BY <2>0, <2>2, <3>1
    <3> QED  BY <2>0, <2>2, <3>2, EpochNear
  <2>5. raw = {j \in Intents(conf) : here - 1 <= E(j)}
    <3>1. raw = {j \in Intents(conf) : E(j) \in here - 1 .. here + 1}
      BY DEF Scanned, Namespace, Window
    <3> HIDE DEF raw, E, here
    <3> QED  BY <2>3, <2>4, <3>1
  <2>6. i \in Live(conf, now + t, {}, Intents(conf))
          <=> /\ i \in raw /\ \A j \in raw : j <= i
              /\ conf[i].k = "offer" /\ ~Expired(conf, i, now + t)
    <3>1. Newest(conf, raw, Intents(conf)) = {k \in raw : \A j \in raw : j <= k}
      BY <2>5, NewestLast
    <3> HIDE DEF E, here
    <3> QED  BY <3>1 DEF Live
  <2>7. ASSUME i \in raw, \A j \in raw : j <= i
        PROVE  \A j \in Intents(conf) : j <= i
    <3> SUFFICES ASSUME NEW j \in Intents(conf), ~(j <= i) PROVE FALSE
      OBVIOUS
    <3>1. conf[i].made <= conf[j].made  BY <2>1, <2>2 DEF Ordered
    <3>2. E(i) <= E(j)  BY <2>2, <3>1, EpochOrder
    <3> HIDE DEF raw, E, here
    <3>3. j \in raw  BY <2>3, <2>5, <2>7, <3>2
    <3> QED  BY <2>7, <3>3
  <2>8. ASSUME i \in Live(conf, now + t, {}, Intents(conf))
        PROVE  conf[i].id = rests
    <3> HIDE DEF raw, E, here
    <3> QED  BY <2>1, <2>6, <2>7, <2>8 DEF Reflects
  <2>9. ASSUME conf[i].id = rests, ~Expired(conf, i, now + t),
               now + t - conf[i].made \in -Epoch .. Epoch
        PROVE  i \in Live(conf, now + t, {}, Intents(conf))
    <3>1. now + t <= conf[i].made + Epoch  BY <2>0, <2>2, <2>9
    <3>2. here <= E(i) + 1  BY <2>0, <2>2, <3>1, EpochNear
    <3> HIDE DEF raw, E, here
    <3>3. i \in raw /\ raw \subseteq Intents(conf)  BY <2>3, <2>5, <3>2
    <3>4. conf[i].k = "offer" /\ \A j \in Intents(conf) : j <= i  BY <2>1, <2>9 DEF Reflects
    <3> QED  BY <2>6, <2>9, <3>3, <3>4
  <2> QED  BY <2>8, <2>9
<1> QED  BY <1>1, TypeInvariant, CalmInit, CalmStep, PTL DEF Spec
=============================================================================
