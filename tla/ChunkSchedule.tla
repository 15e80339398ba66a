--------------------------- MODULE ChunkSchedule ---------------------------
(***************************************************************************)
(* Schedule::build of swap-engine (schedule.rs, and buildSchedule of       *)
(* web/swap_machine.js): the loop that splits a swap's total into chunks.  *)
(* One behaviour is one call; a step is one iteration.                     *)
(***************************************************************************)
EXTENDS Integers, Sequences

CONSTANT Args   \* the calls considered: records [total, min, max, count]

ASSUME ArgsAssumption ==
  Args \subseteq [total : Nat, min : Nat, max : Nat, count : Nat]

VARIABLES
  args,        \* the call
  chunks, remaining,
  result       \* "looping", "ok" or a ScheduleError

call == <<args, chunks, remaining, result>>

Result == {"looping", "ok", "ZeroTotal", "BadBounds", "TooManyChunks"}

BuildInit ==
  /\ args \in Args
  /\ chunks = <<>> /\ remaining = args.total
  /\ result = IF args.total = 0 THEN "ZeroTotal"
              ELSE IF args.max = 0 \/ args.min > args.max THEN "BadBounds"
              ELSE "looping"

\* An iteration: the loop's condition holds and there is room for n more chunks.
Iterate(n) == result = "looping" /\ remaining > 0 /\ Len(chunks) + n <= args.count

Push(s) == chunks' = chunks \o s

LastChunk ==
  /\ Iterate(1) /\ remaining <= args.max
  /\ Push(<<remaining>>) /\ remaining' = 0
  /\ UNCHANGED <<args, result>>

\* Mutants of SplitTail: the tail stays in one chunk; a piece is lost.
FoldTail ==
  /\ Iterate(1) /\ remaining > args.max /\ remaining - args.max < args.min
  /\ Push(<<remaining>>) /\ remaining' = 0
  /\ UNCHANGED <<args, result>>
SplitTailHalves ==
  /\ Iterate(2) /\ remaining > args.max /\ remaining - args.max < args.min
  /\ Push(<<remaining \div 2, remaining \div 2>>) /\ remaining' = 0
  /\ UNCHANGED <<args, result>>

\* The tail would be below min: two balanced chunks, if there is room for both.
SplitTail ==
  /\ Iterate(2) /\ remaining > args.max /\ remaining - args.max < args.min
  /\ Push(<<remaining \div 2, remaining - remaining \div 2>>) /\ remaining' = 0
  /\ UNCHANGED <<args, result>>

\* A full chunk and more to come.
FullChunk ==
  /\ Iterate(1) /\ remaining > args.max /\ remaining - args.max >= args.min
  /\ Push(<<args.max>>) /\ remaining' = remaining - args.max
  /\ UNCHANGED <<args, result>>

\* Mutant of TooManyChunks: the split's room is checked as for a full chunk.
TooManyChunksEarly ==
  /\ result = "looping" /\ remaining > 0
  /\ Len(chunks) + 1 >= args.count
  /\ result' = "TooManyChunks"
  /\ UNCHANGED <<args, chunks, remaining>>

TooManyChunks ==
  /\ result = "looping" /\ remaining > 0
  /\ \/ Len(chunks) >= args.count
     \/ /\ remaining > args.max /\ remaining - args.max < args.min
        /\ Len(chunks) + 2 > args.count
  /\ result' = "TooManyChunks"
  /\ UNCHANGED <<args, chunks, remaining>>

Done ==
  /\ result = "looping" /\ remaining = 0
  /\ result' = "ok"
  /\ UNCHANGED <<args, chunks, remaining>>

\* The call has returned; a call that is stuck in its loop is a deadlock.
Returned == result # "looping" /\ UNCHANGED call

BuildNext == LastChunk \/ SplitTail \/ FullChunk \/ TooManyChunks \/ Done \/ Returned

BuildSpec == BuildInit /\ [][BuildNext]_call

-----------------------------------------------------------------------------
(* Properties *)

BuildTypeOK ==
  /\ args \in Args /\ chunks \in Seq(Nat) /\ remaining \in Nat /\ result \in Result

\* No chunk is zero or above the operator's cap, and there are at most
\* max_chunks of them.
Capped ==
  /\ \A i \in DOMAIN chunks : chunks[i] \in 1..args.max
  /\ Len(chunks) <= args.count

\* ScheduleError::TooManyChunks: "The chunk count would exceed max_chunks even
\* at max_chunk size", and only then.
Refusal ==
  /\ result = "TooManyChunks" => args.total > args.count * args.max
  /\ result = "ok" => args.total <= args.count * args.max

\* "sums exactly to the swap total"
Total == LET sum[i \in 0..Len(chunks)] == IF i = 0 THEN 0 ELSE sum[i - 1] + chunks[i]
         IN sum[Len(chunks)] + remaining = args.total
=============================================================================
