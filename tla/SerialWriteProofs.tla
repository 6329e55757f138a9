------------------------- MODULE SerialWriteProofs -------------------------
(***************************************************************************)
(* The properties of SerialWrite proved for all packets, all logs whose    *)
(* parts fit a chunk, every limit on retries and any number of faults.     *)
(* First comes what calling, going on, logging and returning make of the   *)
(* stack, then the invariant, step by step.                                *)
(***************************************************************************)
EXTENDS SerialWrite, SequenceTheorems, TLAPS

\* What is true of every writer that runs or waits: the bytes that are on the
\* line in their order are those of the finished chunks, at least what fwrite
\* took of the present one, and at most all of it.
Sound(w) ==
  /\ w \in Writers
  /\ w.todo # <<>>
  /\ w.size = w.pos + w.left
  /\ w.part <= Chunk(w)
  /\ w.pos + w.part <= w.sent
  /\ w.sent <= w.pos + Chunk(w)
  /\ w.pc \in {"written", "next"} => w.left = 0

\* A log record is written in calls of a chunk at most.
Small(w) ==
  /\ w.left <= ChunkSize
  /\ \A k \in DOMAIN w.todo : w.todo[k] <= ChunkSize

\* Only the outermost call may be other than a log record's.
SoundStack(s) ==
  /\ s \in Seq(Writers)
  /\ \A i \in 1 .. Len(s) : Sound(s[i])
  /\ \A i \in 2 .. Len(s) : Small(s[i])

\* One for a call whose failure is not yet followed by its log.
Debt(w) == IF w.pc \in {"failed", "again"} THEN 1 ELSE 0
Owed == IF stack = <<>> THEN 0 ELSE Debt(Last(stack))

\* Two logs can be had from an overflow, one as long as it lasts.
Spare == IF overflow THEN 1 ELSE 2

\* Every call that waits for its log has met a fault or is one of the two.
Paid == Len(stack) + Owed <= 1 + faults + Spare

\* An overflow is the outermost call's, which has yet to recover from it.
OverflowAtTheBottom ==
  overflow => stack # <<>> /\ stack[1].pc = "overflowed"

IInv ==
  /\ SoundStack(stack)
  /\ overflow \in BOOLEAN
  /\ faults \in 0 .. MaxFaults
  /\ returned \in [ok : BOOLEAN, whole : BOOLEAN]
  /\ SuccessMeansSent
  /\ Paid
  /\ OverflowAtTheBottom
-----------------------------------------------------------------------------
(* Calls, logs and returns                                                 *)

\* A call has written nothing when it is made.
LEMMA CallsAreSound ==
  ASSUME NEW m \in Seq(Nat \ {0}), m # <<>>
  PROVE  Sound(Writer(m))
<1>1. Head(m) \in Nat \ {0}
  BY HeadTailProperties
<1>2. Writer(m) \in Writers
  BY <1>1, BoundsAssumption DEF Writer, Writers, Places
<1> QED BY <1>1, <1>2, BoundsAssumption DEF Sound, Writer, Chunk

LEMMA LogsAreSound ==
  Sound(Writer(LogWrites)) /\ Small(Writer(LogWrites))
<1>1. /\ LogWrites \in Seq(Nat \ {0})
      /\ \A k \in 1 .. Len(LogWrites) : LogWrites[k] \in 1 .. ChunkSize
      /\ DOMAIN LogWrites = 1 .. Len(LogWrites)
      /\ Len(LogWrites) \in Nat \ {0}
  BY WritesAssumption, BoundsAssumption
<1>2. Head(LogWrites) = LogWrites[1]
  BY <1>1
<1> QED BY <1>1, <1>2, CallsAreSound, WritesAssumption, BoundsAssumption
        DEF Small, Writer

\* What is below the innermost call.
LEMMA FrontOf ==
  ASSUME NEW s, SoundStack(s), s # <<>>
  PROVE  /\ Front(s) \in Seq(Writers)
         /\ Len(s) \in Nat \ {0}
         /\ Len(Front(s)) = Len(s) - 1
         /\ \A i \in 1 .. Len(s) - 1 : Front(s)[i] = s[i]
         /\ Last(s) = s[Len(s)]
         /\ Sound(Last(s))
         /\ Len(s) > 1 => Small(Last(s))
<1>1. s \in Seq(Writers) /\ Len(s) \in Nat \ {0}
  BY EmptySeq DEF SoundStack
<1>2. \A i \in 1 .. Len(s) - 1 : s[i] \in Writers
  BY <1>1
<1>3. Front(s) = SubSeq(s, 1, Len(s) - 1)
  BY DEF Front
<1>4. /\ Front(s) \in Seq(Writers)
      /\ Len(Front(s)) = Len(s) - 1
      /\ \A i \in 1 .. Len(s) - 1 : Front(s)[i] = s[i]
  <2> DEFINE n == Len(s) - 1
  <2>1. n \in Nat /\ 1 \in Int /\ n \in Int
    BY <1>1
  <2>2. \A i \in 1 .. n : s[i] \in Writers
    BY <1>2
  <2> HIDE DEF n
  <2>3. /\ SubSeq(s, 1, n) \in Seq(Writers)
        /\ Len(SubSeq(s, 1, n)) = IF 1 <= n THEN n - 1 + 1 ELSE 0
        /\ \A i \in 1 .. n - 1 + 1 : SubSeq(s, 1, n)[i] = s[1 + i - 1]
    BY <2>1, <2>2
  <2>4. /\ Len(SubSeq(s, 1, n)) = n
        /\ \A i \in 1 .. n : SubSeq(s, 1, n)[i] = s[i]
    BY <2>1, <2>3
  <2> QED BY <1>3, <2>3, <2>4 DEF n
<1> QED BY <1>1, <1>4 DEF SoundStack, Last

\* What the stack is when the innermost call has become w.
LEMMA Replaced ==
  ASSUME NEW s, SoundStack(s), s # <<>>,
         NEW w, Sound(w), Small(Last(s)) => Small(w)
  PROVE  LET t == Append(Front(s), w)
         IN /\ SoundStack(t) /\ t # <<>>
            /\ Len(t) = Len(s)
            /\ Last(t) = w
            /\ Len(s) = 1 => t[1] = w
            /\ Len(s) > 1 => t[1] = s[1]
<1> DEFINE t == Append(Front(s), w)
<1>0. w \in Writers
  BY DEF Sound
<1>1. /\ t \in Seq(Writers) /\ t # <<>> /\ Len(t) = Len(s)
      /\ \A i \in 1 .. Len(s) - 1 : t[i] = s[i]
      /\ t[Len(s)] = w
  BY <1>0, FrontOf, AppendProperties
<1> HIDE DEF t
<1>2. Len(s) \in Nat \ {0} /\ (Len(s) > 1 => Small(w))
  BY FrontOf
<1>3. \A i \in 1 .. Len(t) : Sound(t[i])
  BY <1>1, <1>2 DEF SoundStack
<1>4. \A i \in 2 .. Len(t) : Small(t[i])
  BY <1>1, <1>2 DEF SoundStack
<1>5. SoundStack(t)
  BY <1>1, <1>3, <1>4 DEF SoundStack
<1>6. Last(t) = w
  BY <1>1 DEF Last
<1> QED BY <1>1, <1>2, <1>5, <1>6 DEF t

\* What it is when a log is sent on top of w.
LEMMA Pushed ==
  ASSUME NEW s, SoundStack(s), s # <<>>,
         NEW w, Sound(w), Small(Last(s)) => Small(w)
  PROVE  LET t == Front(s) \o <<w, Writer(LogWrites)>>
         IN /\ SoundStack(t) /\ t # <<>>
            /\ Len(t) = Len(s) + 1
            /\ Last(t) = Writer(LogWrites)
            /\ Len(s) = 1 => t[1] = w
            /\ Len(s) > 1 => t[1] = s[1]
<1> DEFINE v == Writer(LogWrites)
           t == Front(s) \o <<w, v>>
<1>0. w \in Writers /\ v \in Writers /\ Sound(v) /\ Small(v)
  BY LogsAreSound DEF Sound
<1> HIDE DEF v
<1>1. /\ <<w, v>> \in Seq(Writers) /\ Len(<<w, v>>) = 2
      /\ <<w, v>>[1] = w /\ <<w, v>>[2] = v
  BY <1>0
<1>2. /\ t \in Seq(Writers) /\ Len(t) = Len(s) + 1
      /\ \A i \in 1 .. Len(s) - 1 : t[i] = s[i]
      /\ t[Len(s)] = w /\ t[Len(s) + 1] = v
  BY <1>1, FrontOf, ConcatProperties
<1> HIDE DEF t
<1>3. Len(s) \in Nat \ {0} /\ (Len(s) > 1 => Small(w))
  BY FrontOf
<1>4. \A i \in 1 .. Len(t) : Sound(t[i])
  BY <1>0, <1>2, <1>3 DEF SoundStack
<1>5. \A i \in 2 .. Len(t) : Small(t[i])
  BY <1>0, <1>2, <1>3 DEF SoundStack
<1>6. SoundStack(t) /\ t # <<>>
  BY <1>2, <1>3, <1>4, <1>5, EmptySeq DEF SoundStack
<1>7. Last(t) = v
  BY <1>2 DEF Last
<1>8. /\ SoundStack(t) /\ t # <<>> /\ Len(t) = Len(s) + 1
      /\ Last(t) = v
      /\ Len(s) = 1 => t[1] = w
      /\ Len(s) > 1 => t[1] = s[1]
  <2>1. Len(s) = 1 => t[1] = w
    BY <1>2
  <2>2. Len(s) > 1 => t[1] = s[1]
    BY <1>2, <1>3
  <2> QED BY <1>2, <1>6, <1>7, <2>1, <2>2, Zenon
<1>9. t = Front(s) \o <<w, v>> /\ v = Writer(LogWrites)
  BY DEF t, v
<1> QED BY <1>8, <1>9, Zenon

\* What it is when the innermost call has returned.
LEMMA Popped ==
  ASSUME NEW s, SoundStack(s), s # <<>>
  PROVE  LET t == Front(s)
         IN /\ SoundStack(t)
            /\ Len(t) = Len(s) - 1
            /\ Len(s) > 1 => t # <<>> /\ t[1] = s[1]
<1>1. Len(s) > 1 => Front(s) # <<>>
  BY FrontOf, EmptySeq
<1> QED BY <1>1, FrontOf DEF SoundStack

-----------------------------------------------------------------------------
(* What going on, logging and returning make of the invariant              *)

\* The variables a writer's step leaves typed and the answer it leaves alone.
Quiet ==
  /\ overflow' \in BOOLEAN
  /\ faults' \in 0 .. MaxFaults
  /\ UNCHANGED returned

\* An overflow that lasts is still that of the outermost call.
StaysAtTheBottom(w) ==
  overflow' => IF Len(stack) = 1 THEN w.pc = "overflowed" ELSE overflow

LEMMA Continued ==
  ASSUME IInv, stack # <<>>, Quiet,
         NEW w, Sound(w), Small(Last(stack)) => Small(w), Continue(w),
         Len(stack) + Debt(w) <= 1 + faults' + Spare', StaysAtTheBottom(w)
  PROVE  IInv'
<1>1. /\ SoundStack(stack') /\ stack' # <<>>
      /\ Len(stack') = Len(stack) /\ Last(stack') = w
      /\ Len(stack) = 1 => stack'[1] = w
      /\ Len(stack) > 1 => stack'[1] = stack[1]
      /\ Len(stack) \in Nat \ {0}
  BY Replaced, FrontOf DEF IInv, Continue
<1>2. Owed' = Debt(w)
  BY <1>1 DEF Owed
<1>3. Paid'
  BY <1>1, <1>2 DEF Paid
<1>4. OverflowAtTheBottom'
  BY <1>1 DEF IInv, OverflowAtTheBottom, StaysAtTheBottom
<1>5. SuccessMeansSent'
  BY DEF IInv, SuccessMeansSent, Quiet
<1> QED BY <1>1, <1>3, <1>4, <1>5 DEF IInv, Quiet

LEMMA Logged ==
  ASSUME IInv, stack # <<>>, Quiet,
         NEW w, Sound(w), Small(Last(stack)) => Small(w), Log(w),
         Len(stack) + 1 <= 1 + faults' + Spare', StaysAtTheBottom(w)
  PROVE  IInv'
<1>1. CASE Continue(w)
  <2>1. Len(stack) + Debt(w) <= 1 + faults' + Spare'
    <3>1. Len(stack) \in Nat /\ Debt(w) \in {0, 1}
      BY FrontOf DEF IInv, Debt
    <3>2. faults' \in Nat /\ Spare' \in {1, 2}
      BY DEF Quiet, Spare
    <3> QED BY <3>1, <3>2
  <2> QED BY <1>1, <2>1, Continued
<1>2. CASE stack' = Front(stack) \o <<w, Writer(LogWrites)>>
  <2>1. /\ SoundStack(stack') /\ stack' # <<>>
        /\ Len(stack') = Len(stack) + 1 /\ Last(stack') = Writer(LogWrites)
        /\ Len(stack) = 1 => stack'[1] = w
        /\ Len(stack) > 1 => stack'[1] = stack[1]
    BY <1>2, Pushed DEF IInv
  <2>0. Len(stack) \in Nat \ {0}
    BY FrontOf DEF IInv
  <2>2. Owed' = 0
    BY <2>1 DEF Owed, Debt, Writer
  <2>3. Paid'
    BY <2>0, <2>1, <2>2 DEF Paid
  <2>4. OverflowAtTheBottom'
    <3>1. CASE Len(stack) = 1
      BY <2>1, <3>1 DEF OverflowAtTheBottom, StaysAtTheBottom
    <3>2. CASE Len(stack) > 1
      BY <2>1, <3>2 DEF IInv, OverflowAtTheBottom, StaysAtTheBottom
    <3>3. \A n \in Nat \ {0} : n = 1 \/ n > 1
      OBVIOUS
    <3> QED BY <2>0, <3>1, <3>2, <3>3, Zenon
  <2>5. SuccessMeansSent'
    BY DEF IInv, SuccessMeansSent, Quiet
  <2> QED BY <2>1, <2>3, <2>4, <2>5 DEF IInv, Quiet
<1> QED BY <1>1, <1>2 DEF Log

LEMMA Returned ==
  ASSUME IInv, stack # <<>>, NEW ok \in BOOLEAN, Return(ok),
         UNCHANGED <<overflow, faults>>,
         ok => Whole(Last(stack)), Last(stack).pc # "overflowed"
  PROVE  IInv'
<1>1. /\ SoundStack(stack') /\ Len(stack') = Len(stack) - 1
      /\ Len(stack) > 1 => stack' # <<>> /\ stack'[1] = stack[1]
      /\ Len(stack) \in Nat \ {0}
      /\ Last(stack) = stack[Len(stack)]
  BY Popped, FrontOf DEF IInv, Return
<1>2. Owed' \in {0, 1} /\ Owed \in {0, 1} /\ Spare' = Spare /\ Spare \in {1, 2}
  BY DEF Owed, Debt, Spare
<1>3. Paid'
  BY <1>1, <1>2 DEF Paid, IInv
<1>4. OverflowAtTheBottom'
  <2>1. overflow => Len(stack) > 1
    BY <1>1 DEF IInv, OverflowAtTheBottom
  <2> QED BY <1>1, <2>1 DEF IInv, OverflowAtTheBottom
<1>5. /\ returned' = [ok |-> ok, whole |-> Whole(Last(stack))]
      /\ Whole(Last(stack)) \in BOOLEAN
  BY DEF Return, Whole
<1>6. returned' \in [ok : BOOLEAN, whole : BOOLEAN] /\ SuccessMeansSent'
  BY <1>5 DEF SuccessMeansSent
<1> QED BY <1>1, <1>3, <1>4, <1>6 DEF IInv

\* Anywhere but in the recovery from it, an overflow is that of a call below.
LEMMA OverflowBelow ==
  ASSUME IInv, stack # <<>>, overflow, Last(stack).pc # "overflowed"
  PROVE  Len(stack) > 1
<1>1. Len(stack) \in Nat \ {0} /\ Last(stack) = stack[Len(stack)]
  BY FrontOf DEF IInv
<1> QED BY <1>1 DEF IInv, OverflowAtTheBottom

\* Where a call stands does not matter to its bytes, until they are written.
LEMMA Moved ==
  ASSUME NEW w, Sound(w), NEW place \in Places \ {"written", "next"}
  PROVE  LET v == [w EXCEPT !.pc = place]
         IN Sound(v) /\ v.pc = place /\ (Small(w) => Small(v))
<1> DEFINE v == [w EXCEPT !.pc = place]
<1>1. /\ v \in Writers /\ v.todo = w.todo /\ v.left = w.left
      /\ v.part = w.part /\ v.pos = w.pos /\ v.sent = w.sent
      /\ v.size = w.size /\ v.pc = place
  BY DEF Sound, Writers
<1> HIDE DEF v
<1>2. Sound(v) /\ (Small(w) => Small(v))
  BY <1>1 DEF Sound, Small, Chunk
<1> QED BY <1>1, <1>2 DEF v

-----------------------------------------------------------------------------
(* What the steps make of a writer                                         *)

LEMMA WriterType ==
  ASSUME NEW m \in Seq(Nat \ {0}), NEW l \in Nat, NEW p \in Nat, NEW o \in Nat,
         NEW t \in Nat, NEW z \in Nat, NEW r \in 0 .. MaxRetries - 1,
         NEW c \in Places
  PROVE  [todo |-> m, left |-> l, part |-> p, pos |-> o, sent |-> t, size |-> z,
          retry |-> r, pc |-> c] \in Writers
BY DEF Writers

\* The writer when fwrite has taken n more bytes: the chunk is finished, or not.
Finished(w, n) ==
  [todo |-> w.todo, left |-> w.left - Chunk(w), part |-> 0,
   pos |-> w.pos + Chunk(w), sent |-> Sent(w, n), size |-> w.size,
   retry |-> 0, pc |-> IF w.left = Chunk(w) THEN "written" ELSE "write"]
Unfinished(w, n) ==
  [todo |-> w.todo, left |-> w.left, part |-> w.part + n, pos |-> w.pos,
   sent |-> Sent(w, n), size |-> w.size, retry |-> w.retry, pc |-> "write"]

LEMMA FinishedRecord ==
  ASSUME NEW w \in Writers, NEW n,
         NEW v, v = [w EXCEPT !.part = 0, !.pos = @ + Chunk(w),
                              !.left = @ - Chunk(w), !.retry = 0,
                              !.sent = Sent(w, n),
                              !.pc = IF w.left = Chunk(w) THEN "written"
                                                          ELSE "write"]
  PROVE  v = Finished(w, n)
BY DEF Finished, Writers

LEMMA UnfinishedRecord ==
  ASSUME NEW w \in Writers, w.pc = "write", NEW n,
         NEW v, v = [w EXCEPT !.part = @ + n, !.sent = Sent(w, n)]
  PROVE  v = Unfinished(w, n)
BY DEF Unfinished, Writers

LEMMA ChunkFacts ==
  ASSUME NEW w, Sound(w)
  PROVE  /\ w \in Writers /\ w.todo \in Seq(Nat \ {0}) /\ w.todo # <<>>
         /\ w.left \in Nat /\ w.part \in Nat /\ w.pos \in Nat
         /\ w.sent \in Nat /\ w.size \in Nat /\ w.size = w.pos + w.left
         /\ w.retry \in 0 .. MaxRetries - 1
         /\ w.part <= Chunk(w)
         /\ w.pos + w.part <= w.sent /\ w.sent <= w.pos + Chunk(w)
         /\ Chunk(w) \in Nat /\ Chunk(w) <= w.left
         /\ w.left # Chunk(w) => w.left > ChunkSize /\ Chunk(w) = ChunkSize
<1>1. w.left \in Nat
  BY DEF Sound, Writers
<1>2. /\ Chunk(w) \in Nat /\ Chunk(w) <= w.left
      /\ w.left # Chunk(w) => w.left > ChunkSize /\ Chunk(w) = ChunkSize
  BY <1>1, BoundsAssumption DEF Chunk
<1> QED BY <1>2 DEF Sound, Writers

LEMMA SentFacts ==
  ASSUME NEW w, Sound(w), NEW n \in 1 .. ChunkSize, w.part + n <= Chunk(w)
  PROVE  /\ Sent(w, n) \in Nat
         /\ w.pos + w.part + n <= Sent(w, n)
         /\ Sent(w, n) <= w.pos + Chunk(w)
BY ChunkFacts, BoundsAssumption DEF Sent

LEMMA FinishedSound ==
  ASSUME NEW w, Sound(w), NEW n \in 1 .. ChunkSize, w.part + n <= Chunk(w),
         Finishes(w, n), NEW v, v = Finished(w, n)
  PROVE  /\ Sound(v) /\ v.pc \in {"written", "write"}
         /\ Small(w) => Small(v)
<1>1. /\ v.todo = w.todo /\ v.size = w.size /\ v.retry = 0
      /\ v.part = 0 /\ v.pos = w.pos + Chunk(w) /\ v.sent = Sent(w, n)
      /\ v.left = w.left - Chunk(w)
      /\ v.pc = IF w.left = Chunk(w) THEN "written" ELSE "write"
  BY DEF Finished
<1>2. v \in Writers
  <2>1. w.left - Chunk(w) \in Nat /\ w.pos + Chunk(w) \in Nat
    BY ChunkFacts
  <2>2. 0 \in 0 .. MaxRetries - 1 /\ 0 \in Nat
    BY BoundsAssumption
  <2>3. (IF w.left = Chunk(w) THEN "written" ELSE "write") \in Places
    BY DEF Places
  <2> QED
    BY <2>1, <2>2, <2>3, WriterType, ChunkFacts, SentFacts, Zenon DEF Finished
<1>3. v.sent = v.pos
  <2>1. w.part + n = Chunk(w)
    BY DEF Finishes
  <2>2. w.pos + w.part + n = w.pos + Chunk(w)
    BY <2>1, ChunkFacts
  <2>3. Sent(w, n) = w.pos + Chunk(w)
    <3>1. /\ Sent(w, n) \in Nat /\ w.pos + Chunk(w) \in Nat
          /\ w.pos + Chunk(w) <= Sent(w, n) /\ Sent(w, n) <= w.pos + Chunk(w)
      BY <2>2, ChunkFacts, SentFacts
    <3> QED BY <3>1
  <2> QED BY <1>1, <2>3
<1>4. v.left \in Nat /\ Chunk(v) \in Nat /\ v.left <= w.left
  BY <1>1, ChunkFacts, BoundsAssumption DEF Chunk
<1>5. v.size = v.pos + v.left
  BY <1>1, ChunkFacts
<1>6. Sound(v)
  BY <1>1, <1>2, <1>3, <1>4, <1>5, ChunkFacts DEF Sound
<1>7. Small(w) => Small(v)
  BY <1>1, <1>4, ChunkFacts, BoundsAssumption DEF Small
<1> QED BY <1>1, <1>6, <1>7

LEMMA UnfinishedSound ==
  ASSUME NEW w, Sound(w), NEW n \in 1 .. ChunkSize, w.part + n <= Chunk(w),
         NEW v, v = Unfinished(w, n)
  PROVE  /\ Sound(v) /\ v.pc = "write"
         /\ Small(w) => Small(v)
<1>1. /\ v.todo = w.todo /\ v.size = w.size /\ v.retry = w.retry
      /\ v.part = w.part + n /\ v.pos = w.pos /\ v.sent = Sent(w, n)
      /\ v.left = w.left /\ v.pc = "write"
  BY DEF Unfinished
<1>2. v \in Writers
  <2>1. w.part + n \in Nat /\ "write" \in Places
    BY ChunkFacts, BoundsAssumption DEF Places
  <2> QED BY <2>1, WriterType, ChunkFacts, SentFacts, Zenon DEF Unfinished
<1>3. Chunk(v) = Chunk(w)
  BY <1>1 DEF Chunk
<1>4. Sound(v)
  BY <1>1, <1>2, <1>3, ChunkFacts, SentFacts DEF Sound
<1> QED BY <1>1, <1>4 DEF Small

\* The chunk is to be written again: what is on the line stays there.
LEMMA RetriedSound ==
  ASSUME NEW w, Sound(w), w.retry + 1 < MaxRetries,
         NEW v, v = [w EXCEPT !.retry = @ + 1, !.part = 0, !.pc = "again"]
  PROVE  Sound(v) /\ v.pc = "again" /\ (Small(w) => Small(v))
<1>1. /\ w.left \in Nat /\ w.part \in Nat /\ w.pos \in Nat /\ w.sent \in Nat
      /\ w.retry \in Nat
  BY BoundsAssumption DEF Sound, Writers
<1>2. /\ v \in Writers /\ v.todo = w.todo /\ v.left = w.left
      /\ v.part = 0 /\ v.pos = w.pos /\ v.sent = w.sent
      /\ v.size = w.size /\ v.pc = "again"
  <2>1. v = [todo |-> w.todo, left |-> w.left, part |-> 0, pos |-> w.pos,
             sent |-> w.sent, size |-> w.size, retry |-> w.retry + 1,
             pc |-> "again"]
    BY DEF Sound, Writers
  <2>2. /\ w.retry + 1 \in 0 .. MaxRetries - 1 /\ w.size \in Nat
        /\ w.todo \in Seq(Nat \ {0})
    BY <1>1, BoundsAssumption DEF Sound, Writers
  <2> QED BY <1>1, <2>1, <2>2 DEF Writers, Places
<1> QED BY <1>1, <1>2, BoundsAssumption DEF Sound, Small, Chunk

\* The calls that are left when one is done.
LEMMA RestOf ==
  ASSUME NEW m \in Seq(Nat \ {0}), m # <<>>, Tail(m) # <<>>
  PROVE  /\ Tail(m) \in Seq(Nat \ {0})
         /\ Head(Tail(m)) \in Nat \ {0}
         /\ (\A k \in DOMAIN m : m[k] <= ChunkSize)
              => /\ \A k \in DOMAIN Tail(m) : Tail(m)[k] <= ChunkSize
                 /\ Head(Tail(m)) <= ChunkSize
<1> DEFINE rest == Tail(m)
<1>1. /\ rest \in Seq(Nat \ {0})
      /\ Len(rest) = Len(m) - 1
      /\ \A k \in 1 .. Len(rest) : rest[k] = m[k + 1]
  BY HeadTailProperties
<1>2. Len(rest) \in Nat \ {0} /\ Len(m) \in Nat
  BY <1>1, EmptySeq
<1>3. DOMAIN rest = 1 .. Len(rest) /\ DOMAIN m = 1 .. Len(m)
  BY <1>1, LenProperties
<1>4. Head(rest) = rest[1]
  BY <1>1
<1>5. rest[1] \in Nat \ {0}
  BY <1>1, <1>2, ElementOfSeq
<1> HIDE DEF rest
<1>6. ASSUME \A k \in DOMAIN m : m[k] <= ChunkSize
      PROVE  \A k \in 1 .. Len(rest) : rest[k] <= ChunkSize
  <2>1. ASSUME NEW k \in 1 .. Len(rest)  PROVE rest[k] <= ChunkSize
    <3>1. k + 1 \in DOMAIN m
      BY <1>1, <1>2, <1>3
    <3> QED BY <1>1, <1>6, <3>1
  <2> QED BY <2>1
<1>7. 1 \in 1 .. Len(rest)
  BY <1>2
<1> QED BY <1>1, <1>3, <1>4, <1>5, <1>6, <1>7 DEF rest

\* The writer when the next call is made.
Advanced(w) ==
  [todo |-> Tail(w.todo), left |-> Head(Tail(w.todo)), part |-> w.part,
   pos |-> w.pos, sent |-> w.sent, size |-> w.size + Head(Tail(w.todo)),
   retry |-> 0, pc |-> "check"]

LEMMA AdvancedRecord ==
  ASSUME NEW w \in Writers,
         NEW v, v = [w EXCEPT !.todo = Tail(w.todo),
                              !.left = Head(Tail(w.todo)),
                              !.size = @ + Head(Tail(w.todo)), !.retry = 0,
                              !.pc = "check"]
  PROVE  v = Advanced(w)
BY DEF Advanced, Writers

\* The next part of the packet is written after all of the last one.
LEMMA AdvancedSound ==
  ASSUME NEW w, Sound(w), w.pc = "next", Tail(w.todo) # <<>>,
         NEW v, v = Advanced(w)
  PROVE  Sound(v) /\ v.pc = "check" /\ (Small(w) => Small(v))
<1> DEFINE rest == Tail(w.todo)
           first == Head(rest)
<1>1. /\ v.todo = rest /\ v.left = first /\ v.part = w.part
      /\ v.pos = w.pos /\ v.sent = w.sent /\ v.size = w.size + first
      /\ v.pc = "check"
  BY DEF Advanced
<1>2. w.left = 0
  BY DEF Sound
<1>3. w.part = 0 /\ w.sent = w.pos /\ w.size = w.pos
  BY <1>2, ChunkFacts
<1>4. rest \in Seq(Nat \ {0}) /\ rest # <<>> /\ first \in Nat \ {0}
  BY ChunkFacts, RestOf
<1> HIDE DEF rest, first
<1>5. v \in Writers
  <2>1. 0 \in 0 .. MaxRetries - 1 /\ "check" \in Places
    BY BoundsAssumption DEF Places
  <2>2. w.size \in Nat
    BY ChunkFacts
  <2>3. first \in Nat /\ w.size + first \in Nat
    BY <1>4, <2>2
  <2> QED BY <1>4, <2>1, <2>3, WriterType, ChunkFacts, Zenon
          DEF Advanced, rest, first
<1>6. Sound(v)
  BY <1>1, <1>3, <1>4, <1>5, ChunkFacts, BoundsAssumption DEF Sound, Chunk
<1>7. Small(w) => Small(v)
  BY <1>1, ChunkFacts, RestOf DEF Small, rest, first
<1> QED BY <1>1, <1>6, <1>7

-----------------------------------------------------------------------------
(* The invariant                                                           *)

LEMMA InitIInv == Init => IInv
<1> SUFFICES ASSUME Init PROVE IInv
  OBVIOUS
<1>1. stack = <<>> /\ overflow = FALSE /\ faults = 0
  BY DEF Init
<1>2. Len(stack) = 0 /\ stack \in Seq(Writers)
  BY <1>1
<1>3. SoundStack(stack)
  BY <1>2 DEF SoundStack
<1>4. Paid
  BY <1>1, <1>2 DEF Paid, Owed, Spare
<1>5. returned \in [ok : BOOLEAN, whole : BOOLEAN] /\ SuccessMeansSent
  BY DEF Init, SuccessMeansSent
<1>6. OverflowAtTheBottom /\ overflow \in BOOLEAN
  BY <1>1, Zenon DEF OverflowAtTheBottom
<1>7. faults \in 0 .. MaxFaults
  BY <1>1, BoundsAssumption
<1> QED BY <1>3, <1>4, <1>5, <1>6, <1>7, Zenon DEF IInv

\* What the steps find: the innermost call and the numbers around it.
LEMMA Found ==
  ASSUME IInv, stack # <<>>
  PROVE  /\ Sound(Last(stack)) /\ Last(stack).pc \in Places
         /\ Len(stack) \in Nat \ {0}
         /\ overflow \in BOOLEAN /\ faults \in 0 .. MaxFaults
         /\ Len(stack) + Debt(Last(stack)) <= 1 + faults + Spare
         /\ Len(stack) <= 1 + faults + Spare
         /\ Len(stack) > 1 => Small(Last(stack))
         /\ overflow /\ Last(stack).pc # "overflowed" => Len(stack) > 1
<1>1. /\ Sound(Last(stack)) /\ Last(stack).pc \in Places
      /\ Len(stack) \in Nat \ {0}
      /\ overflow \in BOOLEAN /\ faults \in 0 .. MaxFaults
      /\ Len(stack) > 1 => Small(Last(stack))
  BY FrontOf DEF IInv, Sound, Writers
<1>2. Len(stack) + Debt(Last(stack)) <= 1 + faults + Spare
  BY DEF IInv, Paid, Owed
<1>3. Debt(Last(stack)) \in {0, 1} /\ Spare \in {1, 2}
  BY DEF Debt, Spare
<1>4. Len(stack) <= 1 + faults + Spare
  BY <1>1, <1>2, <1>3
<1> QED BY <1>1, <1>2, <1>4, OverflowBelow

LEMMA CallKeeps ==
  ASSUME IInv, NEW m \in Messages, Call(m)
  PROVE  IInv'
<1>1. /\ m \in Seq(Nat \ {0}) /\ m # <<>>
      /\ stack = <<>> /\ stack' = <<Writer(m)>> /\ faults' = 0
      /\ overflow' = overflow /\ returned' = returned
  BY WritesAssumption DEF Call
<1> DEFINE w == Writer(m)
<1>2. Sound(w) /\ w \in Writers /\ w.pc = "check"
  BY <1>1, CallsAreSound DEF Sound, Writer
<1>3. stack' = <<w>>
  BY <1>1
<1> HIDE DEF w
<1>4. /\ stack' \in Seq(Writers) /\ Len(stack') = 1 /\ stack'[1] = w
      /\ stack' # <<>>
  BY <1>2, <1>3
<1>5. SoundStack(stack')
  BY <1>2, <1>4 DEF SoundStack
<1>6. Last(stack') = w
  BY <1>4 DEF Last
<1>7. Owed' = 0
  BY <1>2, <1>6 DEF Owed, Debt
<1>8. ~overflow
  BY <1>1 DEF IInv, OverflowAtTheBottom
<1>9. Paid' /\ OverflowAtTheBottom' /\ SuccessMeansSent'
  BY <1>1, <1>4, <1>7, <1>8
     DEF Paid, Spare, OverflowAtTheBottom, SuccessMeansSent, IInv
<1> QED BY <1>1, <1>5, <1>9, BoundsAssumption DEF IInv

LEMMA CheckOverflowKeeps ==
  ASSUME IInv, CheckOverflow
  PROVE  IInv'
<1> DEFINE w == Last(stack)
<1>1. stack # <<>> /\ w.pc = "check" /\ UNCHANGED <<faults, returned>>
  BY DEF CheckOverflow, At
<1>2. CASE w.left > ChunkSize /\ ~overflow
  <2> DEFINE v == [w EXCEPT !.pc = "overflowed"]
  <2>1. overflow' = TRUE /\ Log(v)
    BY <1>2 DEF CheckOverflow
  <2>2. Sound(v) /\ v.pc = "overflowed" /\ (Small(w) => Small(v))
    BY <1>1, Found, Moved DEF Places
  <2>3. ~Small(w)
    BY <1>1, <1>2, Found, ChunkFacts, BoundsAssumption DEF Small
  <2>4. Len(stack) = 1
    <3>1. \A n \in Nat \ {0} : n = 1 \/ n > 1
      OBVIOUS
    <3> QED BY <1>1, <2>3, <3>1, Found, Zenon
  <2>5. Quiet /\ Spare' = 1 /\ faults' \in Nat
    BY <1>1, <2>1, Found DEF Quiet, Spare
  <2>6. Len(stack) + 1 <= 1 + faults' + Spare'
    <3>1. \A n \in Nat : 1 + 1 <= 1 + n + 1
      OBVIOUS
    <3> QED BY <2>4, <2>5, <3>1, Zenon
  <2>7. StaysAtTheBottom(v)
    BY <2>2, <2>4 DEF StaysAtTheBottom
  <2> HIDE DEF v, w
  <2> QED BY <1>1, <2>1, <2>2, <2>5, <2>6, <2>7, Logged DEF w
<1>3. CASE ~(w.left > ChunkSize /\ ~overflow)
  <2> DEFINE v == [w EXCEPT !.pc = "write"]
  <2>1. overflow' = overflow /\ Continue(v)
    BY <1>3 DEF CheckOverflow
  <2>2. Sound(v) /\ v.pc = "write" /\ (Small(w) => Small(v))
    BY <1>1, Found, Moved DEF Places
  <2>3. Quiet /\ Spare' = Spare /\ faults' = faults
    BY <1>1, <2>1, Found DEF Quiet, Spare
  <2>4. Debt(v) = 0 /\ Len(stack) + 0 <= 1 + faults + Spare
    BY <1>1, <2>2, Found DEF Debt
  <2>5. StaysAtTheBottom(v)
    <3>1. overflow' => overflow /\ Len(stack) > 1
      BY <1>1, <2>1, Found
    <3>2. \A n \in Nat \ {0} : n > 1 => n # 1
      OBVIOUS
    <3> QED BY <1>1, <3>1, <3>2, Found, Zenon DEF StaysAtTheBottom
  <2> HIDE DEF v, w
  <2> QED BY <1>1, <2>1, <2>2, <2>3, <2>4, <2>5, Continued DEF w
<1> QED BY <1>2, <1>3

\* An overflow that is still there is over after serial_flush, at the price of
\* a log; without one nothing happens.
LEMMA FlushKeeps ==
  ASSUME IInv, stack # <<>>, UNCHANGED <<faults, returned>>,
         NEW v, Sound(v), v.pc = "write", Small(Last(stack)) => Small(v),
         Flush(v)
  PROVE  IInv'
<1>1. CASE overflow
  <2>1. ~overflow' /\ Log(v) /\ overflow' \in BOOLEAN
    BY <1>1 DEF Flush
  <2>2. Quiet /\ faults' = faults /\ Spare' = 2 /\ Spare = 1
    BY <1>1, <2>1, Found DEF Quiet, Spare
  <2>3. Len(stack) + 1 <= 1 + faults' + Spare'
    BY <2>2, Found, BoundsAssumption
  <2>4. StaysAtTheBottom(v)
    BY <2>1 DEF StaysAtTheBottom
  <2> QED BY <2>1, <2>2, <2>3, <2>4, Logged
<1>2. CASE ~overflow
  <2>1. overflow' = overflow /\ Continue(v)
    BY <1>2 DEF Flush
  <2>2. Quiet /\ Spare' = Spare /\ faults' = faults
    BY <2>1, Found DEF Quiet, Spare
  <2>3. Debt(v) = 0 /\ Len(stack) + 0 <= 1 + faults + Spare
    BY Found DEF Debt
  <2>4. StaysAtTheBottom(v)
    BY <1>2, <2>1 DEF StaysAtTheBottom
  <2> QED BY <2>1, <2>2, <2>3, <2>4, Continued
<1> QED BY <1>1, <1>2, Found

LEMMA RecoverKeeps ==
  ASSUME IInv, RecoverFromOverflow
  PROVE  IInv'
<1>1. stack # <<>> /\ UNCHANGED <<faults, returned>>
  BY DEF RecoverFromOverflow, At
<1> DEFINE v == [Last(stack) EXCEPT !.pc = "write"]
<1>2. Flush(v)
  BY DEF RecoverFromOverflow
<1>3. Sound(v) /\ v.pc = "write" /\ (Small(Last(stack)) => Small(v))
  BY <1>1, Found, Moved DEF Places
<1> HIDE DEF v
<1> QED BY <1>1, <1>2, <1>3, FlushKeeps

LEMMA RetryKeeps ==
  ASSUME IInv, Retry
  PROVE  IInv'
<1>1. stack # <<>> /\ UNCHANGED <<faults, returned>>
  BY DEF Retry, At
<1> DEFINE v == [Last(stack) EXCEPT !.pc = "write"]
<1>2. Flush(v)
  BY DEF Retry
<1>3. Sound(v) /\ v.pc = "write" /\ (Small(Last(stack)) => Small(v))
  BY <1>1, Found, Moved DEF Places
<1> HIDE DEF v
<1> QED BY <1>1, <1>2, <1>3, FlushKeeps

\* A step of the innermost call that leaves the overflow and the faults alone
\* keeps the invariant if it makes no debt.
LEMMA QuietContinued ==
  ASSUME IInv, stack # <<>>, Last(stack).pc # "overflowed",
         UNCHANGED <<overflow, faults, returned>>,
         NEW v, Sound(v), Small(Last(stack)) => Small(v), Debt(v) = 0,
         Continue(v)
  PROVE  IInv'
<1>1. Quiet /\ Spare' = Spare /\ faults' = faults
  BY Found DEF Quiet, Spare
<1>2. Len(stack) + 0 <= 1 + faults + Spare
  BY Found
<1>3. StaysAtTheBottom(v)
  <2>1. overflow' => overflow /\ Len(stack) > 1
    BY Found
  <2>2. \A n \in Nat \ {0} : n > 1 => n # 1
    OBVIOUS
  <2> QED BY <2>1, <2>2, Found, Zenon DEF StaysAtTheBottom
<1> QED BY <1>1, <1>2, <1>3, Continued

LEMMA WriteKeeps ==
  ASSUME IInv, NEW n \in 1 .. ChunkSize, Write(n)
  PROVE  IInv'
<1> DEFINE w == Last(stack)
<1>1. /\ stack # <<>> /\ w.pc = "write" /\ Sound(w) /\ w \in Writers
      /\ w.part + n <= Chunk(w)
      /\ UNCHANGED <<overflow, faults, returned>>
  BY Found DEF Write, At, Sound
<1>2. CASE Finishes(w, n)
  <2> DEFINE u == [w EXCEPT !.part = 0, !.pos = @ + Chunk(w),
                            !.left = @ - Chunk(w), !.retry = 0,
                            !.sent = Sent(w, n),
                            !.pc = IF w.left = Chunk(w) THEN "written"
                                                        ELSE "write"]
  <2>1. Continue(u)
    BY <1>2 DEF Write
  <2> HIDE DEF w
  <2>2. u = Finished(w, n)
    BY <1>1, FinishedRecord, Zenon
  <2> HIDE DEF u
  <2> DEFINE v == Finished(w, n)
  <2>3. Sound(v) /\ v.pc \in {"written", "write"} /\ (Small(w) => Small(v))
    BY <1>1, <1>2, FinishedSound
  <2> HIDE DEF v
  <2>4. Debt(v) = 0
    BY <2>3 DEF Debt
  <2>5. Continue(v)
    BY <2>1, <2>2 DEF v
  <2> QED BY <1>1, <2>3, <2>4, <2>5, QuietContinued DEF w
<1>3. CASE ~Finishes(w, n)
  <2> DEFINE u == [w EXCEPT !.part = @ + n, !.sent = Sent(w, n)]
  <2>1. Continue(u)
    BY <1>3 DEF Write
  <2> HIDE DEF w
  <2>2. u = Unfinished(w, n)
    BY <1>1, UnfinishedRecord, Zenon
  <2> HIDE DEF u
  <2> DEFINE v == Unfinished(w, n)
  <2>3. Sound(v) /\ v.pc = "write" /\ (Small(w) => Small(v))
    BY <1>1, UnfinishedSound
  <2> HIDE DEF v
  <2>4. Debt(v) = 0
    BY <2>3 DEF Debt
  <2>5. Continue(v)
    BY <2>1, <2>2 DEF v
  <2> QED BY <1>1, <2>3, <2>4, <2>5, QuietContinued DEF w
<1> QED BY <1>2, <1>3

\* A fault is what a call pays its log with.
LEMMA FaultPays ==
  ASSUME IInv, stack # <<>>, Last(stack).pc = "write", faults < MaxFaults,
         faults' = faults + 1, UNCHANGED <<overflow, returned>>
  PROVE  LET v == [Last(stack) EXCEPT !.pc = "failed"]
         IN /\ Sound(v) /\ (Small(Last(stack)) => Small(v))
            /\ Debt(v) = 1 /\ Quiet /\ StaysAtTheBottom(v)
            /\ Len(stack) + 1 <= 1 + faults' + Spare'
<1> DEFINE v == [Last(stack) EXCEPT !.pc = "failed"]
<1>1. Sound(v) /\ v.pc = "failed" /\ (Small(Last(stack)) => Small(v))
  BY Found, Moved DEF Places
<1> HIDE DEF v
<1>2. Debt(v) = 1
  BY <1>1 DEF Debt
<1>3. Quiet /\ Spare' = Spare
  BY Found, BoundsAssumption DEF Quiet, Spare
<1>4. Len(stack) + 1 <= 1 + faults' + Spare'
  <2>1. Spare \in Nat /\ faults \in Nat /\ Len(stack) \in Nat
    BY Found, BoundsAssumption DEF Spare
  <2>2. Len(stack) <= 1 + faults + Spare
    BY Found
  <2> QED BY <1>3, <2>1, <2>2
<1>5. StaysAtTheBottom(v)
  <2>1. overflow' => overflow /\ Len(stack) > 1
    BY Found
  <2>2. \A n \in Nat \ {0} : n > 1 => n # 1
    OBVIOUS
  <2> QED BY <2>1, <2>2, Found, Zenon DEF StaysAtTheBottom
<1> QED BY <1>1, <1>2, <1>3, <1>4, <1>5, Zenon DEF v

LEMMA WriteFailsKeeps ==
  ASSUME IInv, WriteFails \/ WriteTimesOut
  PROVE  IInv'
<1>1. /\ stack # <<>> /\ Last(stack).pc = "write" /\ faults < MaxFaults
      /\ faults' = faults + 1 /\ UNCHANGED <<overflow, returned>>
  BY DEF WriteFails, WriteTimesOut, At
<1> DEFINE v == [Last(stack) EXCEPT !.pc = "failed"]
<1>2. /\ Sound(v) /\ (Small(Last(stack)) => Small(v))
      /\ Debt(v) = 1 /\ Quiet /\ StaysAtTheBottom(v)
      /\ Len(stack) + 1 <= 1 + faults' + Spare'
  BY <1>1, FaultPays, Zenon
<1>3. Continue(v) \/ Log(v)
  BY DEF WriteFails, WriteTimesOut
<1> HIDE DEF v
<1> QED BY <1>1, <1>2, <1>3, Continued, Logged

LEMMA HandleFailureKeeps ==
  ASSUME IInv, HandleFailure
  PROVE  IInv'
<1>1. /\ stack # <<>> /\ Last(stack).pc = "failed"
      /\ UNCHANGED <<overflow, faults>>
  BY DEF HandleFailure, At
<1>2. CASE Last(stack).retry + 1 < MaxRetries
  <2> DEFINE v == [Last(stack) EXCEPT !.retry = @ + 1, !.part = 0,
                                      !.pc = "again"]
  <2>1. Log(v) /\ returned' = returned
    BY <1>2 DEF HandleFailure
  <2>2. Sound(v) /\ v.pc = "again" /\ (Small(Last(stack)) => Small(v))
    BY <1>1, <1>2, Found, RetriedSound
  <2> HIDE DEF v
  <2>3. Quiet /\ Spare' = Spare /\ faults' = faults
    BY <1>1, <2>1, Found DEF Quiet, Spare
  <2>4. Debt(Last(stack)) = 1
    BY <1>1 DEF Debt
  <2>5. Len(stack) + 1 <= 1 + faults' + Spare'
    BY <1>1, <2>3, <2>4, Found
  <2>6. StaysAtTheBottom(v)
    <3>1. overflow' => overflow /\ Len(stack) > 1
      BY <1>1, Found
    <3>2. \A n \in Nat \ {0} : n > 1 => n # 1
      OBVIOUS
    <3> QED BY <1>1, <3>1, <3>2, Found, Zenon DEF StaysAtTheBottom
  <2> QED BY <1>1, <2>1, <2>2, <2>3, <2>5, <2>6, Logged
<1>3. CASE ~(Last(stack).retry + 1 < MaxRetries)
  <2>1. Return(FALSE)
    BY <1>3 DEF HandleFailure
  <2> QED BY <1>1, <2>1, Returned
<1> QED BY <1>2, <1>3

LEMMA FinishWriteKeeps ==
  ASSUME IInv, FinishWrite
  PROVE  IInv'
<1> DEFINE w == Last(stack)
           v == [w EXCEPT !.pc = "next"]
<1>1. /\ stack # <<>> /\ w.pc = "written" /\ Sound(w)
      /\ UNCHANGED <<faults, returned>>
  BY Found DEF FinishWrite, At
<1>2. /\ overflow => overflow' = FALSE /\ Log(v)
      /\ ~overflow => overflow' = overflow /\ Continue(v)
  BY DEF FinishWrite
<1> HIDE DEF w
<1>3. Sound(v) /\ v.pc = "next" /\ (Small(w) => Small(v))
  <2>1. /\ v \in Writers /\ v.todo = w.todo /\ v.left = w.left
        /\ v.part = w.part /\ v.pos = w.pos /\ v.sent = w.sent
        /\ v.size = w.size /\ v.pc = "next"
    BY <1>1 DEF Sound, Writers, Places
  <2> HIDE DEF v
  <2>2. w.left = 0
    BY <1>1 DEF Sound
  <2> QED BY <1>1, <2>1, <2>2 DEF Sound, Small, Chunk
<1> HIDE DEF v
<1>4. Debt(v) = 0
  BY <1>3 DEF Debt
<1>5. CASE overflow
  <2>1. Quiet /\ faults' = faults /\ Spare' = 2 /\ Spare = 1
    BY <1>1, <1>2, <1>5, Found DEF Quiet, Spare
  <2>2. Len(stack) + 1 <= 1 + faults' + Spare'
    BY <1>1, <2>1, Found, BoundsAssumption
  <2>3. StaysAtTheBottom(v)
    BY <1>2, <1>5 DEF StaysAtTheBottom
  <2> QED BY <1>1, <1>2, <1>3, <1>5, <2>1, <2>2, <2>3, Logged DEF w
<1>6. CASE ~overflow
  BY <1>1, <1>2, <1>3, <1>4, <1>6, QuietContinued DEF w
<1> QED BY <1>5, <1>6

\* A call returns with success when all its parts are written.
LEMMA NextWriteKeeps ==
  ASSUME IInv, NextWrite
  PROVE  IInv'
<1> DEFINE w == Last(stack)
<1>1. /\ stack # <<>> /\ w.pc = "next" /\ Sound(w)
      /\ UNCHANGED <<overflow, faults>>
  BY Found DEF NextWrite, At
<1>2. CASE Tail(w.todo) = <<>>
  <2>1. Return(TRUE)
    BY <1>2 DEF NextWrite
  <2>2. w.left = 0
    BY <1>1 DEF Sound
  <2>3. w.sent = w.size
    <3> HIDE DEF w
    <3> QED BY <1>1, <2>2, ChunkFacts
  <2>4. Whole(w)
    BY <1>2, <2>3 DEF Whole
  <2> QED BY <1>1, <2>1, <2>4, Returned
<1>3. CASE Tail(w.todo) # <<>>
  <2> DEFINE u == [w EXCEPT !.todo = Tail(w.todo),
                            !.left = Head(Tail(w.todo)),
                            !.size = @ + Head(Tail(w.todo)), !.retry = 0,
                            !.pc = "check"]
  <2>1. Continue(u) /\ returned' = returned
    BY <1>3 DEF NextWrite
  <2> HIDE DEF w
  <2>2. w \in Writers
    BY <1>1 DEF Sound
  <2>3. u = Advanced(w)
    BY <2>2, AdvancedRecord, Zenon
  <2> HIDE DEF u
  <2>4. Sound(u) /\ u.pc = "check" /\ (Small(w) => Small(u))
    BY <1>1, <1>3, <2>3, AdvancedSound
  <2>5. Debt(u) = 0
    BY <2>4 DEF Debt
  <2> QED BY <1>1, <2>1, <2>4, <2>5, QuietContinued DEF w
<1> QED BY <1>2, <1>3

LEMMA NextIInv == IInv /\ [Next]_vars => IInv'
<1> SUFFICES ASSUME IInv, [Next]_vars PROVE IInv'
  OBVIOUS
<1>1. CASE UNCHANGED vars
  BY <1>1 DEF vars, IInv, SuccessMeansSent, Paid, Owed, Spare,
              OverflowAtTheBottom
<1> QED
  BY <1>1, CallKeeps, CheckOverflowKeeps, RecoverKeeps, WriteKeeps,
     WriteFailsKeeps, HandleFailureKeeps, RetryKeeps, FinishWriteKeeps,
     NextWriteKeeps DEF Next

\* The writers, the overflow and the faults fit together in every state.
THEOREM Invariance == Spec => []IInv
  BY InitIInv, NextIInv, PTL DEF Spec

-----------------------------------------------------------------------------
(* The properties the run checks                                           *)

\* Retries stay within their limit, and every writer keeps to its type.
THEOREM TypeCorrect == Spec => []TypeOK
<1>1. IInv => TypeOK
  BY DEF IInv, TypeOK, SoundStack
<1> QED BY <1>1, Invariance, PTL

\* A call that reports success has put all its bytes on the line in their
\* order, whatever happened in between.
THEOREM Honest == Spec => []SuccessMeansSent
<1>1. IInv => SuccessMeansSent
  BY DEF IInv
<1> QED BY <1>1, Invariance, PTL

\* However long the packets are and however often the line fails, the calls
\* nest no deeper than there were faults, and two.
THEOREM NestingBounded == Spec => []NestingNeedsFaults
<1>1. ASSUME IInv PROVE NestingNeedsFaults
  <2>1. CASE stack = <<>>
    <3>1. Len(stack) = 0 /\ faults \in Nat
      BY <1>1, <2>1, BoundsAssumption DEF IInv
    <3> QED BY <3>1 DEF NestingNeedsFaults
  <2>2. CASE stack # <<>>
    <3>1. Len(stack) <= 1 + faults + Spare
      BY <1>1, <2>2, Found
    <3>2. Spare \in {1, 2} /\ faults \in Nat /\ Len(stack) \in Nat
      BY <1>1, <2>2, Found, BoundsAssumption DEF Spare
    <3> QED BY <3>1, <3>2 DEF NestingNeedsFaults
  <2> QED BY <2>1, <2>2
<1> QED BY <1>1, Invariance, PTL

\* No overflow is left behind by a call that has returned, even one that has
\* failed.
THEOREM OverflowOver == Spec => []OverflowEnds
<1>1. IInv => OverflowEnds
  BY DEF IInv, OverflowAtTheBottom, OverflowEnds
<1> QED BY <1>1, Invariance, PTL
=============================================================================
