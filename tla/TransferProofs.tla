--------------------------- MODULE TransferProofs ---------------------------
(***************************************************************************)
(* The safety of the transfer of an image, for every number of sequence    *)
(* numbers, every size of the image and of the buffer, and every length of *)
(* the chunks.                                                             *)
(*                                                                         *)
(* Three properties are inductive only together: the count of what was     *)
(* received equals the write position because both start at zero, which is *)
(* what NoResidue says of the state a transfer starts from, and the panel  *)
(* shows only what was received because both equal the size.               *)
(***************************************************************************)
EXTENDS Transfer, TLAPS

IInv ==
  /\ TypeOK
  /\ BufferHoldsReceived
  /\ NoResidue
  /\ PanelShowsReceived

Contexts ==
  [mode : Modes, state : TransferStates, buffer : BOOLEAN, size : Nat,
   offset : Nat, received : Nat, expected : Nat, last : SeqNums,
   errors : 0 .. ErrorBound]

\* A context as it is between two calls.
Resting(c) ==
  /\ c \in Contexts
  /\ c.state \in {"STARTING", "IN_PROGRESS"} =>
       /\ c.buffer
       /\ c.received = c.offset
       /\ c.expected = c.size
       /\ c.offset <= c.size
  /\ \/ c.state \in {"STARTING", "IN_PROGRESS"}
     \/ c = [Zero EXCEPT !.errors = c.errors]

\* The invariant is a resting context and a panel that showed what it got.
LEMMA IInvParts ==
  IInv <=> /\ Resting(context)
           /\ taken \in BOOLEAN
           /\ panel \in [written : 0 .. ImageSize, filled : 0 .. ImageSize]
           /\ panel.written <= panel.filled
           /\ spoilt \subseteq SeqNums
  BY DEF IInv, TypeOK, BufferHoldsReceived, NoResidue, PanelShowsReceived,
         Resting, Contexts

\* The same of the next state.
LEMMA IInvPartsNext ==
  IInv' <=> /\ Resting(context')
            /\ taken' \in BOOLEAN
            /\ panel' \in [written : 0 .. ImageSize, filled : 0 .. ImageSize]
            /\ panel'.written <= panel'.filled
            /\ spoilt' \subseteq SeqNums
  BY DEF IInv, TypeOK, BufferHoldsReceived, NoResidue, PanelShowsReceived,
         Resting, Contexts

-----------------------------------------------------------------------------
(* The operators on contexts                                               *)

\* A transfer context that is all zero is one between two calls.
LEMMA ZeroRests == Resting(Zero)
<1>1. 0 \in SeqNums
  BY SeqModAssumption DEF SeqNums
<1>2. Zero \in Contexts
  BY <1>1, ErrorsAssumption DEF Zero, Contexts, Modes, TransferStates
<1>3. Zero = [Zero EXCEPT !.errors = Zero.errors]
  BY DEF Zero
<1> QED BY <1>2, <1>3 DEF Resting, Zero

\* A context with the fields of Zero is Zero.
LEMMA SameFields ==
  ASSUME NEW c \in Contexts,
         c.mode = "NONE", c.state = "IDLE", c.buffer = FALSE,
         c.size = 0, c.offset = 0, c.received = 0, c.expected = 0,
         c.last = 0, c.errors = 0
  PROVE  c = Zero
  BY DEF Contexts, Zero

\* In IDLE a context is Zero but for its errors.
LEMMA IdleRests ==
  ASSUME NEW c, Resting(c), c.state \notin {"STARTING", "IN_PROGRESS"}
  PROVE  /\ c.state = "IDLE" /\ ~c.buffer /\ c.mode = "NONE"
         /\ c.size = 0 /\ c.offset = 0 /\ c.received = 0
         /\ c.expected = 0 /\ c.last = 0
  BY DEF Resting, Zero

\* transfer_free_buffer, in IDLE, has nothing to do.
LEMMA FreeIdle ==
  ASSUME NEW c, Resting(c), c.state \notin {"STARTING", "IN_PROGRESS"}
  PROVE  FreeBuffer(c) = c
  BY IdleRests DEF FreeBuffer, Resting, Contexts

\* Every way back to IDLE of a running transfer leaves the context clean.
LEMMA EndsRest ==
  ASSUME NEW c \in Contexts
  PROVE  /\ Cleanup(c) = Zero
         /\ Resting(c) => Resting(Abort(c))
         /\ c.state # "IDLE" => Abort(c) = Zero
<1>1. Cleanup(c) = Zero
  <2>1. FreeBuffer(c) \in Contexts
    BY DEF FreeBuffer, Contexts
  <2> DEFINE free == FreeBuffer(c)
             ended == [free EXCEPT !.mode = "NONE", !.state = "IDLE",
                                   !.received = 0, !.expected = 0,
                                   !.last = 0, !.errors = 0]
  <2>2. /\ ended \in Contexts
        /\ ended.mode = "NONE" /\ ended.state = "IDLE"
        /\ ended.buffer = free.buffer
        /\ ended.size = free.size /\ ended.offset = free.offset
        /\ ended.received = 0 /\ ended.expected = 0
        /\ ended.last = 0 /\ ended.errors = 0
    <3> HIDE DEF free
    <3>1. free \in Contexts
      BY <2>1 DEF free
    <3>2. 0 \in SeqNums /\ 0 \in 0 .. ErrorBound
      BY SeqModAssumption, ErrorsAssumption DEF SeqNums
    <3> QED BY <3>1, <3>2 DEF Contexts, Modes, TransferStates
  <2>3. free.buffer = FALSE /\ free.size = 0 /\ free.offset = 0
    BY DEF FreeBuffer, Contexts
  <2>4. Cleanup(c) = ended
    BY DEF Cleanup
  <2> HIDE DEF ended, free
  <2> QED BY <2>2, <2>3, <2>4, SameFields
<1>2. Resting(c) => Resting(Abort(c))
  BY ZeroRests DEF Abort, Reset
<1> QED BY <1>1, <1>2 DEF Abort, Reset

\* A chunk that is not stored changes the sequence number only.
LEMMA CommittedRests ==
  ASSUME NEW c, Resting(c), c.state = "IN_PROGRESS", NEW chunk \in Chunks
  PROVE  /\ Resting(Committed(c, chunk))
         /\ Committed(c, chunk).state = "IN_PROGRESS"
         /\ Committed(c, chunk).offset = c.offset
         /\ Committed(c, chunk).size = c.size
<1>1. chunk.seq \in SeqNums
  BY DEF Chunks
<1>2. c \in Contexts
  BY DEF Resting
<1>3. CASE chunk.data /\ InSequence(c, chunk.seq)
  <2>1. Committed(c, chunk) = [c EXCEPT !.last = chunk.seq]
    BY <1>3 DEF Committed
  <2> QED BY <1>1, <1>2, <2>1 DEF Resting, Contexts
<1>4. CASE ~(chunk.data /\ InSequence(c, chunk.seq))
  BY <1>4 DEF Committed
<1> QED BY <1>3, <1>4

\* A context with k units more stored.
Stored(c, k) == [c EXCEPT !.offset = @ + k, !.received = @ + k]

\* Counting k units more as stored changes the two counts of them.
LEMMA StoredFields ==
  ASSUME NEW c \in Contexts, NEW k \in Nat
  PROVE  /\ Stored(c, k) \in Contexts
         /\ Stored(c, k).state = c.state /\ Stored(c, k).buffer = c.buffer
         /\ Stored(c, k).size = c.size /\ Stored(c, k).expected = c.expected
         /\ Stored(c, k).offset = c.offset + k
         /\ Stored(c, k).received = c.received + k
<1>1. c.offset + k \in Nat /\ c.received + k \in Nat
  BY DEF Contexts
<1>2. Stored(c, k) = [c EXCEPT !.offset = c.offset + k, !.received = c.received + k]
  BY DEF Stored, Contexts
<1> QED BY <1>1, <1>2 DEF Contexts

-----------------------------------------------------------------------------
(* The invariant                                                           *)

\* The statics, all zero, establish the invariant.
LEMMA InitIInv == Init => IInv
<1> SUFFICES ASSUME Init PROVE IInv
  OBVIOUS
<1>1. panel \in [written : 0 .. ImageSize, filled : 0 .. ImageSize]
  BY SizesAssumption DEF Init
<1>2. panel.written <= panel.filled
  BY DEF Init
<1> QED BY <1>1, <1>2, ZeroRests, IInvParts DEF Init

\* Every call preserves the invariant.
LEMMA NextIInv == IInv /\ [Next]_vars => IInv'
<1> SUFFICES ASSUME IInv, [Next]_vars PROVE IInv'
  OBVIOUS
<1> DEFINE Others == /\ taken' \in BOOLEAN
                     /\ panel' = panel
                     /\ spoilt' \subseteq SeqNums
<1>0. /\ Resting(context)
      /\ taken \in BOOLEAN
      /\ panel \in [written : 0 .. ImageSize, filled : 0 .. ImageSize]
      /\ panel.written <= panel.filled
      /\ spoilt \subseteq SeqNums
      /\ context \in Contexts
  BY IInvParts DEF Resting
\* Unless the panel is written to, the context is what has to be looked at.
<1>a. ASSUME Resting(context'), Others PROVE IInv'
  BY <1>0, <1>a, IInvPartsNext
<1>1. CASE UNCHANGED vars
  <2>1. Resting(context') /\ Others
    BY <1>0, <1>1 DEF vars
  <2> QED BY <2>1, <1>a
<1>2. CASE Initialize
  <2>1. Resting(context') /\ Others
    BY <1>2, ZeroRests DEF Initialize
  <2> QED BY <2>1, <1>a
<1>3. CASE ResetTransfer
  <2>1. Resting(context') /\ Others
    BY <1>3, ZeroRests DEF ResetTransfer, Reset
  <2> QED BY <2>1, <1>a
<1>4. ASSUME NEW mode \in Modes, NEW n \in Sizes, NEW ok \in BOOLEAN,
             Start(mode, n, ok)
      PROVE  IInv'
  <2>1. CASE context.state # "IDLE"
    <3>1. Resting(context')
      BY <1>0, <1>4, <2>1 DEF Start
    <3>2. Others
      BY <1>0, <1>4, <2>1 DEF Start
    <3> QED BY <3>1, <3>2, <1>a
  <2>2. CASE context.state = "IDLE" /\ ~ok
    <3>1. context' = context
      BY <1>0, <1>4, <2>2, FreeIdle DEF Start, AllocateBuffer
    <3>2. Others
      BY <1>0, <1>4, <2>2 DEF Start
    <3> QED BY <1>0, <3>1, <3>2, <1>a
  <2>3. CASE context.state = "IDLE" /\ ok
    <3>1. context' = [context EXCEPT !.buffer = TRUE, !.size = n, !.mode = mode,
                                     !.state = "STARTING", !.expected = n]
      <4>1. FreeBuffer(context) = context
        BY <1>0, <2>3, FreeIdle
      <4>2. AllocateBuffer(context, n, ok) = [context EXCEPT !.buffer = TRUE, !.size = n]
        BY <2>3, <4>1 DEF AllocateBuffer
      <4> QED BY <1>0, <1>4, <2>3, <4>2 DEF Start, Contexts
    <3>2. n \in Nat /\ context.offset = 0 /\ context.received = 0
      BY <1>0, <2>3, IdleRests, SizesAssumption
    <3>3. /\ context' \in Contexts
          /\ context'.state = "STARTING" /\ context'.buffer
          /\ context'.size = n /\ context'.expected = n
          /\ context'.offset = context.offset
          /\ context'.received = context.received
      BY <1>0, <3>1, <3>2 DEF Contexts, TransferStates
    <3>4. Resting(context')
      BY <3>2, <3>3 DEF Resting
    <3>5. Others
      BY <1>0, <1>4, <2>3 DEF Start
    <3> QED BY <3>4, <3>5, <1>a
  <2> QED BY <2>1, <2>2, <2>3
<1>5. CASE Begin
  <2>1. Resting(context')
    BY <1>0, <1>5 DEF Begin, Resting, Contexts, TransferStates
  <2>2. Others
    BY <1>0, <1>5 DEF Begin
  <2> QED BY <2>1, <2>2, <1>a
<1>6. CASE AbortTransfer
  <2>1. Resting(context')
    BY <1>0, <1>6, EndsRest DEF AbortTransfer
  <2>2. Others
    BY <1>0, <1>6 DEF AbortTransfer
  <2> QED BY <2>1, <2>2, <1>a
<1>7. ASSUME NEW chunk \in Chunks, ProcessChunk(chunk)
      PROVE  IInv'
  <2> DEFINE seen == Committed(context, chunk)
  <2>1. Others
    <3>1. chunk.seq \in SeqNums
      BY DEF Chunks
    <3>2. spoilt' \subseteq SeqNums
      BY <1>0, <1>7, <3>1 DEF ProcessChunk
    <3> QED BY <1>7, <3>2 DEF ProcessChunk
  <2>2. CASE context.state # "IN_PROGRESS"
    <3>1. context' = context
      BY <1>7, <2>2 DEF ProcessChunk
    <3> QED BY <1>0, <2>1, <3>1, <1>a
  <2>3. CASE context.state = "IN_PROGRESS" /\ ~taken'
    <3>1. context' = seen
      BY <1>7, <2>3 DEF ProcessChunk
    <3>2. Resting(seen)
      BY <1>0, <2>3, CommittedRests
    <3> QED BY <2>1, <3>1, <3>2, <1>a
  <2>4. CASE context.state = "IN_PROGRESS" /\ taken'
    <3>1. /\ context' = Stored(seen, chunk.length)
          /\ context.offset + chunk.length <= context.size
      BY <1>7, <2>4 DEF ProcessChunk, Fits, Stored
    <3>2. /\ Resting(seen)
          /\ seen.state = "IN_PROGRESS"
          /\ seen.offset = context.offset
          /\ seen.size = context.size
      BY <1>0, <2>4, CommittedRests
    <3>3. chunk.length \in Nat
      BY SizesAssumption DEF Chunks
    <3> HIDE DEF seen
    <3>4. /\ context' \in Contexts
          /\ context'.state = seen.state
          /\ context'.buffer = seen.buffer
          /\ context'.size = seen.size /\ context'.expected = seen.expected
          /\ context'.offset = seen.offset + chunk.length
          /\ context'.received = seen.received + chunk.length
      <4>1. seen \in Contexts
        BY <3>2 DEF Resting
      <4> QED BY <3>1, <3>3, <4>1, StoredFields
    <3>5. Resting(context')
      BY <3>1, <3>2, <3>4 DEF Resting
    <3> QED BY <2>1, <3>5, <1>a
  <2> QED BY <2>2, <2>3, <2>4
<1>8. CASE CompleteRefused
  <2>1. Resting(context') /\ Others
    BY <1>0, <1>8 DEF CompleteRefused
  <2> QED BY <2>1, <1>a
<1>9. ASSUME NEW outcome \in PanelOutcomes, NEW n \in 0 .. ImageSize - 1,
             Complete(outcome, n)
      PROVE  IInv'
  <2>1. context' = Zero
    <3>1. [context EXCEPT !.state = "COMPLETING"] \in Contexts
      BY <1>0 DEF Contexts, TransferStates
    <3>2. Abort([context EXCEPT !.state = "COMPLETING"]) = Zero
      BY <1>0, <3>1, EndsRest DEF Contexts
    <3> QED BY <1>0, <1>9, <3>2, EndsRest DEF Complete
  <2>2. /\ panel' \in [written : 0 .. ImageSize, filled : 0 .. ImageSize]
        /\ panel'.written <= panel'.filled
    <3>1. CASE ~ImageValid(context)
      BY <1>0, <1>9, <3>1 DEF Complete
    <3>2. CASE ImageValid(context)
      <4>1. /\ context.size = ImageSize
            /\ context.offset = ImageSize
        BY <1>0, <1>9, <3>2 DEF Complete, AllReceived, ImageValid, Resting
      <4>2. Written(context, outcome, n) \in 0 .. ImageSize
        BY <4>1, SizesAssumption, OutcomesAssumption DEF Written, Outcomes
      <4>3. panel' = [written |-> Written(context, outcome, n),
                      filled |-> ImageSize]
        BY <1>9, <3>2, <4>1 DEF Complete
      <4> QED BY <4>2, <4>3, SizesAssumption
    <3> QED BY <3>1, <3>2
  <2>3. taken' \in BOOLEAN /\ spoilt' \subseteq SeqNums
    BY <1>9 DEF Complete
  <2> QED BY <2>1, <2>2, <2>3, ZeroRests, IInvPartsNext
<1>10. CASE HandleTransferError
  <2> DEFINE counted == [context EXCEPT !.errors = @ + 1]
  <2>1. Others
    BY <1>0, <1>10 DEF HandleTransferError
  <2>2. counted \in Contexts /\ Resting(counted)
    BY <1>0, <1>10, ErrorsAssumption
       DEF HandleTransferError, Resting, Contexts, Zero
  <2>3. context' = counted \/ context' = Abort(counted)
    BY <1>10 DEF HandleTransferError, GiveUp
  <2> HIDE DEF counted
  <2>4. Resting(context')
    BY <2>2, <2>3, EndsRest
  <2> QED BY <2>1, <2>4, <1>a
<1> QED
  BY <1>1, <1>2, <1>3, <1>4, <1>5, <1>6, <1>7, <1>8, <1>9, <1>10 DEF Next

\* The three properties hold together in every reachable state.
THEOREM Invariance == Spec => []IInv
  BY InitIInv, NextIInv, PTL DEF Spec

-----------------------------------------------------------------------------
(* The properties the run checks                                           *)

\* The context and what was shown keep to their types: no count leaves its
\* range, however the calls are mixed.
THEOREM TypeCorrect == Spec => []TypeOK
<1>1. IInv => TypeOK
  BY IInvParts DEF IInv
<1> QED BY <1>1, Invariance, PTL

\* No byte is stored beyond the end of the buffer, and the two counts the code
\* keeps of what was received never disagree.
THEOREM BufferSafe == Spec => []BufferHoldsReceived
<1>1. IInv => BufferHoldsReceived
  BY DEF IInv
<1> QED BY <1>1, Invariance, PTL

\* A transfer starts from a clean context, though it does not clean it.
THEOREM CleanStart == Spec => []NoResidue
<1>1. IInv => NoResidue
  BY DEF IInv
<1> QED BY <1>1, Invariance, PTL

\* No uninitialized memory reaches the panel.
THEOREM OnlyReceivedShown == Spec => []PanelShowsReceived
<1>1. IInv => PanelShowsReceived
  BY DEF IInv
<1> QED BY <1>1, Invariance, PTL

\* The last error a transfer survives not ends it, and frees its buffer.
THEOREM GivingUp == Spec => GivingUpEnds
<1>1. ASSUME IInv, HandleTransferError, ~taken'
      PROVE  context'.state = "IDLE" /\ ~context'.buffer
  <2> DEFINE counted == [context EXCEPT !.errors = @ + 1]
  <2>1. context' = Abort(counted)
    BY <1>1 DEF HandleTransferError, GiveUp
  <2>2. Resting(context)
    BY <1>1, IInvParts
  <2>3. CASE context.state = "IDLE"
    <3>1. ~context.buffer
      BY <2>2, <2>3, IdleRests
    <3> QED BY <2>1, <2>2, <2>3, <3>1 DEF Abort, Resting, Contexts
  <2>4. CASE context.state # "IDLE"
    <3>1. counted.state # "IDLE"
      BY <2>2, <2>4 DEF Resting, Contexts
    <3> QED BY <2>1, <3>1 DEF Abort, Reset, Zero
  <2> QED BY <2>3, <2>4
<1>2. IInv /\ [Next]_vars
        => [HandleTransferError /\ ~taken' => /\ context'.state = "IDLE"
                                              /\ ~context'.buffer]_vars
  BY <1>1
<1> QED BY <1>2, Invariance, PTL DEF Spec, GivingUpEnds

-----------------------------------------------------------------------------
(* The transfer implements ImageDelivery                                   *)

\* What a call may do to the image: a step of ImageDelivery, or nothing.
ImageStep == Images!Next \/ UNCHANGED Images!vars

\* A call that touches neither the image's sizes nor the panel.
LEMMA KeepsImage ==
  ASSUME panel' = panel, context'.state # "IDLE" <=> context.state # "IDLE",
         context'.expected = context.expected, context'.received = context.received
  PROVE  ImageStep
BY DEF ImageStep, Images!vars

\* Every way back to IDLE without writing to the panel drops the image, or
\* there was none.
LEMMA DropsImage ==
  ASSUME Resting(context), context' = Zero, panel' = panel
  PROVE  ImageStep
<1>1. CASE context.state = "IDLE"
  <2>1. context.expected = 0 /\ context.received = 0
    BY <1>1, IdleRests
  <2> QED BY <1>1, <2>1, KeepsImage DEF Zero
<1>2. CASE context.state # "IDLE"
  <2>1. Images!Drop
    BY <1>2 DEF Images!Drop, Images!Gone, Zero
  <2> QED BY <2>1 DEF ImageStep, Images!Next
<1> QED BY <1>1, <1>2

\* transfer_start opens an image, or leaves the context as it is.
LEMMA StartOpens ==
  ASSUME Resting(context), NEW mode \in Modes, NEW n \in Sizes, NEW ok \in BOOLEAN,
         Start(mode, n, ok)
  PROVE  ImageStep
<1>1. CASE context.state # "IDLE"
  BY <1>1, KeepsImage DEF Start
<1>2. CASE context.state = "IDLE" /\ ~ok
  <2>1. context' = context
    BY <1>2, FreeIdle DEF Start, AllocateBuffer
  <2> QED BY <2>1, KeepsImage DEF Start
<1>3. CASE context.state = "IDLE" /\ ok
  <2>1. FreeBuffer(context) = context
    BY <1>3, FreeIdle
  <2>2. context' = [context EXCEPT !.buffer = TRUE, !.size = n, !.mode = mode,
                                   !.state = "STARTING", !.expected = n]
    BY <1>3, <2>1 DEF Start, AllocateBuffer, Resting, Contexts
  <2>3. context.received = 0
    BY <1>3, IdleRests
  <2>4. context'.state = "STARTING" /\ context'.expected = n /\ context'.received = 0
    BY <2>2, <2>3 DEF Resting, Contexts
  <2>5. Images!Open
    BY <1>3, <2>4, SizesAssumption DEF Images!Open, Start
  <2> QED BY <2>5 DEF ImageStep, Images!Next
<1> QED BY <1>1, <1>2, <1>3

\* transfer_process_chunk grows the image, within its size, or leaves it.
LEMMA ChunkGrows ==
  ASSUME Resting(context), NEW chunk \in Chunks, ProcessChunk(chunk)
  PROVE  ImageStep
<1> DEFINE seen == Committed(context, chunk)
<1>0. /\ context \in Contexts /\ panel' = panel
      /\ chunk.length \in Nat
  BY SizesAssumption DEF Resting, ProcessChunk, Chunks
<1>1. /\ seen \in Contexts /\ seen.state = context.state
      /\ seen.expected = context.expected /\ seen.received = context.received
  <2>1. CASE seen = context
    BY <1>0, <2>1
  <2>2. CASE seen = [context EXCEPT !.last = chunk.seq]
    BY <1>0, <2>2 DEF Contexts, Chunks
  <2> QED BY <2>1, <2>2 DEF Committed
<1> HIDE DEF seen
<1>2. CASE ~taken'
  <2>1. context' = seen \/ context' = context
    BY <1>2 DEF ProcessChunk, seen
  <2> QED BY <1>0, <1>1, <2>1, KeepsImage
<1>3. CASE taken'
  <2>1. /\ context' = Stored(seen, chunk.length)
        /\ context.state = "IN_PROGRESS" /\ chunk.length > 0
        /\ context.offset + chunk.length <= context.size
    BY <1>3 DEF ProcessChunk, Stored, Fits, ValidChunk, ChecksumValid, seen
  <2>2. /\ context.received = context.offset /\ context.expected = context.size
    BY <2>1 DEF Resting
  <2>3. /\ context'.state = "IN_PROGRESS" /\ context'.expected = context.expected
        /\ context'.received = context.received + chunk.length
    BY <1>0, <1>1, <2>1, StoredFields
  <2>4. /\ context.received \in Nat /\ context.expected \in Nat
        /\ context'.received \in context.received + 1 .. context.expected
    BY <1>0, <2>1, <2>2, <2>3 DEF Contexts
  <2>5. Images!Grow
    BY <1>0, <2>1, <2>3, <2>4 DEF Images!Grow
  <2> QED BY <2>5 DEF ImageStep, Images!Next
<1> QED BY <1>2, <1>3

\* transfer_complete shows the image when it is whole and the panel's size,
\* and drops it otherwise.
LEMMA CompleteShows ==
  ASSUME Resting(context), NEW outcome \in PanelOutcomes, NEW n \in 0 .. ImageSize - 1,
         Complete(outcome, n)
  PROVE  ImageStep
<1>1. context' = Zero
  <2>1. /\ context \in Contexts
        /\ [context EXCEPT !.state = "COMPLETING"] \in Contexts
        /\ [context EXCEPT !.state = "COMPLETING"].state = "COMPLETING"
    BY DEF Resting, Contexts, TransferStates
  <2>2. Abort([context EXCEPT !.state = "COMPLETING"]) = Zero
    BY <2>1, EndsRest
  <2> QED BY <2>1, <2>2, EndsRest DEF Complete
<1>2. CASE ~ImageValid(context)
  BY <1>1, <1>2, DropsImage DEF Complete
<1>3. CASE ImageValid(context)
  <2>1. /\ context.state = "IN_PROGRESS" /\ context.size = ImageSize
        /\ context.received = ImageSize /\ context.expected = ImageSize
        /\ context.offset = ImageSize
    BY <1>3 DEF Complete, AllReceived, ImageValid, Resting
  <2>2. Written(context, outcome, n) \in 0 .. ImageSize
    BY <2>1, SizesAssumption, OutcomesAssumption DEF Written, Outcomes
  <2>3. panel' = [written |-> Written(context, outcome, n), filled |-> ImageSize]
    BY <1>3, <2>1 DEF Complete
  <2>4. panel' \in [written : 0 .. ImageSize, filled : {ImageSize}]
    BY <2>2, <2>3
  <2>5. Images!Show
    BY <1>1, <2>1, <2>4 DEF Images!Show, Images!Gone, Zero
  <2> QED BY <2>5 DEF ImageStep, Images!Next
<1> QED BY <1>2, <1>3

\* An error is counted, or one too many and drops the image.
LEMMA ErrorDrops ==
  ASSUME Resting(context), HandleTransferError
  PROVE  ImageStep
<1> DEFINE counted == [context EXCEPT !.errors = @ + 1]
<1>1. /\ counted.state = context.state /\ counted.expected = context.expected
      /\ counted.received = context.received
  BY DEF Resting, Contexts
<1>2. panel' = panel /\ (context' = counted \/ context' = Abort(counted))
  BY DEF HandleTransferError, GiveUp
<1> HIDE DEF counted
<1>3. CASE context' = counted
  BY <1>1, <1>2, <1>3, KeepsImage
<1>4. CASE context' = Abort(counted) /\ context' # counted
  <2>1. context' = Zero
    BY <1>4 DEF Abort, Reset
  <2> QED BY <1>2, <2>1, DropsImage
<1> QED BY <1>2, <1>3, <1>4

\* However the calls of transfer.c are mixed: an image is opened empty, grows
\* within its size, and reaches the panel only whole and of the panel's size.
THEOREM Refinement == Spec => ImageDelivered
<1>1. Init => Images!Init
  BY DEF Init, Images!Init, Zero
<1>2. IInv /\ [Next]_vars => [Images!Next]_(Images!vars)
  <2> SUFFICES ASSUME IInv, [Next]_vars PROVE ImageStep
    BY DEF ImageStep
  <2>0. Resting(context) /\ context \in Contexts
    BY IInvParts DEF Resting
  <2>1. CASE UNCHANGED vars
    BY <2>1, KeepsImage DEF vars
  <2>2. CASE Initialize \/ ResetTransfer
    BY <2>0, <2>2, DropsImage DEF Initialize, ResetTransfer, Reset
  <2>3. ASSUME NEW mode \in Modes, NEW n \in Sizes, NEW ok \in BOOLEAN,
               Start(mode, n, ok)
        PROVE  ImageStep
    BY <2>0, <2>3, StartOpens
  <2>4. CASE Begin
    BY <2>0, <2>4, KeepsImage DEF Begin, Contexts
  <2>5. CASE AbortTransfer
    BY <2>0, <2>5, KeepsImage, DropsImage DEF AbortTransfer, Abort, Reset
  <2>6. ASSUME NEW chunk \in Chunks, ProcessChunk(chunk) PROVE ImageStep
    BY <2>0, <2>6, ChunkGrows
  <2>7. CASE CompleteRefused
    BY <2>7, KeepsImage DEF CompleteRefused
  <2>8. ASSUME NEW outcome \in PanelOutcomes, NEW n \in 0 .. ImageSize - 1,
               Complete(outcome, n)
        PROVE  ImageStep
    BY <2>0, <2>8, CompleteShows
  <2>9. CASE HandleTransferError
    BY <2>0, <2>9, ErrorDrops
  <2> QED BY <2>1, <2>2, <2>3, <2>4, <2>5, <2>6, <2>7, <2>8, <2>9 DEF Next
<1> QED BY <1>1, <1>2, Invariance, PTL DEF Spec, ImageDelivered, Images!Spec
=============================================================================
