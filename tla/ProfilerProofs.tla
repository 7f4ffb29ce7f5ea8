---------------------------- MODULE ProfilerProofs ----------------------------
(***************************************************************************)
(* The profiler's globals follow the client's call stack, for any number of*)
(* blocks, any depth of nesting and recursion, and any clock, and implement*)
(* the stack of nested calls that CallTimes describes.                     *)
(***************************************************************************)
EXTENDS Profiler, FiniteSetTheorems, SequenceTheorems, WellFoundedInduction, TLAPS

\* The calls of a block that are open follow each other.
CallsAreRuns ==
    \A j, k \in DOMAIN calls : j < k /\ calls[j] = calls[k] => calls[k - 1] = calls[k]
\* No block has started in the future.
StartedBefore == \A b \in Blocks : profile_data[b].start_rdtsc <= tsc

\* ProfileIndexFollowsCalls needs RecursionIsCounted (whether an end closes its block
\* depends on the count), which needs CallsAreRuns (a count of zero means that the
\* caller is another block); the ticks are natural because of StartedBefore.
ProfilerInv ==
    /\ TypeOK
    /\ ProfileIndexFollowsCalls
    /\ RecursionIsCounted
    /\ CallsAreRuns
    /\ StartedBefore

\* -1 is the index of no block.
LEMMA NoBlockIsNone == NoBlock \notin Blocks
BY ProfilerAssumption DEF NoBlock

-----------------------------------------------------------------------------
(* The call stack.                                                         *)

\* A call puts its position on the stack, and no other.
LEMMA CallOpens ==
    ASSUME calls \in Seq(Blocks), NEW index \in Blocks, calls' = Append(calls, index)
    PROVE  /\ calls' \in Seq(Blocks) /\ Len(calls) \in Nat
           /\ Len(calls') = Len(calls) + 1
           /\ DOMAIN calls = 1..Len(calls) /\ DOMAIN calls' = 1..(Len(calls) + 1)
           /\ \A k \in 1..Len(calls) : calls'[k] = calls[k] /\ calls[k] \in Blocks
           /\ calls'[Len(calls) + 1] = index
           /\ Innermost' = index
           /\ \A b : b # index => OpenCalls(b)' = OpenCalls(b)
           /\ OpenCalls(index)' = OpenCalls(index) \cup {Len(calls) + 1}
<1>1. /\ calls' \in Seq(Blocks) /\ Len(calls) \in Nat
      /\ Len(calls') = Len(calls) + 1
      /\ DOMAIN calls = 1..Len(calls) /\ DOMAIN calls' = 1..(Len(calls) + 1)
      /\ \A k \in 1..Len(calls) : calls'[k] = calls[k] /\ calls[k] \in Blocks
      /\ calls'[Len(calls) + 1] = index
  OBVIOUS
<1>2. Innermost' = index
  <2>1. calls' # <<>>  BY <1>1
  <2> QED  BY <1>1, <2>1 DEF Innermost
<1>3. \A b : b # index => OpenCalls(b)' = OpenCalls(b)  BY <1>1 DEF OpenCalls
<1>4. OpenCalls(index)' = OpenCalls(index) \cup {Len(calls) + 1}  BY <1>1 DEF OpenCalls
<1> QED  BY <1>1, <1>2, <1>3, <1>4

\* A return takes the last position off the stack.
LEMMA ReturnCloses ==
    ASSUME calls \in Seq(Blocks), calls # <<>>,
           calls' = SubSeq(calls, 1, Len(calls) - 1)
    PROVE  /\ calls' \in Seq(Blocks) /\ Len(calls) \in Nat \ {0}
           /\ Len(calls') = Len(calls) - 1
           /\ DOMAIN calls = 1..Len(calls) /\ DOMAIN calls' = 1..(Len(calls) - 1)
           /\ \A k \in 1..(Len(calls) - 1) : calls'[k] = calls[k]
           /\ \A k \in 1..Len(calls) : calls[k] \in Blocks
           /\ Innermost = calls[Len(calls)]
           /\ \A b : b # Innermost => OpenCalls(b)' = OpenCalls(b)
           /\ OpenCalls(Innermost) = {k \in DOMAIN calls' : calls'[k] = calls[Len(calls)]}
                                        \cup {Len(calls)}
<1>1. /\ calls' \in Seq(Blocks) /\ Len(calls) \in Nat \ {0}
      /\ Len(calls') = Len(calls) - 1
      /\ DOMAIN calls = 1..Len(calls) /\ DOMAIN calls' = 1..(Len(calls) - 1)
      /\ \A k \in 1..(Len(calls) - 1) : calls'[k] = calls[k]
      /\ \A k \in 1..Len(calls) : calls[k] \in Blocks
  <2>1. /\ Len(calls) \in Nat \ {0} /\ DOMAIN calls = 1..Len(calls)
        /\ \A k \in 1..Len(calls) : calls[k] \in Blocks
    BY EmptySeq, LenProperties, ElementOfSeq
  <2>2. /\ calls' \in Seq(Blocks) /\ Len(calls') = Len(calls) - 1
        /\ \A k \in 1..(Len(calls) - 1) : calls'[k] = calls[k]
    BY <2>1, SubSeqProperties
  <2> QED  BY <2>1, <2>2, LenProperties
<1>2. Innermost = calls[Len(calls)]  BY DEF Innermost
<1>3. \A b : b # Innermost => OpenCalls(b)' = OpenCalls(b)  BY <1>1, <1>2 DEF OpenCalls
<1>4. OpenCalls(Innermost) = {k \in DOMAIN calls' : calls'[k] = calls[Len(calls)]}
                                \cup {Len(calls)}
  BY <1>1, <1>2 DEF OpenCalls
<1> QED  BY <1>1, <1>2, <1>3, <1>4

\* The stack is finite, and so is the set of the positions of a block.
LEMMA OpenCallsFinite ==
    ASSUME calls \in Seq(Blocks), NEW b
    PROVE  /\ IsFiniteSet(OpenCalls(b)) /\ Cardinality(OpenCalls(b)) \in Nat
           /\ Cardinality(OpenCalls(b)) = 0 <=> OpenCalls(b) = {}
<1>1. DOMAIN calls = 1..Len(calls) /\ Len(calls) \in Nat  OBVIOUS
<1>2. IsFiniteSet(1..Len(calls))  BY <1>1, FS_Interval
<1>3. OpenCalls(b) \subseteq 1..Len(calls)  BY <1>1 DEF OpenCalls
<1>4. IsFiniteSet(OpenCalls(b))  BY <1>2, <1>3, FS_Subset
<1> QED  BY <1>4, FS_CardinalityType, FS_EmptySet

-----------------------------------------------------------------------------
(* The profiler's data.                                                    *)

\* What the actions assign to one block keeps it well formed.
LEMMA BlockType ==
    ASSUME NEW block \in ProfileBlock
    PROVE  /\ block.recursive_count \in Nat /\ block.start_rdtsc \in Nat
           /\ block.total_ticks \in Nat
           /\ block.parent_index \in Blocks \cup {0, NoBlock}
           /\ \A n \in Nat : [block EXCEPT !.recursive_count = n] \in ProfileBlock
           /\ \A n \in Nat : [block EXCEPT !.children_ticks = @ + n] \in ProfileBlock
BY DEF ProfileBlock

\* Replacing one block leaves the others as they are.
LEMMA BlockReplaced ==
    ASSUME NEW data \in [Blocks -> ProfileBlock], NEW index \in Blocks,
           NEW block \in ProfileBlock
    PROVE  LET result == [data EXCEPT ![index] = block]
           IN  /\ result \in [Blocks -> ProfileBlock]
               /\ result[index] = block
               /\ \A b \in Blocks : b # index => result[b] = data[b]
OBVIOUS

\* Changing the recursion count of a block leaves everything else as it is.
LEMMA CountChanged ==
    ASSUME profile_data \in [Blocks -> ProfileBlock], NEW index \in Blocks, NEW n \in Nat,
           profile_data' = [profile_data EXCEPT ![index].recursive_count = n]
    PROVE  /\ profile_data' \in [Blocks -> ProfileBlock]
           /\ \A b \in Blocks :
                 /\ profile_data'[b].parent_index = profile_data[b].parent_index
                 /\ profile_data'[b].start_rdtsc = profile_data[b].start_rdtsc
                 /\ profile_data'[b].total_ticks = profile_data[b].total_ticks
                 /\ profile_data'[b].count = profile_data[b].count
                 /\ b # index => profile_data'[b] = profile_data[b]
           /\ profile_data'[index].recursive_count = n
<1>1. profile_data[index] \in ProfileBlock  OBVIOUS
<1> DEFINE block == [profile_data[index] EXCEPT !.recursive_count = n]
<1>2. /\ block \in ProfileBlock
      /\ block.parent_index = profile_data[index].parent_index
      /\ block.start_rdtsc = profile_data[index].start_rdtsc
      /\ block.total_ticks = profile_data[index].total_ticks
      /\ block.count = profile_data[index].count
      /\ block.recursive_count = n
  BY <1>1 DEF ProfileBlock
<1>3. profile_data' = [profile_data EXCEPT ![index] = block]  OBVIOUS
<1> HIDE DEF block
<1> QED  BY <1>2, <1>3

\* The start of a block.
LEMMA BlockStarted ==
    ASSUME profile_data \in [Blocks -> ProfileBlock], NEW index \in Blocks,
           tsc' \in Nat, NEW bytes \in Nat, profile_index \in Blocks \cup {NoBlock},
           StartBlock(index, bytes)
    PROVE  /\ profile_data' \in [Blocks -> ProfileBlock]
           /\ \A b \in Blocks :
                 /\ profile_data'[b].recursive_count = profile_data[b].recursive_count
                 /\ profile_data'[b].total_ticks = profile_data[b].total_ticks
                 /\ profile_data'[b].count = profile_data[b].count
                 /\ b # index => profile_data'[b] = profile_data[b]
           /\ profile_data'[index].parent_index = profile_index
           /\ profile_data'[index].start_rdtsc = tsc'
<1>0. PICK now \in Nat, parent \in Blocks \cup {NoBlock} :
        /\ now = tsc' /\ parent = profile_index
        /\ profile_data' = [profile_data EXCEPT
               ![index].named = TRUE, ![index].start_rdtsc = now,
               ![index].processed_byte_count = bytes, ![index].parent_index = parent]
  BY DEF StartBlock
<1>1. profile_data[index] \in ProfileBlock  OBVIOUS
<1> DEFINE block == [profile_data[index] EXCEPT
               !.named = TRUE, !.start_rdtsc = now,
               !.processed_byte_count = bytes, !.parent_index = parent]
<1>2. /\ block \in ProfileBlock
      /\ block.recursive_count = profile_data[index].recursive_count
      /\ block.total_ticks = profile_data[index].total_ticks
      /\ block.count = profile_data[index].count
      /\ block.parent_index = parent /\ block.start_rdtsc = now
  BY <1>1 DEF ProfileBlock
<1>3. profile_data' = [profile_data EXCEPT ![index] = block]  BY <1>0
<1> HIDE DEF block
<1>4. /\ profile_data' \in [Blocks -> ProfileBlock]
      /\ profile_data'[index] = block
      /\ \A b \in Blocks : b # index => profile_data'[b] = profile_data[b]
  <2>1. block \in ProfileBlock  BY <1>2
  <2>2. LET result == [profile_data EXCEPT ![index] = block]
        IN  /\ result \in [Blocks -> ProfileBlock]
            /\ result[index] = block
            /\ \A b \in Blocks : b # index => result[b] = profile_data[b]
    BY <2>1, BlockReplaced, Zenon
  <2> QED  BY <1>3, <2>2, Zenon
<1>5. ASSUME NEW b \in Blocks
      PROVE  /\ profile_data'[b].recursive_count = profile_data[b].recursive_count
             /\ profile_data'[b].total_ticks = profile_data[b].total_ticks
             /\ profile_data'[b].count = profile_data[b].count
  <2>1. CASE b = index  BY <1>2, <1>4, <2>1
  <2>2. CASE b # index  BY <1>4, <2>2
  <2> QED  BY <2>1, <2>2
<1> QED  BY <1>0, <1>2, <1>4, <1>5

\* The end of a block, which charges its parent.
LEMMA BlockEnded ==
    ASSUME profile_data \in [Blocks -> ProfileBlock], NEW index \in Blocks,
           tsc' \in Nat, profile_data[index].start_rdtsc <= tsc', EndBlock(index)
    PROVE  /\ profile_data' \in [Blocks -> ProfileBlock]
           /\ \A b \in Blocks :
                 /\ profile_data'[b].parent_index = profile_data[b].parent_index
                 /\ profile_data'[b].recursive_count = profile_data[b].recursive_count
                 /\ profile_data'[b].start_rdtsc \in {0, profile_data[b].start_rdtsc}
                 /\ b # index =>
                       /\ profile_data'[b].start_rdtsc = profile_data[b].start_rdtsc
                       /\ profile_data'[b].total_ticks = profile_data[b].total_ticks
                       /\ profile_data'[b].count = profile_data[b].count
           /\ profile_data'[index].total_ticks
                 = profile_data[index].total_ticks + (tsc' - profile_data[index].start_rdtsc)
           /\ profile_data'[index].count = profile_data[index].count + 1
<1> DEFINE block == profile_data[index]
           parent == block.parent_index
           total == block.total_ticks + (tsc' - block.start_rdtsc)
           closed == [block EXCEPT !.total_ticks = total, !.count = @ + 1, !.start_rdtsc = 0]
           ended == [profile_data EXCEPT ![index].total_ticks = total,
                                         ![index].count = @ + 1,
                                         ![index].start_rdtsc = 0]
           charged == [ended EXCEPT ![parent].children_ticks = @ + ended[index].total_ticks]
<1>1. block \in ProfileBlock  OBVIOUS
<1>2. total \in Nat  BY <1>1, BlockType
<1>3. /\ closed \in ProfileBlock
      /\ closed.recursive_count = block.recursive_count
      /\ closed.parent_index = parent /\ closed.start_rdtsc = 0
      /\ closed.total_ticks = total /\ closed.count = block.count + 1
  <2> DEFINE count == block.count + 1
  <2> HIDE DEF total, block
  <2>1. count \in Nat  BY <1>1 DEF ProfileBlock
  <2>2. closed = [block EXCEPT !.total_ticks = total, !.count = count, !.start_rdtsc = 0]
    OBVIOUS
  <2> HIDE DEF count, closed
  <2>3. closed \in ProfileBlock  BY <1>1, <1>2, <2>1, <2>2 DEF ProfileBlock
  <2>4. /\ closed.recursive_count = block.recursive_count
        /\ closed.parent_index = block.parent_index /\ closed.start_rdtsc = 0
        /\ closed.total_ticks = total /\ closed.count = count
    BY <1>1, <2>2 DEF ProfileBlock
  <2>5. closed.count = block.count + 1  BY <2>4 DEF count
  <2> QED  BY <2>3, <2>4, <2>5
<1>4. ended = [profile_data EXCEPT ![index] = closed]  OBVIOUS
<1>5. /\ ended \in [Blocks -> ProfileBlock]
      /\ ended[index].total_ticks \in Nat /\ ended[index].total_ticks = total
      /\ ended[index].count = block.count + 1
      /\ \A b \in Blocks :
            /\ ended[b].parent_index = profile_data[b].parent_index
            /\ ended[b].recursive_count = profile_data[b].recursive_count
            /\ ended[b].start_rdtsc \in {0, profile_data[b].start_rdtsc}
            /\ b # index => ended[b] = profile_data[b]
  <2> HIDE DEF closed, ended, total
  <2> QED  BY <1>2, <1>3, <1>4
<1>6. profile_data' = ended \/ profile_data' = charged  BY DEF EndBlock
<1> HIDE DEF ended
<1>7. /\ charged \in [Blocks -> ProfileBlock]
      /\ \A b \in Blocks :
            /\ charged[b].parent_index = ended[b].parent_index
            /\ charged[b].recursive_count = ended[b].recursive_count
            /\ charged[b].start_rdtsc = ended[b].start_rdtsc
            /\ charged[b].total_ticks = ended[b].total_ticks
            /\ charged[b].count = ended[b].count
  <2>1. CASE parent \in Blocks
    <3> DEFINE p == [ended[parent] EXCEPT !.children_ticks = @ + ended[index].total_ticks]
    <3>1. /\ p \in ProfileBlock
          /\ p.parent_index = ended[parent].parent_index
          /\ p.recursive_count = ended[parent].recursive_count
          /\ p.start_rdtsc = ended[parent].start_rdtsc
          /\ p.total_ticks = ended[parent].total_ticks
          /\ p.count = ended[parent].count
      BY <1>5, <2>1 DEF ProfileBlock
    <3>2. charged = [ended EXCEPT ![parent] = p]  OBVIOUS
    <3> HIDE DEF p, parent
    <3> QED  BY <1>5, <2>1, <3>1, <3>2
  <2>2. CASE parent \notin Blocks
    <3>1. charged = ended  BY <1>5, <2>2
    <3> QED  BY <1>5, <3>1
  <2> QED  BY <2>1, <2>2
<1> HIDE DEF charged
<1> QED  BY <1>5, <1>6, <1>7

-----------------------------------------------------------------------------
(* The steps.                                                              *)

LEMMA InitInv == Init => ProfilerInv
<1> SUFFICES ASSUME Init PROVE ProfilerInv  OBVIOUS
<1> USE DEF Init
<1>1. TypeOK  BY ProfilerAssumption DEF TypeOK, ProfileBlock
<1>2. DOMAIN calls = {}  OBVIOUS
<1>3. ProfileIndexFollowsCalls  BY <1>2 DEF ProfileIndexFollowsCalls, Innermost
<1>4. \A b : OpenCalls(b) = {}  BY <1>2 DEF OpenCalls
<1>5. RecursionIsCounted  BY <1>4 DEF RecursionIsCounted
<1>6. CallsAreRuns /\ StartedBefore
  BY <1>2, ProfilerAssumption DEF CallsAreRuns, StartedBefore
<1> QED  BY <1>1, <1>3, <1>5, <1>6 DEF ProfilerInv

\* The client calls an index: its position extends the run of the block, if the block
\* is open, or starts one.
LEMMA CallKeepsRuns ==
    ASSUME TypeOK, CallsAreRuns, NEW index \in Blocks, Calls(index)
    PROVE  CallsAreRuns' /\ made' \in [Blocks -> Nat] /\ phase' = phase
<1>1. calls' = Append(calls, index) /\ calls \in Seq(Blocks)  BY DEF Calls, TypeOK
<1>2. IsOpen(index) => Innermost = index  BY DEF Calls
<1>3. ASSUME NEW j \in DOMAIN calls', NEW k \in DOMAIN calls', j < k, calls'[j] = calls'[k]
      PROVE  calls'[k - 1] = calls'[k]
  <2>1. CASE k \in 1..Len(calls)
    <3>1. j \in 1..Len(calls) /\ k - 1 \in 1..Len(calls)  BY <1>1, <1>3, <2>1, CallOpens
    <3>2. calls[j] = calls[k]  BY <1>1, <1>3, <2>1, <3>1, CallOpens
    <3>3. calls[k - 1] = calls[k]  BY <1>1, <1>3, <2>1, <3>1, <3>2, CallOpens DEF CallsAreRuns
    <3> QED  BY <1>1, <2>1, <3>1, <3>3, CallOpens
  <2>2. CASE k = Len(calls) + 1
    <3>1. j \in 1..Len(calls) /\ Len(calls) \in Nat  BY <1>1, <1>3, <2>2, CallOpens
    <3>2. calls[j] = index /\ j \in DOMAIN calls  BY <1>1, <1>3, <2>2, <3>1, CallOpens
    <3>3. Innermost = index  BY <1>2, <3>2 DEF IsOpen
    <3>4. Innermost = calls[Len(calls)]  BY <3>1, <3>2 DEF Innermost
    <3>5. calls'[Len(calls)] = index /\ calls'[k] = index
      BY <1>1, <2>2, <3>1, <3>3, <3>4, CallOpens
    <3> QED  BY <2>2, <3>1, <3>5
  <2>3. k \in 1..Len(calls) \/ k = Len(calls) + 1  BY <1>1, CallOpens
  <2> QED  BY <2>1, <2>2, <2>3
<1>4. CallsAreRuns'  BY <1>3 DEF CallsAreRuns
<1>5. made' \in [Blocks -> Nat] /\ phase' = phase
  <2>1. made \in [Blocks -> Nat] /\ made[index] + 1 \in Nat  BY DEF TypeOK
  <2> QED  BY <2>1 DEF Calls
<1> QED  BY <1>4, <1>5

\* The client returns: what is left of the stack still consists of runs.
LEMMA ReturnKeepsRuns ==
    ASSUME TypeOK, CallsAreRuns, NEW index, Returns(index)
    PROVE  CallsAreRuns'
<1>1. calls' = SubSeq(calls, 1, Len(calls) - 1) /\ calls \in Seq(Blocks) /\ calls # <<>>
  BY DEF Returns, TypeOK
<1>2. ASSUME NEW j \in DOMAIN calls', NEW k \in DOMAIN calls', j < k, calls'[j] = calls'[k]
      PROVE  calls'[k - 1] = calls'[k]
  <2>1. /\ j \in 1..(Len(calls) - 1) /\ k \in 1..(Len(calls) - 1)
        /\ k - 1 \in 1..(Len(calls) - 1) /\ j \in DOMAIN calls /\ k \in DOMAIN calls
    BY <1>1, <1>2, ReturnCloses
  <2>2. calls[j] = calls[k]  BY <1>1, <1>2, <2>1, ReturnCloses
  <2>3. calls[k - 1] = calls[k]  BY <1>2, <2>1, <2>2 DEF CallsAreRuns
  <2> QED  BY <1>1, <2>1, <2>3, ReturnCloses
<1> QED  BY <1>2 DEF CallsAreRuns

\* A block calls itself: it stays the innermost one, and is called once more.
LEMMA StartAgainInv ==
    ASSUME ProfilerInv, NEW index \in Blocks, StartAgain(index)
    PROVE  ProfilerInv'
<1> USE DEF ProfilerInv
<1> DEFINE n == profile_data[index].recursive_count + 1
<1>1. /\ calls \in Seq(Blocks) /\ calls' = Append(calls, index)
      /\ profile_data \in [Blocks -> ProfileBlock]
      /\ index = profile_index /\ profile_index' = profile_index /\ tsc' = tsc
      /\ profile_index = Innermost
      /\ profile_program_start' = profile_program_start
      /\ profile_program_end' = profile_program_end
  BY DEF TypeOK, StartAgain, Calls, ProfileIndexFollowsCalls
<1>2. n \in Nat  BY <1>1, BlockType
<1>3. profile_data' = [profile_data EXCEPT ![index].recursive_count = n]
  BY DEF StartAgain
<1> HIDE DEF n
<1>4. /\ profile_data' \in [Blocks -> ProfileBlock]
      /\ \A b \in Blocks :
            /\ profile_data'[b].parent_index = profile_data[b].parent_index
            /\ profile_data'[b].start_rdtsc = profile_data[b].start_rdtsc
            /\ b # index => profile_data'[b] = profile_data[b]
      /\ profile_data'[index].recursive_count = n
  BY <1>1, <1>2, <1>3, CountChanged
<1>5. CallsAreRuns' /\ made' \in [Blocks -> Nat] /\ phase' = phase
  BY CallKeepsRuns DEF StartAgain
<1>6. TypeOK'  BY <1>1, <1>4, <1>5, CallOpens DEF TypeOK
<1>7. StartedBefore'  BY <1>1, <1>4 DEF StartedBefore
<1>8. calls # <<>> /\ calls[Len(calls)] = index
  BY <1>1, NoBlockIsNone DEF Innermost
<1>9. ProfileIndexFollowsCalls'
  <2>1. profile_index' = Innermost'  BY <1>1, CallOpens
  <2>2. ASSUME NEW k \in DOMAIN calls'
        PROVE  IF k = 1 THEN profile_data'[calls'[k]].parent_index = NoBlock
               ELSE \/ calls'[k] = calls'[k - 1]
                    \/ profile_data'[calls'[k]].parent_index = calls'[k - 1]
    <3>1. CASE k \in 1..Len(calls)
      <4>1. /\ k \in DOMAIN calls /\ calls'[k] = calls[k] /\ calls[k] \in Blocks
            /\ k # 1 => calls'[k - 1] = calls[k - 1]
        BY <1>1, <3>1, CallOpens
      <4>2. profile_data'[calls'[k]].parent_index = profile_data[calls[k]].parent_index
        BY <1>4, <4>1
      <4> QED  BY <4>1, <4>2 DEF ProfileIndexFollowsCalls
    <3>2. CASE k = Len(calls) + 1
      <4>1. Len(calls) \in Nat \ {0}  BY <1>1, <1>8, EmptySeq
      <4>2. k # 1 /\ k - 1 = Len(calls) /\ calls'[k] = index /\ calls'[k - 1] = index
        BY <1>1, <1>8, <3>2, <4>1, CallOpens
      <4> QED  BY <4>2
    <3> QED  BY <1>1, <3>1, <3>2, CallOpens
  <2> QED  BY <2>1, <2>2 DEF ProfileIndexFollowsCalls
<1>10. RecursionIsCounted'
  <2>1. ASSUME NEW b \in Blocks
        PROVE  profile_data'[b].recursive_count
                  = IF OpenCalls(b)' = {} THEN 0 ELSE Cardinality(OpenCalls(b)') - 1
    <3>1. CASE b # index
      <4>1. OpenCalls(b)' = OpenCalls(b)  BY <1>1, <3>1, CallOpens
      <4>2. profile_data'[b] = profile_data[b]  BY <1>4, <3>1
      <4> QED  BY <4>1, <4>2 DEF RecursionIsCounted
    <3>2. CASE b = index
      <4>1. Len(calls) \in Nat \ {0} /\ DOMAIN calls = 1..Len(calls)
        BY <1>1, <1>8, EmptySeq, LenProperties
      <4>2. Len(calls) \in OpenCalls(b) /\ Len(calls) + 1 \notin OpenCalls(b)
        BY <1>8, <3>2, <4>1 DEF OpenCalls
      <4>3. OpenCalls(b)' = OpenCalls(b) \cup {Len(calls) + 1}  BY <1>1, <3>2, CallOpens
      <4>4. /\ IsFiniteSet(OpenCalls(b)) /\ Cardinality(OpenCalls(b)) \in Nat
        BY <1>1, OpenCallsFinite
      <4>5. Cardinality(OpenCalls(b)') = Cardinality(OpenCalls(b)) + 1
        <5>1. Cardinality(OpenCalls(b) \cup {Len(calls) + 1}) = Cardinality(OpenCalls(b)) + 1
          BY <4>2, <4>4, FS_AddElement
        <5> QED  BY <4>3, <5>1
      <4>6. profile_data[b].recursive_count = Cardinality(OpenCalls(b)) - 1
        BY <4>2 DEF RecursionIsCounted
      <4>7. profile_data'[b].recursive_count = Cardinality(OpenCalls(b)) - 1 + 1
        BY <1>4, <3>2, <4>6 DEF n
      <4> QED  BY <4>3, <4>4, <4>5, <4>7
    <3> QED  BY <3>1, <3>2
  <2> QED  BY <2>1 DEF RecursionIsCounted
<1> QED  BY <1>5, <1>6, <1>7, <1>9, <1>10

\* A block is entered from another one, which becomes its parent; it was not open.
LEMMA StartBlockInv ==
    ASSUME ProfilerInv, NEW index \in Blocks, NEW bytes \in ByteCounts,
           StartBlock(index, bytes)
    PROVE  ProfilerInv'
<1> USE DEF ProfilerInv
<1>1. /\ calls \in Seq(Blocks) /\ calls' = Append(calls, index)
      /\ profile_data \in [Blocks -> ProfileBlock] /\ tsc \in Nat
      /\ index # profile_index /\ profile_index' = index
      /\ profile_index = Innermost /\ profile_index \in Blocks \cup {NoBlock}
      /\ IsOpen(index) => Innermost = index
      /\ profile_program_start' = profile_program_start
      /\ profile_program_end' = profile_program_end
  BY DEF TypeOK, StartBlock, Calls, ProfileIndexFollowsCalls
<1>2. tsc' \in Nat /\ tsc' >= tsc
  BY <1>1, ProfilerAssumption DEF StartBlock, ReadTicks
<1>3. /\ profile_data' \in [Blocks -> ProfileBlock]
      /\ \A b \in Blocks :
            /\ profile_data'[b].recursive_count = profile_data[b].recursive_count
            /\ b # index => profile_data'[b] = profile_data[b]
      /\ profile_data'[index].parent_index = profile_index
      /\ profile_data'[index].start_rdtsc = tsc'
  <2>1. bytes \in Nat  BY ProfilerAssumption
  <2> QED  BY <1>1, <1>2, <2>1, BlockStarted
<1>4. CallsAreRuns' /\ made' \in [Blocks -> Nat] /\ phase' = phase
  BY CallKeepsRuns DEF StartBlock
<1>5. ~IsOpen(index)  BY <1>1
<1>6. TypeOK'  BY <1>1, <1>2, <1>3, <1>4, CallOpens DEF TypeOK
<1>7. StartedBefore'
  <2>1. ASSUME NEW b \in Blocks PROVE profile_data'[b].start_rdtsc <= tsc'
    <3>1. CASE b = index  BY <1>2, <1>3, <3>1
    <3>2. CASE b # index
      <4>1. profile_data[b] \in ProfileBlock  BY <1>1
      <4>2. profile_data[b].start_rdtsc \in Nat  BY <4>1, BlockType
      <4>3. profile_data[b].start_rdtsc <= tsc  BY DEF StartedBefore
      <4> QED  BY <1>1, <1>2, <1>3, <3>2, <4>2, <4>3
    <3> QED  BY <3>1, <3>2
  <2> QED  BY <2>1 DEF StartedBefore
<1>8. ProfileIndexFollowsCalls'
  <2>1. profile_index' = Innermost'  BY <1>1, CallOpens
  <2>2. ASSUME NEW k \in DOMAIN calls'
        PROVE  IF k = 1 THEN profile_data'[calls'[k]].parent_index = NoBlock
               ELSE \/ calls'[k] = calls'[k - 1]
                    \/ profile_data'[calls'[k]].parent_index = calls'[k - 1]
    <3>1. CASE k \in 1..Len(calls)
      <4>1. /\ k \in DOMAIN calls /\ calls'[k] = calls[k] /\ calls[k] \in Blocks
            /\ k # 1 => calls'[k - 1] = calls[k - 1]
        BY <1>1, <3>1, CallOpens
      <4>2. calls[k] # index  BY <1>5, <4>1 DEF IsOpen
      <4>3. profile_data'[calls'[k]] = profile_data[calls[k]]  BY <1>3, <4>1, <4>2
      <4> QED  BY <4>1, <4>3 DEF ProfileIndexFollowsCalls
    <3>2. CASE k = Len(calls) + 1
      <4>1. calls'[k] = index /\ Len(calls) \in Nat  BY <1>1, <3>2, CallOpens
      <4>2. profile_data'[calls'[k]].parent_index = Innermost  BY <1>1, <1>3, <4>1
      <4>3. CASE calls = <<>>
        <5>1. Len(calls) = 0  BY <4>3
        <5> QED  BY <3>2, <4>2, <4>3, <5>1 DEF Innermost
      <4>4. CASE calls # <<>>
        <5>1. Len(calls) \in Nat \ {0}  BY <1>1, <4>4, EmptySeq
        <5>2. k # 1 /\ k - 1 = Len(calls) /\ k - 1 \in 1..Len(calls)  BY <3>2, <5>1
        <5>3. calls'[k - 1] = calls[Len(calls)]  BY <1>1, <5>2, CallOpens
        <5> QED  BY <4>2, <4>4, <5>2, <5>3 DEF Innermost
      <4> QED  BY <4>3, <4>4
    <3>3. k \in 1..Len(calls) \/ k = Len(calls) + 1  BY <1>1, CallOpens
    <3> QED  BY <3>1, <3>2, <3>3
  <2> QED  BY <2>1, <2>2 DEF ProfileIndexFollowsCalls
<1>9. RecursionIsCounted'
  <2>1. ASSUME NEW b \in Blocks
        PROVE  profile_data'[b].recursive_count
                  = IF OpenCalls(b)' = {} THEN 0 ELSE Cardinality(OpenCalls(b)') - 1
    <3>1. CASE b # index
      <4>1. OpenCalls(b)' = OpenCalls(b)  BY <1>1, <3>1, CallOpens
      <4> QED  BY <1>3, <4>1 DEF RecursionIsCounted
    <3>2. CASE b = index
      <4>1. OpenCalls(b) = {}  BY <1>5, <3>2 DEF IsOpen, OpenCalls
      <4>2. OpenCalls(b)' = {Len(calls) + 1}  BY <1>1, <3>2, <4>1, CallOpens
      <4>3. Cardinality(OpenCalls(b)') = 1 /\ OpenCalls(b)' # {}  BY <4>2, FS_Singleton
      <4>4. profile_data'[b].recursive_count = 0
        BY <1>3, <4>1 DEF RecursionIsCounted
      <4> QED  BY <4>3, <4>4
    <3> QED  BY <3>1, <3>2
  <2> QED  BY <2>1 DEF RecursionIsCounted
<1> QED  BY <1>4, <1>6, <1>7, <1>8, <1>9

\* What the count of the innermost block says about its caller: it is the block itself
\* if and only if the count is not zero.
LEMMA CountTellsCaller ==
    ASSUME ProfilerInv, calls # <<>>
    PROVE  LET n == Len(calls)
               count == profile_data[Innermost].recursive_count
           IN  /\ n \in Nat \ {0} /\ Innermost = calls[n] /\ Innermost \in Blocks
               /\ count # 0 => n > 1 /\ calls[n - 1] = calls[n]
               /\ count = 0 => OpenCalls(Innermost) = {n}
<1> USE DEF ProfilerInv
<1> DEFINE n == Len(calls)
           count == profile_data[Innermost].recursive_count
<1>1. calls \in Seq(Blocks)  BY DEF TypeOK
<1>2. n \in Nat \ {0} /\ DOMAIN calls = 1..n  BY <1>1, EmptySeq, LenProperties
<1>3. Innermost = calls[n] /\ Innermost \in Blocks
  BY <1>1, <1>2, ElementOfSeq DEF Innermost
<1>4. n \in OpenCalls(Innermost)  BY <1>2, <1>3 DEF OpenCalls
<1>5. /\ IsFiniteSet(OpenCalls(Innermost))
      /\ Cardinality(OpenCalls(Innermost)) \in Nat
  BY <1>1, OpenCallsFinite
<1>6. count = Cardinality(OpenCalls(Innermost)) - 1
  BY <1>3, <1>4 DEF RecursionIsCounted
<1> HIDE DEF n, count
<1>7. ASSUME count # 0 PROVE n > 1 /\ calls[n - 1] = calls[n]
  <2>1. OpenCalls(Innermost) # {n}
    <3>1. Cardinality({n}) = 1  BY FS_Singleton
    <3>2. Cardinality(OpenCalls(Innermost)) # 1  BY <1>5, <1>6, <1>7
    <3> QED  BY <3>1, <3>2
  <2>2. PICK j \in OpenCalls(Innermost) : j # n  BY <1>4, <2>1
  <2>3. j \in 1..n /\ j < n /\ calls[j] = calls[n]
    BY <1>2, <1>3, <2>2 DEF OpenCalls
  <2>4. j \in DOMAIN calls /\ n \in DOMAIN calls  BY <1>2, <2>3
  <2>5. calls[n - 1] = calls[n]  BY <2>3, <2>4 DEF CallsAreRuns
  <2> QED  BY <1>2, <2>3, <2>5
<1>8. ASSUME count = 0 PROVE OpenCalls(Innermost) = {n}
  <2>1. Cardinality(OpenCalls(Innermost)) = 1  BY <1>5, <1>6, <1>8
  <2>2. PICK x : OpenCalls(Innermost) = {x}  BY <1>5, <2>1, FS_Singleton
  <2> QED  BY <1>4, <2>2
<1> QED  BY <1>2, <1>3, <1>7, <1>8 DEF n, count

\* A call of a block to itself returns: the block stays the innermost one.
LEMMA EndAgainInv ==
    ASSUME ProfilerInv, NEW index \in Blocks, EndAgain(index)
    PROVE  ProfilerInv'
<1> USE DEF ProfilerInv
<1> DEFINE n == profile_data[index].recursive_count - 1
<1>1. /\ calls \in Seq(Blocks) /\ calls # <<>>
      /\ calls' = SubSeq(calls, 1, Len(calls) - 1)
      /\ profile_data \in [Blocks -> ProfileBlock]
      /\ index = Innermost /\ profile_data[index].recursive_count # 0
      /\ profile_index' = profile_index /\ tsc' = tsc
      /\ profile_index = Innermost
      /\ profile_program_start' = profile_program_start
      /\ profile_program_end' = profile_program_end
      /\ made' = made /\ phase' = phase
  BY DEF TypeOK, EndAgain, Returns, ProfileIndexFollowsCalls
<1>2. profile_data[index].recursive_count \in Nat
  <2>1. profile_data[index] \in ProfileBlock  BY <1>1
  <2> QED  BY <2>1, BlockType
<1>3. n \in Nat /\ profile_data' = [profile_data EXCEPT ![index].recursive_count = n]
  BY <1>1, <1>2 DEF EndAgain
<1> HIDE DEF n
<1>4. /\ profile_data' \in [Blocks -> ProfileBlock]
      /\ \A b \in Blocks :
            /\ profile_data'[b].parent_index = profile_data[b].parent_index
            /\ profile_data'[b].start_rdtsc = profile_data[b].start_rdtsc
            /\ b # index => profile_data'[b] = profile_data[b]
      /\ profile_data'[index].recursive_count = n
  BY <1>1, <1>3, CountChanged
<1>5. CallsAreRuns'  BY ReturnKeepsRuns DEF EndAgain
<1>6. TypeOK'  BY <1>1, <1>4, ReturnCloses DEF TypeOK
<1>7. StartedBefore'  BY <1>1, <1>4 DEF StartedBefore
<1>8. /\ Len(calls) \in Nat /\ Len(calls) > 1 /\ calls[Len(calls)] = index
      /\ calls[Len(calls) - 1] = index
  BY <1>1, CountTellsCaller
<1>9. ProfileIndexFollowsCalls'
  <2>1. profile_index' = Innermost'
    <3>1. Len(calls') = Len(calls) - 1 /\ calls'[Len(calls) - 1] = index
      BY <1>1, <1>8, ReturnCloses
    <3>2. calls' # <<>>  BY <1>8, <3>1
    <3> QED  BY <1>1, <3>1, <3>2 DEF Innermost
  <2>2. ASSUME NEW k \in DOMAIN calls'
        PROVE  IF k = 1 THEN profile_data'[calls'[k]].parent_index = NoBlock
               ELSE \/ calls'[k] = calls'[k - 1]
                    \/ profile_data'[calls'[k]].parent_index = calls'[k - 1]
    <3>1. /\ k \in DOMAIN calls /\ calls'[k] = calls[k] /\ calls[k] \in Blocks
          /\ k # 1 => calls'[k - 1] = calls[k - 1]
      BY <1>1, ReturnCloses
    <3>2. profile_data'[calls'[k]].parent_index = profile_data[calls[k]].parent_index
      BY <1>4, <3>1
    <3> QED  BY <3>1, <3>2 DEF ProfileIndexFollowsCalls
  <2> QED  BY <2>1, <2>2 DEF ProfileIndexFollowsCalls
<1>10. RecursionIsCounted'
  <2>1. ASSUME NEW b \in Blocks
        PROVE  profile_data'[b].recursive_count
                  = IF OpenCalls(b)' = {} THEN 0 ELSE Cardinality(OpenCalls(b)') - 1
    <3>1. CASE b # index
      <4>1. OpenCalls(b)' = OpenCalls(b)  BY <1>1, <3>1, ReturnCloses
      <4>2. profile_data'[b] = profile_data[b]  BY <1>4, <3>1
      <4> QED  BY <4>1, <4>2 DEF RecursionIsCounted
    <3>2. CASE b = index
      <4>1. OpenCalls(b)' = OpenCalls(b) \ {Len(calls)}
        BY <1>1, <1>8, <3>2, ReturnCloses DEF OpenCalls
      <4>2. /\ Len(calls) \in OpenCalls(b) /\ Len(calls) - 1 \in OpenCalls(b)
            /\ Len(calls) - 1 # Len(calls)
        <5>1. DOMAIN calls = 1..Len(calls)  BY <1>1, LenProperties
        <5>2. Len(calls) \in DOMAIN calls /\ Len(calls) - 1 \in DOMAIN calls  BY <1>8, <5>1
        <5> QED  BY <1>8, <3>2, <5>2 DEF OpenCalls
      <4>3. OpenCalls(b)' # {}  BY <4>1, <4>2
      <4>4. IsFiniteSet(OpenCalls(b)) /\ Cardinality(OpenCalls(b)) \in Nat
        BY <1>1, OpenCallsFinite
      <4>5. Cardinality(OpenCalls(b)') = Cardinality(OpenCalls(b)) - 1
        <5>1. Cardinality(OpenCalls(b) \ {Len(calls)}) = Cardinality(OpenCalls(b)) - 1
          BY <4>2, <4>4, FS_RemoveElement
        <5> QED  BY <4>1, <5>1
      <4>6. profile_data[b].recursive_count = Cardinality(OpenCalls(b)) - 1
        BY <4>2 DEF RecursionIsCounted
      <4>7. profile_data'[b].recursive_count = profile_data[b].recursive_count - 1
        BY <1>4, <3>2 DEF n
      <4> QED  BY <4>3, <4>4, <4>5, <4>6, <4>7
    <3> QED  BY <3>1, <3>2
  <2> QED  BY <2>1 DEF RecursionIsCounted
<1> QED  BY <1>5, <1>6, <1>7, <1>9, <1>10

\* The outermost call of a block returns: the parent, which is the caller or none,
\* becomes the innermost block again.
LEMMA EndBlockInv ==
    ASSUME ProfilerInv, NEW index \in Blocks, EndBlock(index)
    PROVE  ProfilerInv'
<1> USE DEF ProfilerInv
<1>1. /\ calls \in Seq(Blocks) /\ calls # <<>>
      /\ calls' = SubSeq(calls, 1, Len(calls) - 1)
      /\ profile_data \in [Blocks -> ProfileBlock] /\ tsc \in Nat
      /\ index = Innermost /\ profile_data[index].recursive_count = 0
      /\ profile_index' = profile_data[index].parent_index
      /\ profile_program_start' = profile_program_start
      /\ profile_program_end' = profile_program_end
      /\ made' = made /\ phase' = phase
  BY DEF TypeOK, EndBlock, Returns
<1>2. tsc' \in Nat /\ tsc' >= tsc
  BY <1>1, ProfilerAssumption DEF EndBlock, ReadTicks
<1>3. \A b \in Blocks : profile_data[b].start_rdtsc \in Nat /\ profile_data[b].start_rdtsc <= tsc'
  <2>1. ASSUME NEW b \in Blocks
        PROVE  profile_data[b].start_rdtsc \in Nat /\ profile_data[b].start_rdtsc <= tsc'
    <3>1. profile_data[b] \in ProfileBlock  BY <1>1
    <3>2. profile_data[b].start_rdtsc \in Nat  BY <3>1, BlockType
    <3>3. profile_data[b].start_rdtsc <= tsc  BY DEF StartedBefore
    <3> QED  BY <1>1, <1>2, <3>2, <3>3
  <2> QED  BY <2>1
<1>4. /\ profile_data' \in [Blocks -> ProfileBlock]
      /\ \A b \in Blocks :
            /\ profile_data'[b].parent_index = profile_data[b].parent_index
            /\ profile_data'[b].recursive_count = profile_data[b].recursive_count
            /\ profile_data'[b].start_rdtsc \in {0, profile_data[b].start_rdtsc}
  BY <1>1, <1>2, <1>3, BlockEnded
<1>5. CallsAreRuns'  BY ReturnKeepsRuns DEF EndBlock
<1>6. /\ Len(calls) \in Nat \ {0} /\ calls[Len(calls)] = index
      /\ DOMAIN calls = 1..Len(calls)
      /\ OpenCalls(index) = {Len(calls)}
  BY <1>1, CountTellsCaller, LenProperties
<1>7. profile_data[index].parent_index
        = IF Len(calls) = 1 THEN NoBlock ELSE calls[Len(calls) - 1]
  <2>1. Len(calls) \in DOMAIN calls  BY <1>6
  <2>2. CASE Len(calls) = 1
    BY <1>6, <2>1, <2>2 DEF ProfileIndexFollowsCalls
  <2>3. CASE Len(calls) # 1
    <3>1. Len(calls) - 1 \in DOMAIN calls /\ Len(calls) - 1 # Len(calls)
      <4>1. \A n \in Nat \ {0} : n # 1 => n - 1 \in 1..n /\ n - 1 # n  OBVIOUS
      <4> QED  BY <1>6, <2>3, <4>1
    <3>2. calls[Len(calls) - 1] # index  BY <1>6, <3>1 DEF OpenCalls
    <3> QED  BY <1>6, <2>1, <2>3, <3>2 DEF ProfileIndexFollowsCalls
  <2> QED  BY <2>2, <2>3
<1>8. profile_index' = Innermost'
  <2>1. Len(calls') = Len(calls) - 1  BY <1>1, ReturnCloses
  <2>2. CASE Len(calls) = 1
    <3>1. calls' = <<>>
      <4>1. Len(calls') = 0  BY <2>1, <2>2
      <4>2. calls' \in Seq(Blocks)  BY <1>1, ReturnCloses
      <4> QED  BY <4>1, <4>2, EmptySeq
    <3> QED  BY <1>1, <1>7, <2>2, <3>1 DEF Innermost
  <2>3. CASE Len(calls) # 1
    <3>1. calls' # <<>>  BY <1>6, <2>1, <2>3
    <3>2. Len(calls) - 1 \in 1..(Len(calls) - 1)  BY <1>6, <2>3
    <3>3. calls'[Len(calls')] = calls[Len(calls) - 1]  BY <1>1, <2>1, <3>2, ReturnCloses
    <3> QED  BY <1>1, <1>7, <2>3, <3>1, <3>3 DEF Innermost
  <2> QED  BY <2>2, <2>3
<1>9. profile_index' \in Blocks \cup {NoBlock}
  <2>1. CASE Len(calls) = 1  BY <1>1, <1>7, <2>1
  <2>2. CASE Len(calls) # 1
    <3>1. Len(calls) - 1 \in 1..Len(calls)  BY <1>6, <2>2
    <3>2. calls[Len(calls) - 1] \in Blocks  BY <1>1, <3>1, ElementOfSeq
    <3> QED  BY <1>1, <1>7, <2>2, <3>2
  <2> QED  BY <2>1, <2>2
<1>10. TypeOK'  BY <1>1, <1>2, <1>4, <1>9, ReturnCloses DEF TypeOK
<1>11. StartedBefore'
  <2>1. ASSUME NEW b \in Blocks PROVE profile_data'[b].start_rdtsc <= tsc'
    BY <1>2, <1>3, <1>4
  <2> QED  BY <2>1 DEF StartedBefore
<1>12. ProfileIndexFollowsCalls'
  <2>1. ASSUME NEW k \in DOMAIN calls'
        PROVE  IF k = 1 THEN profile_data'[calls'[k]].parent_index = NoBlock
               ELSE \/ calls'[k] = calls'[k - 1]
                    \/ profile_data'[calls'[k]].parent_index = calls'[k - 1]
    <3>1. /\ k \in DOMAIN calls /\ calls'[k] = calls[k] /\ calls[k] \in Blocks
          /\ k # 1 => calls'[k - 1] = calls[k - 1]
      BY <1>1, ReturnCloses
    <3>2. profile_data'[calls'[k]].parent_index = profile_data[calls[k]].parent_index
      BY <1>4, <3>1
    <3> QED  BY <3>1, <3>2 DEF ProfileIndexFollowsCalls
  <2> QED  BY <1>8, <2>1 DEF ProfileIndexFollowsCalls
<1>13. RecursionIsCounted'
  <2>1. ASSUME NEW b \in Blocks
        PROVE  profile_data'[b].recursive_count
                  = IF OpenCalls(b)' = {} THEN 0 ELSE Cardinality(OpenCalls(b)') - 1
    <3>1. CASE b # index
      <4>1. OpenCalls(b)' = OpenCalls(b)  BY <1>1, <3>1, ReturnCloses
      <4> QED  BY <1>4, <4>1 DEF RecursionIsCounted
    <3>2. CASE b = index
      <4>1. \A k \in DOMAIN calls' : calls'[k] # index
        <5> SUFFICES ASSUME NEW k \in DOMAIN calls', calls'[k] = index PROVE FALSE
          OBVIOUS
        <5>1. k \in 1..(Len(calls) - 1) /\ k \in DOMAIN calls /\ calls[k] = index
          BY <1>1, ReturnCloses
        <5>2. k \in OpenCalls(index)  BY <5>1 DEF OpenCalls
        <5> QED  BY <1>6, <5>1, <5>2
      <4>2. OpenCalls(b)' = {}  BY <3>2, <4>1 DEF OpenCalls
      <4> QED  BY <1>1, <1>4, <3>2, <4>2
    <3> QED  BY <3>1, <3>2
  <2> QED  BY <2>1 DEF RecursionIsCounted
<1> QED  BY <1>5, <1>10, <1>11, <1>12, <1>13

\* The steps that leave the blocks and the call stack alone.
LEMMA OtherInv ==
    ASSUME ProfilerInv, UNCHANGED <<profile_index, profile_data, calls, made>>,
           tsc' \in Nat, tsc' >= tsc,
           profile_program_start' \in Nat, profile_program_end' \in Nat,
           phase' \in {"before", "running", "after"}
    PROVE  ProfilerInv'
<1> USE DEF ProfilerInv
<1>1. TypeOK'  BY DEF TypeOK
<1>2. Innermost' = Innermost /\ \A b : OpenCalls(b)' = OpenCalls(b)
  BY DEF Innermost, OpenCalls
<1>3. ProfileIndexFollowsCalls' /\ RecursionIsCounted' /\ CallsAreRuns'
  BY <1>2 DEF ProfileIndexFollowsCalls, RecursionIsCounted, CallsAreRuns
<1>4. StartedBefore'
  <2>1. ASSUME NEW b \in Blocks PROVE profile_data[b].start_rdtsc <= tsc'
    <3>1. profile_data[b] \in ProfileBlock /\ tsc \in Nat  BY DEF TypeOK
    <3>2. profile_data[b].start_rdtsc \in Nat  BY <3>1, BlockType
    <3>3. profile_data[b].start_rdtsc <= tsc  BY DEF StartedBefore
    <3> QED  BY <3>1, <3>2, <3>3
  <2> QED  BY <2>1 DEF StartedBefore
<1> QED  BY <1>1, <1>3, <1>4

LEMMA NextInv == ProfilerInv /\ [Next]_vars => ProfilerInv'
<1> SUFFICES ASSUME ProfilerInv, [Next]_vars PROVE ProfilerInv'  OBVIOUS
<1>1. /\ tsc \in Nat /\ profile_program_start \in Nat /\ profile_program_end \in Nat
      /\ phase \in {"before", "running", "after"}
  BY DEF ProfilerInv, TypeOK
<1>2. CASE TAG_PROGRAM_START
  <2>1. tsc' \in Nat /\ tsc' >= tsc
    BY <1>1, <1>2, ProfilerAssumption DEF TAG_PROGRAM_START, ReadTicks
  <2> QED  BY <1>1, <1>2, <2>1, OtherInv DEF TAG_PROGRAM_START
<1>3. CASE TAG_PROGRAM_END
  <2>1. tsc' \in Nat /\ tsc' >= tsc
    BY <1>1, <1>3, ProfilerAssumption DEF TAG_PROGRAM_END, ReadTicks
  <2> QED  BY <1>1, <1>3, <2>1, OtherInv DEF TAG_PROGRAM_END
<1>4. ASSUME NEW index \in Blocks, NEW bytes \in ByteCounts,
             TAG_DATA_BLOCK_START(index, bytes)
      PROVE  ProfilerInv'
  BY <1>4, StartAgainInv, StartBlockInv DEF TAG_DATA_BLOCK_START
<1>5. ASSUME NEW index \in Blocks, TAG_BLOCK_END(index) PROVE ProfilerInv'
  BY <1>5, EndAgainInv, EndBlockInv DEF TAG_BLOCK_END
<1>6. CASE UNCHANGED vars
  <2>1. tsc' >= tsc  BY <1>1, <1>6 DEF vars
  <2> QED  BY <1>1, <1>6, <2>1, OtherInv DEF vars
<1> QED  BY <1>2, <1>3, <1>4, <1>5, <1>6 DEF Next, Ended

LEMMA SpecInv == Spec => []ProfilerInv
  BY InitInv, NextInv, PTL DEF Spec

\* The type invariant: no count goes below zero and no time is negative, whatever the
\* nesting and the recursion of the client.
THEOREM ProfilerTypeCorrect == Spec => []TypeOK
<1>1. ProfilerInv => TypeOK  BY DEF ProfilerInv
<1> QED  BY <1>1, SpecInv, PTL

\* The index and the parents the profiler keeps are the client's call stack.
THEOREM ProfilerIndexFollowsCalls == Spec => []ProfileIndexFollowsCalls
<1>1. ProfilerInv => ProfileIndexFollowsCalls  BY DEF ProfilerInv
<1> QED  BY <1>1, SpecInv, PTL

\* The recursion count of every block is the number of its open calls to itself.
THEOREM ProfilerRecursionIsCounted == Spec => []RecursionIsCounted
<1>1. ProfilerInv => RecursionIsCounted  BY DEF ProfilerInv
<1> QED  BY <1>1, SpecInv, PTL

-----------------------------------------------------------------------------
(* The ticks.                                                              *)

\* A total grows by the time since the block's start when the block ends, so up to
\* then it lies before that start.
NothingBefore ==
    /\ profile_program_start <= tsc
    /\ phase = "before" =>
          calls = <<>> /\ \A b \in Blocks : profile_data[b].total_ticks = 0
StartsInOrder ==
    \A k \in DOMAIN calls :
        /\ profile_program_start <= profile_data[calls[k]].start_rdtsc
        /\ \A j \in 1..k : profile_data[calls[j]].start_rdtsc
                              <= profile_data[calls[k]].start_rdtsc
TotalsFit ==
    \A b \in Blocks : phase # "before" =>
        profile_data[b].total_ticks
            <= (IF IsOpen(b) THEN profile_data[b].start_rdtsc ELSE tsc) - profile_program_start
EndFits ==
    phase = "after" =>
        \A b \in Blocks : profile_data[b].total_ticks
                             <= profile_program_end - profile_program_start
TicksInv == NothingBefore /\ StartsInOrder /\ TotalsFit /\ EndFits

LEMMA BlocksAreTyped ==
    ASSUME ProfilerInv
    PROVE  /\ tsc \in Nat /\ profile_program_start \in Nat /\ profile_program_end \in Nat
           /\ calls \in Seq(Blocks)
           /\ \A b \in Blocks : /\ profile_data[b].start_rdtsc \in Nat
                                /\ profile_data[b].total_ticks \in Nat
                                /\ profile_data[b].start_rdtsc <= tsc
<1>1. profile_data \in [Blocks -> ProfileBlock]  BY DEF ProfilerInv, TypeOK
<1>2. \A b \in Blocks : profile_data[b] \in ProfileBlock  BY <1>1
<1> QED  BY <1>2, BlockType DEF ProfilerInv, TypeOK, StartedBefore

LEMMA TicksInit == Init => TicksInv
<1> SUFFICES ASSUME Init PROVE TicksInv  OBVIOUS
<1> USE DEF Init
<1>1. DOMAIN calls = {} /\ tsc \in Nat  BY ProfilerAssumption
<1> QED  BY <1>1 DEF TicksInv, NothingBefore, StartsInOrder, TotalsFit, EndFits

\* A call of the innermost block to itself opens no block and moves no time.
LEMMA StartAgainTicks ==
    ASSUME ProfilerInv, TicksInv, NEW index \in Blocks, StartAgain(index)
    PROVE  TicksInv'
<1>1. /\ calls \in Seq(Blocks) /\ calls' = Append(calls, index)
      /\ profile_data \in [Blocks -> ProfileBlock]
      /\ index = profile_index /\ profile_index = Innermost
      /\ phase = "running" /\ phase' = phase /\ tsc' = tsc
      /\ profile_program_start' = profile_program_start
  BY DEF ProfilerInv, TypeOK, ProfileIndexFollowsCalls, StartAgain, Calls
<1>2. \A b \in Blocks : /\ profile_data'[b].start_rdtsc = profile_data[b].start_rdtsc
                        /\ profile_data'[b].total_ticks = profile_data[b].total_ticks
  <2>1. profile_data[index].recursive_count + 1 \in Nat
    <3>1. profile_data[index] \in ProfileBlock  BY <1>1
    <3> QED  BY <3>1, BlockType
  <2> QED  BY <1>1, <2>1, CountChanged DEF StartAgain
<1>3. /\ Len(calls) \in Nat \ {0} /\ DOMAIN calls = 1..Len(calls)
      /\ calls[Len(calls)] = index /\ Len(calls) \in DOMAIN calls
  BY <1>1, NoBlockIsNone, EmptySeq, LenProperties DEF Innermost
<1>4. ASSUME NEW k \in DOMAIN calls'
      PROVE  \E m \in DOMAIN calls : m <= k /\ calls'[k] = calls[m] /\ (k = m \/ m = Len(calls))
  BY <1>1, <1>3, CallOpens
<1>5. StartsInOrder'
  <2>1. ASSUME NEW k \in DOMAIN calls', NEW j \in 1..k
        PROVE  /\ profile_program_start' <= profile_data'[calls'[k]].start_rdtsc
               /\ profile_data'[calls'[j]].start_rdtsc <= profile_data'[calls'[k]].start_rdtsc
    <3>1. j \in DOMAIN calls'  BY <1>1, <2>1, CallOpens
    <3>2. PICK m \in DOMAIN calls :
            m <= k /\ calls'[k] = calls[m] /\ (k = m \/ m = Len(calls))
      BY <1>4
    <3>3. PICK i \in DOMAIN calls :
            i <= j /\ calls'[j] = calls[i] /\ (j = i \/ i = Len(calls))
      BY <1>4, <3>1
    <3>4. i \in 1..m  BY <1>3, <3>2, <3>3
    <3>5. calls[m] \in Blocks /\ calls[i] \in Blocks  BY <1>1, <3>2, <3>3
    <3> QED  BY <1>1, <1>2, <3>2, <3>3, <3>4, <3>5 DEF TicksInv, StartsInOrder
  <2>2. \A k \in DOMAIN calls' : 1 \in 1..k  BY <1>1, CallOpens
  <2> QED  BY <2>1, <2>2 DEF StartsInOrder
<1>6. \A b : IsOpen(b)' = IsOpen(b)
  <2>1. ASSUME NEW b, IsOpen(b)' PROVE IsOpen(b)  BY <1>4, <2>1 DEF IsOpen
  <2>2. ASSUME NEW b, IsOpen(b) PROVE IsOpen(b)'  BY <1>1, <2>2, CallOpens DEF IsOpen
  <2> QED  BY <2>1, <2>2 DEF IsOpen
<1>7. TotalsFit'  BY <1>1, <1>2, <1>6 DEF TicksInv, TotalsFit
<1> QED  BY <1>1, <1>5, <1>7 DEF TicksInv, NothingBefore, EndFits

\* A block starts now, after all that is open and all that it ran before.
LEMMA StartBlockTicks ==
    ASSUME ProfilerInv, TicksInv, NEW index \in Blocks, NEW bytes \in ByteCounts,
           StartBlock(index, bytes)
    PROVE  TicksInv'
<1>1. /\ calls \in Seq(Blocks) /\ calls' = Append(calls, index)
      /\ profile_data \in [Blocks -> ProfileBlock]
      /\ index # profile_index /\ profile_index = Innermost
      /\ profile_index \in Blocks \cup {NoBlock}
      /\ phase = "running" /\ phase' = phase
      /\ profile_program_start' = profile_program_start
  BY DEF ProfilerInv, TypeOK, ProfileIndexFollowsCalls, StartBlock, Calls
<1>2. tsc' \in Nat /\ tsc <= tsc'
  BY BlocksAreTyped, ProfilerAssumption DEF StartBlock, ReadTicks
<1>3. /\ \A b \in Blocks : /\ profile_data'[b].total_ticks = profile_data[b].total_ticks
                           /\ b # index => profile_data'[b] = profile_data[b]
      /\ profile_data'[index].start_rdtsc = tsc'
  <2>1. bytes \in Nat  BY ProfilerAssumption
  <2> QED  BY <1>1, <1>2, <2>1, BlockStarted
<1>4. \A k \in 1..Len(calls) : calls[k] # index
  <2>1. ~IsOpen(index)  BY <1>1 DEF StartBlock, Calls
  <2> QED  BY <1>1, <2>1, CallOpens DEF IsOpen
<1>5. ASSUME NEW k \in 1..Len(calls)
      PROVE  /\ k \in DOMAIN calls /\ calls'[k] = calls[k] /\ calls[k] \in Blocks
             /\ profile_data'[calls'[k]].start_rdtsc = profile_data[calls[k]].start_rdtsc
             /\ profile_data[calls[k]].start_rdtsc \in Nat
             /\ profile_data[calls[k]].start_rdtsc <= tsc'
  <2>1. k \in DOMAIN calls /\ calls'[k] = calls[k] /\ calls[k] \in Blocks
    BY <1>1, CallOpens
  <2> QED  BY <1>2, <1>3, <1>4, <2>1, BlocksAreTyped
<1>6. StartsInOrder'
  <2>1. ASSUME NEW k \in DOMAIN calls', NEW j \in 1..k
        PROVE  /\ profile_program_start' <= profile_data'[calls'[k]].start_rdtsc
               /\ profile_data'[calls'[j]].start_rdtsc <= profile_data'[calls'[k]].start_rdtsc
    <3>1. CASE k \in 1..Len(calls)
      <4>1. j \in 1..Len(calls)  BY <1>1, <3>1, CallOpens
      <4> QED  BY <1>1, <1>5, <3>1, <4>1 DEF TicksInv, StartsInOrder
    <3>2. CASE k = Len(calls) + 1
      <4>1. profile_data'[calls'[k]].start_rdtsc = tsc'  BY <1>1, <1>3, <3>2, CallOpens
      <4>2. profile_program_start' <= tsc'
        BY <1>1, <1>2, BlocksAreTyped DEF TicksInv, NothingBefore
      <4>3. j \in 1..Len(calls) \/ j = k  BY <1>1, <3>2, CallOpens
      <4> QED  BY <1>2, <1>5, <4>1, <4>2, <4>3
    <3> QED  BY <1>1, <3>1, <3>2, CallOpens
  <2>2. \A k \in DOMAIN calls' : 1 \in 1..k  BY <1>1, CallOpens
  <2> QED  BY <2>1, <2>2 DEF StartsInOrder
<1>7. TotalsFit'
  <2>1. ASSUME NEW b \in Blocks
        PROVE  profile_data'[b].total_ticks
                  <= (IF IsOpen(b)' THEN profile_data'[b].start_rdtsc ELSE tsc')
                        - profile_program_start'
    <3>1. CASE b = index
      <4>1. profile_data[b].total_ticks
              <= (IF IsOpen(b) THEN profile_data[b].start_rdtsc ELSE tsc)
                    - profile_program_start
        BY <1>1 DEF TicksInv, TotalsFit
      <4> QED  BY <1>1, <1>2, <1>3, <3>1, <4>1, BlocksAreTyped
    <3>2. CASE b # index
      <4>1. IsOpen(b)' = IsOpen(b)  BY <1>1, <3>2, CallOpens DEF IsOpen
      <4>2. profile_data[b].total_ticks
              <= (IF IsOpen(b) THEN profile_data[b].start_rdtsc ELSE tsc)
                    - profile_program_start
        BY <1>1 DEF TicksInv, TotalsFit
      <4>3. profile_data'[b] = profile_data[b]  BY <1>3, <3>2
      <4> QED  BY <1>1, <1>2, <4>1, <4>2, <4>3, BlocksAreTyped
    <3> QED  BY <3>1, <3>2
  <2> QED  BY <2>1 DEF TotalsFit
<1>8. NothingBefore'
  BY <1>1, <1>2, BlocksAreTyped DEF TicksInv, NothingBefore
<1> QED  BY <1>1, <1>6, <1>7, <1>8 DEF TicksInv, EndFits

\* What is left on the stack when a call returns keeps its place.
LEMMA EndAgainTicks ==
    ASSUME ProfilerInv, TicksInv, NEW index \in Blocks, EndAgain(index)
    PROVE  TicksInv'
<1>1. /\ calls \in Seq(Blocks) /\ calls # <<>>
      /\ calls' = SubSeq(calls, 1, Len(calls) - 1)
      /\ profile_data \in [Blocks -> ProfileBlock]
      /\ index = Innermost /\ profile_data[index].recursive_count # 0
      /\ phase = "running" /\ phase' = phase /\ tsc' = tsc
      /\ profile_program_start' = profile_program_start
  BY DEF ProfilerInv, TypeOK, EndAgain, Returns
<1>2. \A b \in Blocks : /\ profile_data'[b].start_rdtsc = profile_data[b].start_rdtsc
                        /\ profile_data'[b].total_ticks = profile_data[b].total_ticks
  <2>1. profile_data[index].recursive_count - 1 \in Nat
    <3>1. profile_data[index] \in ProfileBlock  BY <1>1
    <3>2. profile_data[index].recursive_count \in Nat  BY <3>1, BlockType
    <3> QED  BY <1>1, <3>2
  <2> QED  BY <1>1, <2>1, CountChanged DEF EndAgain
<1>3. ASSUME NEW k \in DOMAIN calls'
      PROVE  /\ k \in DOMAIN calls /\ calls'[k] = calls[k] /\ calls[k] \in Blocks
             /\ 1..k \subseteq DOMAIN calls'
  BY <1>1, ReturnCloses
<1>4. StartsInOrder'
  <2>1. ASSUME NEW k \in DOMAIN calls', NEW j \in 1..k
        PROVE  /\ profile_program_start' <= profile_data'[calls'[k]].start_rdtsc
               /\ profile_data'[calls'[j]].start_rdtsc <= profile_data'[calls'[k]].start_rdtsc
    BY <1>1, <1>2, <1>3 DEF TicksInv, StartsInOrder
  <2>2. \A k \in DOMAIN calls' : 1 \in 1..k  BY <1>1, ReturnCloses
  <2> QED  BY <2>1, <2>2 DEF StartsInOrder
<1>5. \A b : IsOpen(b)' = IsOpen(b)
  <2>1. /\ Len(calls) \in Nat /\ Len(calls) > 1
        /\ calls[Len(calls) - 1] = calls[Len(calls)]
    BY <1>1, CountTellsCaller
  <2>2. ASSUME NEW b, IsOpen(b) PROVE IsOpen(b)'
    <3>1. PICK k \in DOMAIN calls : calls[k] = b  BY <2>2 DEF IsOpen
    <3>2. k \in 1..(Len(calls) - 1) \/ k = Len(calls)  BY <1>1, ReturnCloses
    <3>3. Len(calls) - 1 \in 1..(Len(calls) - 1)  BY <2>1
    <3> QED  BY <1>1, <2>1, <3>1, <3>2, <3>3, ReturnCloses DEF IsOpen
  <2>3. ASSUME NEW b, IsOpen(b)' PROVE IsOpen(b)  BY <1>3, <2>3 DEF IsOpen
  <2> QED  BY <2>2, <2>3 DEF IsOpen
<1>6. TotalsFit'  BY <1>1, <1>2, <1>5 DEF TicksInv, TotalsFit
<1> QED  BY <1>1, <1>4, <1>6 DEF TicksInv, NothingBefore, EndFits

\* The time since its start is added to the total of the block that ends.
LEMMA EndBlockTicks ==
    ASSUME ProfilerInv, TicksInv, NEW index \in Blocks, EndBlock(index)
    PROVE  TicksInv'
<1>1. /\ calls \in Seq(Blocks) /\ calls # <<>>
      /\ calls' = SubSeq(calls, 1, Len(calls) - 1)
      /\ profile_data \in [Blocks -> ProfileBlock]
      /\ index = Innermost /\ profile_data[index].recursive_count = 0
      /\ phase = "running" /\ phase' = phase
      /\ profile_program_start' = profile_program_start
  BY DEF ProfilerInv, TypeOK, EndBlock, Returns
<1>2. tsc' \in Nat /\ tsc <= tsc'
  BY BlocksAreTyped, ProfilerAssumption DEF EndBlock, ReadTicks
<1>3. /\ \A b \in Blocks : b # index =>
            /\ profile_data'[b].start_rdtsc = profile_data[b].start_rdtsc
            /\ profile_data'[b].total_ticks = profile_data[b].total_ticks
      /\ profile_data'[index].total_ticks
            = profile_data[index].total_ticks + (tsc' - profile_data[index].start_rdtsc)
  <2>1. profile_data[index].start_rdtsc <= tsc'  BY <1>2, BlocksAreTyped
  <2> QED  BY <1>1, <1>2, <2>1, BlockEnded
<1>4. /\ Len(calls) \in Nat \ {0} /\ calls[Len(calls)] = index
      /\ DOMAIN calls = 1..Len(calls) /\ OpenCalls(index) = {Len(calls)}
  BY <1>1, CountTellsCaller, LenProperties
<1>5. ASSUME NEW k \in DOMAIN calls'
      PROVE  /\ k \in DOMAIN calls /\ calls'[k] = calls[k] /\ calls[k] \in Blocks
             /\ 1..k \subseteq DOMAIN calls' /\ calls[k] # index
  <2>1. k \in 1..(Len(calls) - 1) /\ k # Len(calls)  BY <1>1, <1>4, ReturnCloses
  <2>2. k \notin OpenCalls(index)  BY <1>4, <2>1
  <2> QED  BY <1>1, <1>4, <2>1, <2>2, ReturnCloses DEF OpenCalls
<1>6. StartsInOrder'
  <2>1. ASSUME NEW k \in DOMAIN calls', NEW j \in 1..k
        PROVE  /\ profile_program_start' <= profile_data'[calls'[k]].start_rdtsc
               /\ profile_data'[calls'[j]].start_rdtsc <= profile_data'[calls'[k]].start_rdtsc
    <3>1. /\ calls'[k] = calls[k] /\ calls[k] \in Blocks /\ calls[k] # index
          /\ k \in DOMAIN calls /\ j \in DOMAIN calls'
      BY <1>5
    <3>2. calls'[j] = calls[j] /\ calls[j] \in Blocks /\ calls[j] # index
      BY <1>5, <3>1
    <3>3. /\ profile_program_start <= profile_data[calls[k]].start_rdtsc
          /\ profile_data[calls[j]].start_rdtsc <= profile_data[calls[k]].start_rdtsc
      BY <3>1 DEF TicksInv, StartsInOrder
    <3> QED  BY <1>1, <1>3, <3>1, <3>2, <3>3
  <2>2. \A k \in DOMAIN calls' : 1 \in 1..k  BY <1>1, ReturnCloses
  <2> QED  BY <2>1, <2>2 DEF StartsInOrder
<1>7. TotalsFit'
  <2>1. ASSUME NEW b \in Blocks
        PROVE  profile_data'[b].total_ticks
                  <= (IF IsOpen(b)' THEN profile_data'[b].start_rdtsc ELSE tsc')
                        - profile_program_start'
    <3>1. profile_data[b].total_ticks
            <= (IF IsOpen(b) THEN profile_data[b].start_rdtsc ELSE tsc)
                  - profile_program_start
      BY <1>1 DEF TicksInv, TotalsFit
    <3>2. CASE b = index
      <4>1. IsOpen(b) /\ ~IsOpen(b)'  BY <1>4, <1>5, <3>2 DEF IsOpen
      <4> QED  BY <1>1, <1>2, <1>3, <3>1, <3>2, <4>1, BlocksAreTyped
    <3>3. CASE b # index
      <4>1. IsOpen(b)' = IsOpen(b)
        <5>1. ASSUME IsOpen(b) PROVE IsOpen(b)'
          <6>1. PICK k \in DOMAIN calls : calls[k] = b  BY <5>1 DEF IsOpen
          <6>2. k \in 1..(Len(calls) - 1)  BY <1>4, <3>3, <6>1
          <6> QED  BY <1>1, <6>1, <6>2, ReturnCloses DEF IsOpen
        <5>2. ASSUME IsOpen(b)' PROVE IsOpen(b)  BY <1>5, <5>2 DEF IsOpen
        <5> QED  BY <5>1, <5>2 DEF IsOpen
      <4> QED  BY <1>1, <1>2, <1>3, <3>1, <3>3, <4>1, BlocksAreTyped
    <3> QED  BY <3>2, <3>3
  <2> QED  BY <2>1 DEF TotalsFit
<1>8. NothingBefore'
  BY <1>1, <1>2, BlocksAreTyped DEF TicksInv, NothingBefore
<1> QED  BY <1>1, <1>6, <1>7, <1>8 DEF TicksInv, EndFits

LEMMA TicksNext == ProfilerInv /\ TicksInv /\ [Next]_vars => TicksInv'
<1> SUFFICES ASSUME ProfilerInv, TicksInv, [Next]_vars PROVE TicksInv'  OBVIOUS
<1>1. CASE TAG_PROGRAM_START
  <2>1. tsc' \in Nat /\ calls = <<>> /\ DOMAIN calls = {}
    BY <1>1, BlocksAreTyped, ProfilerAssumption
       DEF TAG_PROGRAM_START, ReadTicks, TicksInv, NothingBefore
  <2>2. \A b \in Blocks : profile_data[b].total_ticks = 0
    BY <1>1 DEF TAG_PROGRAM_START, TicksInv, NothingBefore
  <2>3. /\ profile_program_start' = tsc' /\ phase' = "running"
        /\ UNCHANGED <<profile_data, calls>>
    BY <1>1 DEF TAG_PROGRAM_START
  <2>4. \A b : ~IsOpen(b)'  BY <2>1, <2>3 DEF IsOpen
  <2> QED  BY <2>1, <2>2, <2>3, <2>4
           DEF TicksInv, NothingBefore, StartsInOrder, TotalsFit, EndFits
<1>2. CASE TAG_PROGRAM_END
  <2>1. tsc' \in Nat /\ tsc <= tsc'
    BY <1>2, BlocksAreTyped, ProfilerAssumption DEF TAG_PROGRAM_END, ReadTicks
  <2>2. /\ calls = <<>> /\ DOMAIN calls = {} /\ phase = "running" /\ phase' = "after"
        /\ profile_program_end' = tsc' /\ UNCHANGED <<profile_data, calls, profile_program_start>>
    BY <1>2 DEF TAG_PROGRAM_END
  <2>3. \A b : ~IsOpen(b) /\ ~IsOpen(b)'  BY <2>2 DEF IsOpen
  <2>4. ASSUME NEW b \in Blocks
        PROVE  profile_data'[b].total_ticks <= tsc' - profile_program_start'
    <3>1. profile_data[b].total_ticks <= tsc - profile_program_start
      BY <2>2, <2>3 DEF TicksInv, TotalsFit
    <3> QED  BY <2>1, <2>2, <3>1, BlocksAreTyped
  <2>5. profile_program_start' <= tsc'
    BY <2>1, <2>2, BlocksAreTyped DEF TicksInv, NothingBefore
  <2> QED  BY <2>2, <2>3, <2>4, <2>5
           DEF TicksInv, NothingBefore, StartsInOrder, TotalsFit, EndFits
<1>3. ASSUME NEW index \in Blocks, NEW bytes \in ByteCounts,
             TAG_DATA_BLOCK_START(index, bytes)
      PROVE  TicksInv'
  BY <1>3, StartAgainTicks, StartBlockTicks DEF TAG_DATA_BLOCK_START
<1>4. ASSUME NEW index \in Blocks, TAG_BLOCK_END(index) PROVE TicksInv'
  BY <1>4, EndAgainTicks, EndBlockTicks DEF TAG_BLOCK_END
<1>5. CASE UNCHANGED vars
  BY <1>5 DEF vars, TicksInv, NothingBefore, StartsInOrder, TotalsFit, EndFits, IsOpen
<1> QED  BY <1>1, <1>2, <1>3, <1>4, <1>5 DEF Next, Ended

\* The open blocks started in the order of their calls, and at the end no block has more
\* ticks than the program.
THEOREM ProfilerTicksFitTheProgram == Spec => []TicksFitTheProgram
<1>1. ProfilerInv /\ TicksInv => TicksFitTheProgram
  <2> SUFFICES ASSUME ProfilerInv, TicksInv PROVE TicksFitTheProgram  OBVIOUS
  <2>1. ASSUME NEW k \in DOMAIN calls
        PROVE  profile_data[calls[k]].start_rdtsc \in profile_program_start..tsc
    <3>1. calls[k] \in Blocks  BY BlocksAreTyped
    <3> QED  BY <3>1, BlocksAreTyped DEF TicksInv, StartsInOrder
  <2> QED  BY <2>1 DEF TicksFitTheProgram, TicksInv, StartsInOrder, EndFits
<1>2. Spec => []TicksInv  BY SpecInv, TicksInit, TicksNext, PTL DEF Spec
<1> QED  BY <1>1, <1>2, SpecInv, PTL

-----------------------------------------------------------------------------
(* The open blocks and their parents are a stack of nested calls.         *)

\* A set of natural numbers has a least element.
LEMMA Least ==
    ASSUME NEW S, S \subseteq Nat, S # {}
    PROVE  \E m \in S : \A n \in S : m <= n
<1> DEFINE R == OpToRel(<, Nat)
<1>1. IsWellFoundedOn(R, Nat)  BY NatLessThanWellFounded
<1>2. \A a, b \in Nat : <<a, b>> \in R <=> a < b  BY DEF OpToRel
<1> HIDE DEF R
<1>3. PICK m \in S : \A n \in S : ~(<<n, m>> \in R)  BY <1>1, WFMin
<1>4. ASSUME NEW n \in S PROVE m <= n
  <2>1. <<n, m>> \notin R  BY <1>3
  <2>2. n \in Nat /\ m \in Nat  OBVIOUS
  <2>3. ~(n < m)  BY <1>2, <2>1, <2>2
  <2> QED  BY <2>2, <2>3
<1> QED  BY <1>4

\* What the profiler's data say of the blocks nest, outermost first: they differ, each
\* has the one before it as its parent, and the client has called them all.
Nesting(nest) ==
    /\ nest \in Seq(Blocks)
    /\ profile_index = IF Len(nest) = 0 THEN NoBlock ELSE nest[Len(nest)]
    /\ \A k \in 1..Len(nest) :
          /\ profile_data[nest[k]].parent_index = IF k = 1 THEN NoBlock ELSE nest[k - 1]
          /\ IsOpen(nest[k])
    /\ \A j, k \in 1..Len(nest) : nest[j] = nest[k] => j = k

\* They are as many as there are blocks at most.
LEMMA NestingFits ==
    ASSUME NEW nest \in Seq(Blocks), \A j, k \in 1..Len(nest) : nest[j] = nest[k] => j = k
    PROVE  Len(nest) <= Cardinality(Blocks) /\ Cardinality(Blocks) \in Nat /\ Len(nest) \in Nat
<1>1. IsFiniteSet(Blocks) /\ Cardinality(Blocks) \in Nat
  <2>1. PICK n \in Nat : n = 4095  OBVIOUS
  <2>2. IsFiniteSet(0..n)  BY FS_Interval
  <2>3. Blocks \in SUBSET (0..n)  BY <2>1, ProfilerAssumption
  <2>4. IsFiniteSet(Blocks)  BY <2>2, <2>3, FS_Subset
  <2> QED  BY <2>4, FS_CardinalityType
<1>2. Len(nest) \in Nat /\ nest \in [1..Len(nest) -> Blocks]  BY LenProperties
<1>3. nest \in Injection(1..Len(nest), Blocks)  BY <1>2 DEF Injection, IsInjective
<1>4. Cardinality(1..Len(nest)) <= Cardinality(Blocks)
  BY <1>1, <1>3, FS_Injection DEF ExistsInjection
<1>5. Cardinality(1..Len(nest)) = Len(nest)  BY <1>2, FS_Interval
<1> QED  BY <1>1, <1>2, <1>4, <1>5

\* Following the parents from profile_index leads outwards along the nest.
LEMMA OutwardsIsNest ==
    ASSUME NEW nest, Nesting(nest)
    PROVE  /\ DOMAIN Outwards = 0..Cardinality(Blocks)
           /\ \A k \in 0..Cardinality(Blocks) :
                 Outwards[k] = IF k < Len(nest) THEN nest[Len(nest) - k] ELSE NoBlock
<1> DEFINE C == Cardinality(Blocks)
           n == Len(nest)
           Step(f) == [k \in 0..C |->
                         IF k = 0 THEN profile_index
                         ELSE IF f[k - 1] = NoBlock THEN NoBlock
                              ELSE profile_data[f[k - 1]].parent_index]
           walk == [k \in 0..C |-> IF k < n THEN nest[n - k] ELSE NoBlock]
<1>1. n <= C /\ C \in Nat /\ n \in Nat  BY NestingFits DEF Nesting
<1>2. \A k \in 1..n : nest[k] \in Blocks /\ nest[k] # NoBlock
  BY NoBlockIsNone, ElementOfSeq DEF Nesting
<1> HIDE DEF C
<1>3. walk = Step(walk)
  <2>1. ASSUME NEW k \in 0..C PROVE walk[k] = Step(walk)[k]
    <3>1. CASE k = 0  BY <1>1, <3>1 DEF Nesting
    <3>2. CASE k # 0
      <4>1. k - 1 \in 0..C /\ Step(walk)[k] = IF walk[k - 1] = NoBlock THEN NoBlock
                                             ELSE profile_data[walk[k - 1]].parent_index
        BY <1>1, <3>2
      <4>2. CASE k - 1 < n
        <5>1. walk[k - 1] = nest[n - (k - 1)] /\ n - (k - 1) \in 1..n
          BY <1>1, <3>2, <4>1, <4>2
        <5>2. walk[k - 1] # NoBlock  BY <1>2, <5>1
        <5>3. Step(walk)[k] = IF n - (k - 1) = 1 THEN NoBlock ELSE nest[n - (k - 1) - 1]
          BY <4>1, <5>1, <5>2 DEF Nesting
        <5> QED  BY <1>1, <3>2, <4>2, <5>3
      <4>3. CASE ~(k - 1 < n)  BY <1>1, <3>2, <4>1, <4>3
      <4> QED  BY <4>2, <4>3
    <3> QED  BY <3>1, <3>2
  <2> QED  BY <2>1
<1>4. Outwards = Step(Outwards)
  <2>1. Outwards = CHOOSE f : f = Step(f)  BY DEF Outwards, C
  <2> HIDE DEF Step, walk
  <2>2. \E f : f = Step(f)  BY <1>3
  <2> QED  BY <2>1, <2>2, Zenon
<1> DEFINE Differs == {k \in 0..C : Outwards[k] # walk[k]}
<1>5. Differs = {}
  <2> SUFFICES ASSUME Differs # {} PROVE FALSE  OBVIOUS
  <2>1. Differs \subseteq Nat  BY <1>1
  <2> HIDE DEF walk, Step
  <2>2. PICK k \in Differs : \A j \in Differs : k <= j
    <3> HIDE DEF Differs
    <3> QED  BY <2>1, Least
  <2>3. Step(Outwards)[k] = Step(walk)[k]
    <3>1. CASE k = 0  BY <2>2, <3>1 DEF Step
    <3>2. CASE k # 0
      <4>1. k \in 0..C /\ k - 1 \in 0..C /\ ~(k <= k - 1)  BY <1>1, <2>2, <3>2
      <4>2. Outwards[k - 1] = walk[k - 1]  BY <2>2, <4>1
      <4> QED  BY <4>1, <4>2, <3>2 DEF Step
    <3> QED  BY <3>1, <3>2
  <2> QED  BY <1>3, <1>4, <2>2, <2>3
<1>6. DOMAIN Outwards = 0..C  BY <1>4
<1> QED  BY <1>5, <1>6 DEF C

\* So the blocks the profiler has open are the nest.
LEMMA OpenIsNest ==
    ASSUME NEW nest, Nesting(nest)
    PROVE  OpenBlocks = [k \in 1..Len(nest) |-> Timed(nest[k])]
<1> DEFINE C == Cardinality(Blocks)
           n == Len(nest)
<1>1. n <= C /\ C \in Nat /\ n \in Nat  BY NestingFits DEF Nesting
<1>2. \A k \in 1..n : nest[k] \in Blocks /\ nest[k] # NoBlock
  BY NoBlockIsNone, ElementOfSeq DEF Nesting
<1>3. \A k \in 0..C : Outwards[k] = IF k < n THEN nest[n - k] ELSE NoBlock
  BY OutwardsIsNest
<1>4. DOMAIN Outwards = 0..C  BY OutwardsIsNest
<1>5. Depth = n
  <2> DEFINE Ends(k) == Outwards[k] = NoBlock /\ \A j \in 0..k - 1 : Outwards[j] # NoBlock
  <2>1. Depth = CHOOSE k \in 0..C : Ends(k)  BY <1>4 DEF Depth
  <2> HIDE DEF C
  <2>2. n \in 0..C /\ Ends(n)  BY <1>1, <1>2, <1>3
  <2>3. ASSUME NEW k \in 0..C, Ends(k) PROVE k = n
    <3>1. ~(k < n)  BY <1>1, <1>2, <1>3, <2>3
    <3>2. ~(n < k)  BY <1>1, <1>3, <2>2, <2>3
    <3> QED  BY <1>1, <3>1, <3>2
  <2> HIDE DEF Ends, n
  <2> QED  BY <2>1, <2>2, <2>3, Zenon
<1>6. \A k \in 1..n : n - k \in 0..C /\ Outwards[n - k] = nest[k]
  <2> HIDE DEF C
  <2> QED  BY <1>1, <1>3
<1> QED  BY <1>5, <1>6 DEF OpenBlocks

\* The same of the state after a step.
LEMMA OpenIsNestNext ==
    (\A nest : Nesting(nest) => OpenBlocks = [k \in 1..Len(nest) |-> Timed(nest[k])])'
<1>1. \A nest : Nesting(nest) => OpenBlocks = [k \in 1..Len(nest) |-> Timed(nest[k])]
  BY OpenIsNest
<1> QED  BY <1>1, PTL

\* The ticks of the blocks that have ended, and their number.
Totals == [b \in Blocks |-> profile_data[b].total_ticks]
Counts == [b \in Blocks |-> profile_data[b].count]

\* No block is open before the program calls one.
LEMMA InitPromises == Init => Promise!Init /\ Nesting(<<>>)
<1> SUFFICES ASSUME Init PROVE Promise!Init /\ Nesting(<<>>)  OBVIOUS
<1>1. Nesting(<<>>)  BY DEF Init, Nesting
<1>2. OpenBlocks = [k \in 1..Len(<<>>) |-> Timed(<<>>[k])]  BY <1>1, OpenIsNest
<1>3. OpenBlocks = <<>>  BY <1>2
<1>4. tsc \in Nat  BY ProfilerAssumption DEF Init
<1>5. Totals = [b \in Blocks |-> 0] /\ Counts = [b \in Blocks |-> 0]
  BY DEF Init, Totals, Counts
<1> QED  BY <1>1, <1>3, <1>4, <1>5 DEF Promise!Init, Totals, Counts

\* A block that is called from another one is entered.
LEMMA StartBlockEnters ==
    ASSUME ProfilerInv, NEW nest, Nesting(nest), NEW index \in Blocks,
           NEW bytes \in ByteCounts, StartBlock(index, bytes)
    PROVE  Promise!Enter(index) /\ Nesting(Append(nest, index))'
<1> DEFINE n == Len(nest)
           longer == Append(nest, index)
<1>1. /\ calls \in Seq(Blocks) /\ calls' = Append(calls, index)
      /\ profile_data \in [Blocks -> ProfileBlock] /\ tsc \in Nat
      /\ index # profile_index /\ profile_index' = index
      /\ profile_index \in Blocks \cup {NoBlock} /\ ~IsOpen(index)
  BY DEF ProfilerInv, TypeOK, StartBlock, Calls, ProfileIndexFollowsCalls
<1>2. tsc' \in Nat /\ tsc' >= tsc
  BY <1>1, ProfilerAssumption DEF StartBlock, ReadTicks
<1>3. /\ \A b \in Blocks :
            /\ profile_data'[b].recursive_count = profile_data[b].recursive_count
            /\ profile_data'[b].total_ticks = profile_data[b].total_ticks
            /\ profile_data'[b].count = profile_data[b].count
            /\ b # index => profile_data'[b] = profile_data[b]
      /\ profile_data'[index].parent_index = profile_index
      /\ profile_data'[index].start_rdtsc = tsc'
  <2>1. bytes \in Nat  BY ProfilerAssumption
  <2> QED  BY <1>1, <1>2, <2>1, BlockStarted
<1>4. profile_data[index].recursive_count = 0
  <2>1. OpenCalls(index) = {}  BY <1>1 DEF IsOpen, OpenCalls
  <2> QED  BY <2>1 DEF ProfilerInv, RecursionIsCounted
<1>5. /\ n \in Nat /\ longer \in Seq(Blocks) /\ Len(longer) = n + 1
      /\ longer[n + 1] = index /\ \A k \in 1..n : longer[k] = nest[k] /\ nest[k] \in Blocks
      /\ \A k \in 1..n : nest[k] # index
  BY <1>1 DEF Nesting
<1>6. \A b : IsOpen(b)' <=> IsOpen(b) \/ b = index
  BY <1>1, CallOpens DEF IsOpen
<1>7. Nesting(longer)'
  <2>1. \A k \in 1..n + 1 : /\ k \in 1..n \/ k = n + 1
                            /\ k \in 1..n /\ k # 1 => k - 1 \in 1..n
    BY <1>5
  <2>2. ASSUME NEW k \in 1..n + 1
        PROVE  /\ profile_data'[longer[k]].parent_index
                     = IF k = 1 THEN NoBlock ELSE longer[k - 1]
               /\ IsOpen(longer[k])'
    <3>1. CASE k \in 1..n
      <4>1. longer[k] = nest[k] /\ nest[k] \in Blocks /\ nest[k] # index
        BY <1>5, <3>1
      <4>2. /\ profile_data[nest[k]].parent_index = IF k = 1 THEN NoBlock ELSE nest[k - 1]
            /\ IsOpen(nest[k])
        BY <3>1 DEF Nesting
      <4>3. k # 1 => longer[k - 1] = nest[k - 1]  BY <1>5, <2>1, <3>1
      <4> QED  BY <1>3, <1>6, <4>1, <4>2, <4>3
    <3>2. CASE k = n + 1
      <4>1. profile_index = IF n = 0 THEN NoBlock ELSE nest[n]  BY DEF Nesting
      <4>2. n # 0 => n \in 1..n /\ longer[n] = nest[n]  BY <1>5
      <4> QED  BY <1>3, <1>5, <1>6, <3>2, <4>1, <4>2
    <3> QED  BY <2>1, <3>1, <3>2
  <2>3. \A j, k \in 1..n + 1 : longer[j] = longer[k] => j = k
    BY <1>5, <2>1 DEF Nesting
  <2>4. profile_index' = IF Len(longer) = 0 THEN NoBlock ELSE longer[Len(longer)]
    BY <1>1, <1>5
  <2> HIDE DEF n, longer
  <2> QED  BY <1>5, <2>2, <2>3, <2>4 DEF Nesting
<1>8. OpenBlocks = [k \in 1..n |-> Timed(nest[k])]  BY OpenIsNest
<1>9. OpenBlocks' = [k \in 1..n + 1 |-> Timed(longer[k])']
  <2>1. OpenBlocks' = [k \in 1..Len(longer) |-> Timed(longer[k])']
    BY <1>7, OpenIsNestNext
  <2> QED  BY <1>5, <2>1
<1>10. /\ \A k \in 1..n : Timed(longer[k])' = Timed(nest[k])
       /\ Timed(longer[n + 1])' = [block |-> index, since |-> tsc', again |-> 0]
  BY <1>3, <1>4, <1>5 DEF Timed
<1>11. OpenBlocks' = Append(OpenBlocks, [block |-> index, since |-> tsc', again |-> 0])
  <2> HIDE DEF n, longer
  <2> QED  BY <1>5, <1>8, <1>9, <1>10
<1>12. ~Promise!IsOpen(index)
  <2>1. DOMAIN OpenBlocks = 1..n /\ \A k \in 1..n : OpenBlocks[k].block = nest[k]
    BY <1>8 DEF Timed
  <2> QED  BY <1>5, <2>1 DEF Promise!IsOpen
<1>13. Totals' = Totals /\ Counts' = Counts  BY <1>3 DEF Totals, Counts
<1> QED
  BY <1>2, <1>7, <1>11, <1>12, <1>13 DEF Promise!Enter, Promise!Elapse, Totals, Counts

\* What a step that changes one recursion count does to the open blocks: the nest is
\* what it was, if its blocks are still open.
LEMMA CountChangedNest ==
    ASSUME ProfilerInv, NEW nest, Nesting(nest), NEW index \in Blocks, NEW n \in Nat,
           Len(nest) # 0, nest[Len(nest)] = index, profile_index' = profile_index,
           profile_data' = [profile_data EXCEPT ![index].recursive_count = n],
           \A b : IsOpen(b) => IsOpen(b)'
    PROVE  /\ Nesting(nest)'
           /\ OpenBlocks # <<>> /\ Promise!Top = Timed(index)
           /\ OpenBlocks' = [OpenBlocks EXCEPT ![Len(OpenBlocks)].again = n]
           /\ Totals' = Totals /\ Counts' = Counts
<1> DEFINE last == Len(nest)
<1>1. profile_data \in [Blocks -> ProfileBlock]  BY DEF ProfilerInv, TypeOK
<1>2. /\ \A b \in Blocks :
            /\ profile_data'[b].parent_index = profile_data[b].parent_index
            /\ profile_data'[b].start_rdtsc = profile_data[b].start_rdtsc
            /\ profile_data'[b].total_ticks = profile_data[b].total_ticks
            /\ profile_data'[b].count = profile_data[b].count
            /\ b # index => profile_data'[b] = profile_data[b]
      /\ profile_data'[index].recursive_count = n
  BY <1>1, CountChanged
<1>3. last \in Nat \ {0} /\ \A k \in 1..last : nest[k] \in Blocks  BY DEF Nesting
<1>4. Nesting(nest)'
  <2>1. ASSUME NEW k \in 1..last
        PROVE  /\ profile_data'[nest[k]].parent_index = IF k = 1 THEN NoBlock ELSE nest[k - 1]
               /\ IsOpen(nest[k])'
    BY <1>2, <1>3 DEF Nesting
  <2> QED  BY <2>1 DEF Nesting
<1>5. OpenBlocks = [k \in 1..last |-> Timed(nest[k])]  BY OpenIsNest
<1>6. OpenBlocks' = [k \in 1..last |-> Timed(nest[k])']  BY <1>4, OpenIsNestNext
<1>7. \A k \in 1..last : nest[k] = index <=> k = last  BY <1>3 DEF Nesting
<1>8. \A k \in 1..last : k # last => Timed(nest[k])' = Timed(nest[k])
  BY <1>2, <1>3, <1>7 DEF Timed
<1>9. Timed(index)' = [Timed(index) EXCEPT !.again = n]  BY <1>2 DEF Timed
<1> HIDE DEF last
<1>10. Len(OpenBlocks) = last /\ OpenBlocks[last] = Timed(index) /\ OpenBlocks # <<>>
  BY <1>3, <1>5, <1>7
<1>11. OpenBlocks' = [OpenBlocks EXCEPT ![last] = Timed(index)']
  BY <1>3, <1>5, <1>6, <1>7, <1>8
<1>12. OpenBlocks' = [OpenBlocks EXCEPT ![Len(OpenBlocks)].again = n]
  BY <1>9, <1>10, <1>11
<1>13. Totals' = Totals /\ Counts' = Counts  BY <1>2 DEF Totals, Counts
<1> QED  BY <1>4, <1>10, <1>12, <1>13 DEF Promise!Top

\* A call of the innermost block to itself is entered again.
LEMMA StartAgainEnters ==
    ASSUME ProfilerInv, NEW nest, Nesting(nest), NEW index \in Blocks, StartAgain(index)
    PROVE  Promise!Enter(index) /\ Nesting(nest)'
<1> DEFINE again == profile_data[index].recursive_count
<1>1. /\ calls \in Seq(Blocks) /\ calls' = Append(calls, index)
      /\ profile_data[index] \in ProfileBlock /\ tsc \in Nat /\ tsc' = tsc
      /\ index = profile_index /\ profile_index' = profile_index
      /\ profile_data' = [profile_data EXCEPT ![index].recursive_count = again + 1]
  BY DEF ProfilerInv, TypeOK, StartAgain, Calls
<1>2. again \in Nat  BY <1>1, BlockType
<1>3. \A b : IsOpen(b) => IsOpen(b)'  BY <1>1, CallOpens DEF IsOpen
<1>4. Len(nest) # 0 /\ nest[Len(nest)] = index  BY <1>1, NoBlockIsNone DEF Nesting
<1>5. /\ Nesting(nest)'
      /\ OpenBlocks # <<>> /\ Promise!Top = Timed(index)
      /\ OpenBlocks' = [OpenBlocks EXCEPT ![Len(OpenBlocks)].again = again + 1]
      /\ Totals' = Totals /\ Counts' = Counts
  <2>1. again + 1 \in Nat  BY <1>2
  <2> HIDE DEF again
  <2> QED  BY <1>1, <1>3, <1>4, <2>1, CountChangedNest
<1>6. Promise!Top.block = index /\ Promise!Top.again = again  BY <1>5 DEF Timed
<1>7. OpenBlocks' = [OpenBlocks EXCEPT ![Len(OpenBlocks)].again = @ + 1]
  BY <1>5, <1>6 DEF Promise!Top
<1>8. Promise!Elapse  BY <1>1 DEF Promise!Elapse
<1>9. OpenBlocks # <<>> /\ Promise!Top.block = index  BY <1>5, <1>6
<1>10. Totals' = Totals /\ Counts' = Counts  BY <1>5
<1>11. Promise!Enter(index)
  BY <1>7, <1>8, <1>9, <1>10, Zenon DEF Promise!Enter, Totals, Counts
<1> QED  BY <1>5, <1>11

\* A call of a block to itself returns.
LEMMA EndAgainLeaves ==
    ASSUME ProfilerInv, NEW nest, Nesting(nest), NEW index \in Blocks, EndAgain(index)
    PROVE  Promise!Leave /\ Nesting(nest)'
<1> DEFINE again == profile_data[index].recursive_count
<1>1. /\ calls \in Seq(Blocks) /\ calls # <<>>
      /\ calls' = SubSeq(calls, 1, Len(calls) - 1)
      /\ profile_data[index] \in ProfileBlock /\ tsc \in Nat /\ tsc' = tsc
      /\ index = Innermost /\ index = profile_index /\ profile_index' = profile_index
      /\ again # 0
      /\ profile_data' = [profile_data EXCEPT ![index].recursive_count = again - 1]
  BY DEF ProfilerInv, TypeOK, EndAgain, Returns, ProfileIndexFollowsCalls
<1>2. again \in Nat  BY <1>1, BlockType
<1>3. ASSUME NEW b, IsOpen(b) PROVE IsOpen(b)'
  <2>1. /\ Len(calls) \in Nat /\ Len(calls) > 1
        /\ calls[Len(calls) - 1] = calls[Len(calls)]
    BY <1>1, CountTellsCaller
  <2>2. PICK k \in DOMAIN calls : calls[k] = b  BY <1>3 DEF IsOpen
  <2>3. k \in 1..(Len(calls) - 1) \/ k = Len(calls)  BY <1>1, ReturnCloses
  <2>4. Len(calls) - 1 \in 1..(Len(calls) - 1)  BY <2>1
  <2> QED  BY <1>1, <2>1, <2>2, <2>3, <2>4, ReturnCloses DEF IsOpen
<1>4. Len(nest) # 0 /\ nest[Len(nest)] = index  BY <1>1, NoBlockIsNone DEF Nesting
<1>5. /\ Nesting(nest)'
      /\ OpenBlocks # <<>> /\ Promise!Top = Timed(index)
      /\ OpenBlocks' = [OpenBlocks EXCEPT ![Len(OpenBlocks)].again = again - 1]
      /\ Totals' = Totals /\ Counts' = Counts
  <2>1. again - 1 \in Nat  BY <1>1, <1>2
  <2> HIDE DEF again
  <2> QED  BY <1>1, <1>3, <1>4, <2>1, CountChangedNest
<1>6. Promise!Top.again = again /\ again > 0  BY <1>1, <1>2, <1>5 DEF Timed
<1>7. OpenBlocks' = [OpenBlocks EXCEPT ![Len(OpenBlocks)].again = @ - 1]
  BY <1>5, <1>6 DEF Promise!Top
<1>8. Promise!Elapse  BY <1>1 DEF Promise!Elapse
<1>9. OpenBlocks # <<>> /\ Promise!Top.again > 0  BY <1>5, <1>6
<1>10. Totals' = Totals /\ Counts' = Counts  BY <1>5
<1>11. Promise!Leave
  BY <1>7, <1>8, <1>9, <1>10, Zenon DEF Promise!Leave, Totals, Counts
<1> QED  BY <1>5, <1>11

\* A sequence without its last element.
LEMMA Shortened ==
    ASSUME NEW S, NEW s \in Seq(S), Len(s) \in Nat \ {0}
    PROVE  /\ SubSeq(s, 1, Len(s) - 1) \in Seq(S)
           /\ Len(SubSeq(s, 1, Len(s) - 1)) = Len(s) - 1 /\ Len(s) - 1 \in Nat
           /\ \A k \in 1..Len(s) - 1 : SubSeq(s, 1, Len(s) - 1)[k] = s[k]
<1>1. PICK m \in Nat : m = Len(s) - 1  OBVIOUS
<1>2. PICK t : t = SubSeq(s, 1, m)  OBVIOUS
<1>3. \A k \in 1..m : s[k] \in S  BY <1>1, ElementOfSeq
<1>4. /\ t \in Seq(S) /\ Len(t) = IF 1 <= m THEN m - 1 + 1 ELSE 0
      /\ \A i \in 1..m - 1 + 1 : t[i] = s[1 + i - 1]
  BY <1>2, <1>3, SubSeqProperties
<1>5. Len(t) = m /\ \A i \in 1..m : t[i] = s[i]
  <2>1. m - 1 + 1 = m /\ \A i \in 1..m : 1 + i - 1 = i  OBVIOUS
  <2> QED  BY <1>4, <2>1
<1> QED  BY <1>1, <1>2, <1>4, <1>5

\* The outermost call of a block returns: its ticks are its own, whatever its parent is
\* charged with.
LEMMA EndBlockLeaves ==
    ASSUME ProfilerInv, NEW nest, Nesting(nest), NEW index \in Blocks, EndBlock(index)
    PROVE  Promise!Leave /\ Nesting(SubSeq(nest, 1, Len(nest) - 1))'
<1> DEFINE n == Len(nest)
           shorter == SubSeq(nest, 1, n - 1)
<1>1. /\ calls \in Seq(Blocks) /\ calls # <<>>
      /\ calls' = SubSeq(calls, 1, Len(calls) - 1)
      /\ profile_data \in [Blocks -> ProfileBlock]
      /\ index = Innermost /\ index = profile_index
      /\ profile_data[index].recursive_count = 0
      /\ profile_index' = profile_data[index].parent_index
  BY DEF ProfilerInv, TypeOK, EndBlock, Returns, ProfileIndexFollowsCalls
<1>2. tsc' \in Nat /\ tsc' >= tsc
  BY BlocksAreTyped, ProfilerAssumption DEF EndBlock, ReadTicks
<1>3. /\ \A b \in Blocks :
            /\ profile_data'[b].parent_index = profile_data[b].parent_index
            /\ profile_data'[b].recursive_count = profile_data[b].recursive_count
            /\ b # index =>
                  /\ profile_data'[b].start_rdtsc = profile_data[b].start_rdtsc
                  /\ profile_data'[b].total_ticks = profile_data[b].total_ticks
                  /\ profile_data'[b].count = profile_data[b].count
      /\ profile_data'[index].total_ticks
            = profile_data[index].total_ticks + (tsc' - profile_data[index].start_rdtsc)
      /\ profile_data'[index].count = profile_data[index].count + 1
  <2>1. profile_data[index].start_rdtsc <= tsc'  BY <1>2, BlocksAreTyped
  <2> QED  BY <1>1, <1>2, <2>1, BlockEnded
<1>4. /\ Len(calls) \in Nat \ {0} /\ calls[Len(calls)] = index
      /\ DOMAIN calls = 1..Len(calls) /\ OpenCalls(index) = {Len(calls)}
  BY <1>1, CountTellsCaller, LenProperties
<1>5. ASSUME NEW b, IsOpen(b), b # index PROVE IsOpen(b)'
  <2>1. PICK k \in DOMAIN calls : calls[k] = b  BY <1>5 DEF IsOpen
  <2>2. k \in 1..(Len(calls) - 1)  BY <1>4, <1>5, <2>1
  <2> QED  BY <1>1, <2>1, <2>2, ReturnCloses DEF IsOpen
<1>6. n \in Nat \ {0} /\ nest[n] = index /\ \A k \in 1..n : nest[k] \in Blocks
  BY <1>1, NoBlockIsNone DEF Nesting
<1>7. /\ shorter \in Seq(Blocks) /\ Len(shorter) = n - 1 /\ n - 1 \in Nat
      /\ \A k \in 1..n - 1 : shorter[k] = nest[k] /\ nest[k] # index /\ k \in 1..n
  <2>1. nest \in Seq(Blocks) /\ \A k \in 1..n - 1 : k \in 1..n /\ k # n /\ n \in 1..n
    BY <1>6 DEF Nesting
  <2>2. shorter \in Seq(Blocks) /\ Len(shorter) = n - 1 /\ n - 1 \in Nat
        /\ \A k \in 1..n - 1 : shorter[k] = nest[k]
    BY <1>6, <2>1, Shortened
  <2> QED  BY <1>6, <2>1, <2>2 DEF Nesting
<1>8. Nesting(shorter)'
  <2>1. ASSUME NEW k \in 1..n - 1
        PROVE  /\ profile_data'[shorter[k]].parent_index
                     = IF k = 1 THEN NoBlock ELSE shorter[k - 1]
               /\ IsOpen(shorter[k])'
    <3>1. /\ shorter[k] = nest[k] /\ nest[k] # index /\ nest[k] \in Blocks
          /\ k # 1 => k - 1 \in 1..n - 1 /\ shorter[k - 1] = nest[k - 1]
      BY <1>6, <1>7
    <3>2. /\ profile_data[nest[k]].parent_index = IF k = 1 THEN NoBlock ELSE nest[k - 1]
          /\ IsOpen(nest[k])
      BY <1>7 DEF Nesting
    <3>3. profile_data'[nest[k]].parent_index = profile_data[nest[k]].parent_index
      BY <1>3, <3>1
    <3>4. IsOpen(nest[k])'  BY <1>5, <3>1, <3>2
    <3> QED  BY <3>1, <3>2, <3>3, <3>4
  <2>2. \A j, k \in 1..n - 1 : shorter[j] = shorter[k] => j = k  BY <1>7 DEF Nesting
  <2>3. profile_index' = IF Len(shorter) = 0 THEN NoBlock ELSE shorter[Len(shorter)]
    <3>1. profile_index' = IF n = 1 THEN NoBlock ELSE nest[n - 1]
      <4>1. n \in 1..n  BY <1>6
      <4> QED  BY <1>1, <1>6, <4>1 DEF Nesting
    <3> QED  BY <1>6, <1>7, <3>1
  <2> HIDE DEF n, shorter
  <2> QED  BY <1>7, <2>1, <2>2, <2>3 DEF Nesting
<1>9. OpenBlocks = [k \in 1..n |-> Timed(nest[k])]  BY OpenIsNest
<1>10. OpenBlocks' = [k \in 1..n - 1 |-> Timed(shorter[k])']
  <2>1. OpenBlocks' = [k \in 1..Len(shorter) |-> Timed(shorter[k])']
    BY <1>8, OpenIsNestNext
  <2> QED  BY <1>7, <2>1
<1>11. \A k \in 1..n - 1 : Timed(shorter[k])' = Timed(nest[k])
  BY <1>3, <1>6, <1>7 DEF Timed
<1> HIDE DEF n, shorter
<1>12. /\ Len(OpenBlocks) = n /\ OpenBlocks # <<>> /\ OpenBlocks[n] = Timed(index)
       /\ OpenBlocks' = SubSeq(OpenBlocks, 1, n - 1)
  BY <1>6, <1>7, <1>9, <1>10, <1>11
<1>13. Totals' = [Totals EXCEPT ![index] = @ + (tsc' - profile_data[index].start_rdtsc)]
  BY <1>3 DEF Totals
<1>14. Counts' = [Counts EXCEPT ![index] = @ + 1]  BY <1>3 DEF Counts
<1>15. /\ Promise!Top.block = index /\ ~(Promise!Top.again > 0)
       /\ Promise!Top.since = profile_data[index].start_rdtsc
  BY <1>1, <1>12 DEF Promise!Top, Timed
<1> QED
  BY <1>2, <1>8, <1>12, <1>13, <1>14, <1>15
     DEF Promise!Leave, Promise!Elapse, Totals, Counts, n, shorter

\* Every step keeps the blocks nested, and does what is promised or nothing.
LEMMA NextPromises ==
    ASSUME ProfilerInv, NEW nest, Nesting(nest), [Next]_vars
    PROVE  [Promise!Next]_(Promise!vars) /\ (\E longer : Nesting(longer))'
<1>1. CASE TAG_PROGRAM_START \/ TAG_PROGRAM_END
  <2>1. UNCHANGED <<profile_index, profile_data, calls>> /\ ReadTicks
    BY <1>1 DEF TAG_PROGRAM_START, TAG_PROGRAM_END
  <2>2. tsc' \in Nat /\ tsc' >= tsc
    BY <2>1, BlocksAreTyped, ProfilerAssumption DEF ReadTicks
  <2>3. Nesting(nest)'  BY <2>1 DEF Nesting, IsOpen
  <2>4. OpenBlocks' = OpenBlocks  BY <2>1 DEF OpenBlocks, Depth, Outwards, Timed
  <2>5. Totals' = Totals /\ Counts' = Counts  BY <2>1 DEF Totals, Counts
  <2>6. Promise!Wait  BY <2>2, <2>4, <2>5 DEF Promise!Wait, Promise!Elapse, Totals, Counts
  <2> QED  BY <2>3, <2>6 DEF Promise!Next
<1>2. ASSUME NEW index \in Blocks, NEW bytes \in ByteCounts,
             TAG_DATA_BLOCK_START(index, bytes)
      PROVE  Promise!Next /\ (\E longer : Nesting(longer))'
  BY <1>2, StartAgainEnters, StartBlockEnters DEF TAG_DATA_BLOCK_START, Promise!Next
<1>3. ASSUME NEW index \in Blocks, TAG_BLOCK_END(index)
      PROVE  Promise!Next /\ (\E longer : Nesting(longer))'
  BY <1>3, EndAgainLeaves, EndBlockLeaves DEF TAG_BLOCK_END, Promise!Next
<1>4. CASE UNCHANGED vars
  <2>1. UNCHANGED <<tsc, profile_index, profile_data, calls>>  BY <1>4 DEF vars
  <2>2. Nesting(nest)'  BY <2>1 DEF Nesting, IsOpen
  <2>3. OpenBlocks' = OpenBlocks  BY <2>1 DEF OpenBlocks, Depth, Outwards, Timed
  <2>4. Totals' = Totals /\ Counts' = Counts  BY <2>1 DEF Totals, Counts
  <2> QED  BY <2>1, <2>2, <2>3, <2>4 DEF Promise!vars, Totals, Counts
<1> QED  BY <1>1, <1>2, <1>3, <1>4 DEF Next, Ended

\* One start and one parent for each index are as good as a stack of nested calls: every
\* outermost call is measured once, from its start to its end.
THEOREM ProfilerMeasuresOutermostCalls == Spec => MeasuresOutermostCalls
<1> DEFINE Nested == \E nest : Nesting(nest)
<1>1. Init => Promise!Init /\ Nested  BY InitPromises
<1>2. ProfilerInv /\ Nested /\ [Next]_vars => [Promise!Next]_(Promise!vars) /\ Nested'
  BY NextPromises
<1> HIDE DEF Nested
<1> QED  BY <1>1, <1>2, SpecInv, PTL DEF Spec, MeasuresOutermostCalls, Promise!Spec
=============================================================================
