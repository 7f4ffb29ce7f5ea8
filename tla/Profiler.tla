------------------------------ MODULE Profiler ------------------------------
(***************************************************************************)
(* The block profiler (rdtsc/rdtsc_utils.h): the TAG_ macros that a client *)
(* program places at the start and the end of its functions and blocks, and*)
(* the globals they keep.  The client is any program whose blocks nest:    *)
(* calls is its call stack.                                                *)
(***************************************************************************)
EXTENDS Integers, Sequences, FiniteSets

CONSTANTS Blocks,       \* the indices the client uses (0..TIMING_DATA_SIZE-1 at most)
          Ticks,        \* what the time stamp counter may advance by between reads
          ByteCounts,   \* byte counts given to the data macros
          MaxCalls      \* bound: the calls of one block in a run

ASSUME ProfilerAssumption ==
    /\ Blocks \subseteq 0..4095
    /\ Ticks \subseteq Nat /\ ByteCounts \subseteq Nat
    /\ MaxCalls \in Nat

VARIABLES
    tsc,                    \* the time stamp counter (uint64_t, does not wrap here)
    profile_index,          \* the innermost open block, or -1
    profile_data,           \* struct profile_block, by index
    profile_program_start,
    profile_program_end,
    calls,                  \* the client's call stack of blocks, outermost first
    made,                   \* calls made so far, by block (history)
    phase                   \* "before", "running", "after" TAG_PROGRAM_END

vars == <<tsc, profile_index, profile_data, profile_program_start,
          profile_program_end, calls, made, phase>>

NoBlock == -1
ProfileBlock == [named : BOOLEAN, parent_index : Blocks \cup {0, NoBlock},
                 start_rdtsc : Nat, total_ticks : Nat, count : Nat,
                 children_ticks : Nat, recursive_count : Nat,
                 processed_byte_count : Nat]

Init ==
    /\ tsc \in Ticks
    /\ profile_index = NoBlock
    /\ profile_data = [b \in Blocks |->
          [named |-> FALSE, parent_index |-> 0, start_rdtsc |-> 0, total_ticks |-> 0,
           count |-> 0, children_ticks |-> 0, recursive_count |-> 0,
           processed_byte_count |-> 0]]
    /\ profile_program_start = 0 /\ profile_program_end = 0
    /\ calls = <<>>
    /\ made = [b \in Blocks |-> 0]
    /\ phase = "before"

\* GET_CPU_TICKS.
ReadTicks == \E t \in Ticks : tsc' = tsc + t

TAG_PROGRAM_START ==
    /\ phase = "before" /\ phase' = "running"
    /\ ReadTicks
    /\ profile_program_start' = tsc'
    /\ UNCHANGED <<profile_index, profile_data, profile_program_end, calls, made>>

\* The report reads the data and changes nothing.
TAG_PROGRAM_END ==
    /\ phase = "running" /\ calls = <<>> /\ phase' = "after"
    /\ ReadTicks
    /\ profile_program_end' = tsc'
    /\ UNCHANGED <<profile_index, profile_data, profile_program_start, calls, made>>

Innermost == IF calls = <<>> THEN NoBlock ELSE calls[Len(calls)]
IsOpen(index) == \E k \in DOMAIN calls : calls[k] = index

\* The client calls the block, which may call itself.  A block that is re-entered
\* through another one is outside what the macros recognise as recursion.
Calls(index) ==
    /\ phase = "running"
    /\ made[index] < MaxCalls
    /\ IsOpen(index) => Innermost = index
    /\ calls' = Append(calls, index)
    /\ made' = [made EXCEPT ![index] = @ + 1]
    /\ UNCHANGED <<phase, profile_program_start, profile_program_end>>

\* Mutant: a recursive call restarts the time of its block.
StartAgain_Restarts(index) ==
    /\ Calls(index)
    /\ index = profile_index
    /\ ReadTicks
    /\ profile_data' = [profile_data EXCEPT ![index].recursive_count = @ + 1,
                                             ![index].start_rdtsc = tsc']
    /\ UNCHANGED profile_index

StartAgain(index) ==
    /\ Calls(index)
    /\ index = profile_index
    /\ profile_data' = [profile_data EXCEPT ![index].recursive_count = @ + 1]
    /\ UNCHANGED <<tsc, profile_index>>

StartBlock(index, byte_count) ==
    /\ Calls(index)
    /\ index # profile_index
    /\ ReadTicks
    /\ profile_data' = [profile_data EXCEPT
            ![index].named = TRUE,
            ![index].start_rdtsc = tsc',
            ![index].processed_byte_count = byte_count,
            ![index].parent_index = profile_index]
    /\ profile_index' = index

TAG_DATA_BLOCK_START(index, byte_count) ==
    StartAgain(index) \/ StartBlock(index, byte_count)

\* The client leaves its innermost block.
Returns(index) ==
    /\ phase = "running"
    /\ calls # <<>> /\ index = Innermost
    /\ calls' = SubSeq(calls, 1, Len(calls) - 1)
    /\ UNCHANGED <<made, phase, profile_program_start, profile_program_end>>

\* Mutants: the count of a recursion is left as it is; it is taken down whatever
\* it is.
EndAgain_KeepsCount(index) ==
    /\ Returns(index)
    /\ profile_data[index].recursive_count # 0
    /\ UNCHANGED <<tsc, profile_index, profile_data>>
EndAgain_Always(index) ==
    /\ Returns(index)
    /\ profile_data' = [profile_data EXCEPT ![index].recursive_count = @ - 1]
    /\ UNCHANGED <<tsc, profile_index>>

EndAgain(index) ==
    /\ Returns(index)
    /\ profile_data[index].recursive_count # 0
    /\ profile_data' = [profile_data EXCEPT ![index].recursive_count = @ - 1]
    /\ UNCHANGED <<tsc, profile_index>>

\* Mutants: the end of a block closes its parents too; the ticks of the start are
\* not taken off.
EndBlock_ClosesAll(index) ==
    /\ Returns(index)
    /\ profile_data[index].recursive_count = 0
    /\ ReadTicks
    /\ profile_index' = NoBlock
    /\ profile_data' = [profile_data EXCEPT
            ![index].total_ticks = @ + (tsc' - profile_data[index].start_rdtsc),
            ![index].count = @ + 1, ![index].start_rdtsc = 0]
EndBlock_FromZero(index) ==
    /\ Returns(index)
    /\ profile_data[index].recursive_count = 0
    /\ ReadTicks
    /\ profile_index' = profile_data[index].parent_index
    /\ profile_data' = [profile_data EXCEPT
            ![index].total_ticks = @ + tsc', ![index].count = @ + 1,
            ![index].start_rdtsc = 0]

\* The parent is charged with all the ticks of the block so far, those of its
\* earlier runs included.
EndBlock(index) ==
    LET block == profile_data[index]
        total == block.total_ticks + (tsc' - block.start_rdtsc)
        ended == [profile_data EXCEPT ![index].total_ticks = total,
                                      ![index].count = @ + 1,
                                      ![index].start_rdtsc = 0]
    IN  /\ Returns(index)
        /\ block.recursive_count = 0
        /\ ReadTicks
        /\ profile_index' = block.parent_index
        /\ profile_data' =
              IF block.parent_index # NoBlock
              THEN [ended EXCEPT ![block.parent_index].children_ticks =
                                    @ + ended[index].total_ticks]
              ELSE ended

TAG_BLOCK_END(index) == EndAgain(index) \/ EndBlock(index)

\* Nothing runs after the program's end.
Ended == phase = "after" /\ UNCHANGED vars

Next ==
    \/ TAG_PROGRAM_START
    \/ TAG_PROGRAM_END
    \/ \E index \in Blocks : \/ \E byte_count \in ByteCounts :
                                    TAG_DATA_BLOCK_START(index, byte_count)
                             \/ TAG_BLOCK_END(index)
    \/ Ended

Spec == Init /\ [][Next]_vars

-----------------------------------------------------------------------------
\* Every variable has its type; the ticks of an end are never before its start.
TypeOK ==
    /\ tsc \in Nat /\ profile_program_start \in Nat /\ profile_program_end \in Nat
    /\ profile_index \in Blocks \cup {NoBlock}
    /\ profile_data \in [Blocks -> ProfileBlock]
    /\ calls \in Seq(Blocks)
    /\ made \in [Blocks -> Nat]
    /\ phase \in {"before", "running", "after"}

\* Where the client is, kept in one global and a chain of parents, is the client's
\* call stack: profile_index is its innermost block, and the parent of an open block
\* is the block it was called from, or none.
ProfileIndexFollowsCalls ==
    /\ profile_index = Innermost
    /\ \A k \in DOMAIN calls :
          LET parent == profile_data[calls[k]].parent_index
          IN  IF k = 1 THEN parent = NoBlock
              ELSE calls[k] = calls[k - 1] \/ parent = calls[k - 1]

\* The positions of a block on the call stack.
OpenCalls(b) == {k \in DOMAIN calls : calls[k] = b}

\* No block is left in the middle of a recursion: the count of an open block is the
\* number of its calls to itself, and a closed block has none, so that its next call
\* is measured.
RecursionIsCounted ==
    \A b \in Blocks :
        profile_data[b].recursive_count
            = IF OpenCalls(b) = {} THEN 0 ELSE Cardinality(OpenCalls(b)) - 1

\* A block that is open is being timed since its start, which is not after the start
\* of a block inside it; a percentage of the report never exceeds 100: at the end no
\* block has more ticks than the program.
TicksFitTheProgram ==
    /\ \A k \in DOMAIN calls :
          /\ profile_data[calls[k]].start_rdtsc \in profile_program_start..tsc
          /\ \A j \in 1..k : profile_data[calls[j]].start_rdtsc
                                <= profile_data[calls[k]].start_rdtsc
    /\ phase = "after" =>
          \A b \in Blocks : profile_data[b].total_ticks
                               <= profile_program_end - profile_program_start

-----------------------------------------------------------------------------
(* The profiler as CallTimes promises it.                                  *)

\* The k-th block outwards from the innermost one, read off the parent indices.
Outwards ==
    LET chain[k \in 0..Cardinality(Blocks)] ==
            IF k = 0 THEN profile_index
            ELSE IF chain[k - 1] = NoBlock THEN NoBlock
                 ELSE profile_data[chain[k - 1]].parent_index
    IN  chain
Depth == CHOOSE k \in DOMAIN Outwards :
            Outwards[k] = NoBlock /\ \A j \in 0..k - 1 : Outwards[j] # NoBlock

\* An open block, as the profiler times it.
Timed(b) ==
    [block |-> b, since |-> profile_data[b].start_rdtsc,
     again |-> profile_data[b].recursive_count]
OpenBlocks == [k \in 1..Depth |-> Timed(Outwards[Depth - k])]

Promise == INSTANCE CallTimes WITH
    clock <- tsc,
    open <- OpenBlocks,
    total <- [b \in Blocks |-> profile_data[b].total_ticks],
    count <- [b \in Blocks |-> profile_data[b].count]

\* For clients whose blocks call themselves only directly, the flat array with one
\* start and one parent per index implements the stack of nested calls: every
\* outermost call is measured once, from its start to its end, and charged to its
\* own block.
MeasuresOutermostCalls == Promise!Spec
=============================================================================
