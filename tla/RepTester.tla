------------------------------ MODULE RepTester ------------------------------
(***************************************************************************)
(* The repetition tester (rep_tester/reptester.c) with the callbacks of    *)
(* its clients: rep_tester_run calls rep_tester for each test, and that    *)
(* calls env_setup, rounds of test_setup, test_main and test_teardown      *)
(* until the test is over, env_teardown and print_stats.                   *)
(***************************************************************************)
EXTENDS RepPrograms, Integers, SequencesExt

CONSTANTS Programs,         \* the programs: sequences of tests
          Ticks,            \* how many ticks test_main may take
          Overheads,        \* and the rest of a round
          TICKS_PER_SECOND,
          INT_PAGES         \* the values of an int, in pages of bytes: 1048576

ASSUME RepAssumption ==
    /\ Programs \subseteq Seq(Test) \ {<<>>}
    /\ \A p \in Programs : \A k \in 1..Len(p) :
          p[k].buffer = "program" <=> p[1].buffer = "program"
    /\ Ticks \subseteq Nat \ {0} /\ Ticks # {}
    /\ Overheads \subseteq Nat /\ Overheads # {}
    /\ TICKS_PER_SECOND \in Nat \ {0}
    /\ INT_PAGES \in Nat \ {0} /\ INT_PAGES % 2 = 0

VARIABLES
    program,            \* the tests of the running program
    test,               \* the index of the running test
    phase,              \* the callback that comes next, or how the process ended
    elapse_ticks,       \* the ticks since test_start_ticks
    rep_counter,
    buffer,             \* ctx->buffer: "null", "live" or "failed" (MAP_FAILED)
    buffers,            \* how many buffers are allocated
    file,               \* ctx->fp: "closed", or open at its "start" or "end"
    files,              \* how many files are open
    min_cpu_ticks, max_cpu_ticks,
    touch_count, is_test_done,
    rows,               \* the touch counts written to the output of a sweep
    rounds, ends        \* history: for each round of the test the ticks of test_main,
                        \* and elapse_ticks at its end

context == <<buffer, buffers, file, files>>
measure == <<min_cpu_ticks, max_cpu_ticks, touch_count, is_test_done, rows>>
clock == <<elapse_ticks, rounds, ends>>
vars == <<program, test, phase, clock, rep_counter, context, measure>>

This == program[test]
\* The sweeps are the tests that map their buffer; they end by a predicate of their own.
IsSweep == This.buffer = "mmap"
Reads == This.file # "none" /\ ~IsSweep
elapsed_seconds == elapse_ticks \div TICKS_PER_SECOND

\* num_pages * PAGE_SIZE, in pages.  The product is an int and wraps; as a size_t a negative
\* one is larger than any address space.
buffer_size ==
    LET pages == This.num_pages % INT_PAGES
    IN  IF pages < INT_PAGES \div 2 THEN pages ELSE pages - INT_PAGES
\* Mutant: all the pages that were asked for, whatever size the buffer has.
max_touch_count_Given == This.num_pages
\* The pages of a buffer that could be mapped.
max_touch_count == buffer_size

-----------------------------------------------------------------------------
(* Resources.                                                              *)

Allocate == buffer' = "live" /\ buffers' = buffers + 1
Release ==
    /\ buffer' = "null"
    /\ buffers' = IF buffer = "live" THEN buffers - 1 ELSE buffers
KeepBuffer == UNCHANGED <<buffer, buffers>>
Open == file' = "start" /\ files' = files + 1
Close == file' = "closed" /\ files' = IF file = "closed" THEN files ELSE files - 1
KeepFile == UNCHANGED <<file, files>>

\* A client that cannot get a resource, or reads less than the file, exits.
Fails(when) ==
    /\ phase = when
    /\ phase' = "error"
    /\ UNCHANGED <<program, test, clock, rep_counter, context, measure>>

-----------------------------------------------------------------------------
(* main and the contexts, which it fills with zeros.                       *)

SharesBuffer == program[1].buffer = "program"

Init ==
    /\ program \in Programs /\ test = 1 /\ phase = "main"
    /\ elapse_ticks = 0 /\ rounds = <<>> /\ ends = <<>> /\ rep_counter = 1
    /\ buffer = "null" /\ buffers = 0 /\ file = "closed" /\ files = 0
    /\ min_cpu_ticks = 0 /\ max_cpu_ticks = 0
    /\ touch_count = 0 /\ is_test_done = FALSE /\ rows = <<>>

StartProgram ==
    /\ phase = "main"
    /\ IF SharesBuffer THEN Allocate ELSE KeepBuffer
    /\ phase' = "env_setup"
    /\ UNCHANGED <<program, test, clock, rep_counter, file, files, measure>>

-----------------------------------------------------------------------------
(* rep_tester, one callback at a time.                                     *)

\* Each test has a context of its own, filled with zeros by main.
env_setup ==
    /\ phase = "env_setup"
    /\ IF This.buffer = "env" THEN Allocate ELSE KeepBuffer
    /\ IF This.file = "env" THEN Open ELSE KeepFile
    /\ touch_count' = IF IsSweep THEN 1 ELSE touch_count
    /\ is_test_done' = FALSE
    /\ elapse_ticks' = 0 /\ rounds' = <<>> /\ ends' = <<>> /\ rep_counter' = 1
    /\ min_cpu_ticks' = 0 /\ max_cpu_ticks' = 0 /\ rows' = <<>>
    /\ phase' = "test_setup"
    /\ UNCHANGED <<program, test>>

\* Mutant: the file is not rewound.
Rewind_Not == IF This.file = "round" THEN Open ELSE KeepFile
Rewind ==
    \/ This.file = "round" /\ Open
    \/ This.file = "env" /\ Reads /\ file' = "start" /\ UNCHANGED files
    \/ ~(This.file = "round") /\ ~(This.file = "env" /\ Reads) /\ KeepFile

\* mmap reports a failure as MAP_FAILED, which is not null.  It always fails for no bytes
\* and for more than the address space has.
test_setup ==
    /\ phase = "test_setup"
    /\ \/ This.buffer = "round" /\ Allocate
       \/ This.buffer = "mmap" /\ buffer_size > 0 /\ Allocate
       \/ This.buffer = "mmap" /\ buffer' = "failed" /\ UNCHANGED buffers
       \/ This.buffer \notin {"round", "mmap"} /\ KeepBuffer
    /\ Rewind
    /\ phase' = "test_main"
    /\ UNCHANGED <<program, test, clock, rep_counter, measure>>

\* The ticks of the round, with 0 for no minimum yet.
\* Mutant: a minimum of 0 is a minimum.
Minimum_FromZero(ticks) == IF ticks < min_cpu_ticks THEN ticks ELSE min_cpu_ticks
Minimum(ticks) ==
    IF min_cpu_ticks = 0 \/ ticks < min_cpu_ticks THEN ticks ELSE min_cpu_ticks
Maximum(ticks) == IF This.has_max /\ ticks > max_cpu_ticks THEN ticks ELSE max_cpu_ticks

test_main ==
    /\ phase = "test_main" /\ buffer = "live" /\ (Reads => file = "start")
    /\ \E ticks \in Ticks :
        /\ elapse_ticks' = elapse_ticks + ticks
        /\ rounds' = Append(rounds, ticks)
        /\ min_cpu_ticks' = IF IsSweep THEN min_cpu_ticks ELSE Minimum(ticks)
        /\ max_cpu_ticks' = Maximum(ticks)
    /\ file' = IF Reads THEN "end" ELSE file
    /\ phase' = "test_teardown"
    /\ UNCHANGED <<program, test, ends, rep_counter, buffer, buffers, files,
                   touch_count, is_test_done, rows>>

\* A write through a null pointer or MAP_FAILED.
Crash ==
    /\ phase = "test_main" /\ buffer # "live"
    /\ phase' = "crashed"
    /\ UNCHANGED <<program, test, clock, rep_counter, context, measure>>

SweepIsDone == touch_count' > max_touch_count
test_teardown ==
    /\ phase = "test_teardown"
    /\ IF This.buffer \in {"round", "mmap"} THEN Release ELSE KeepBuffer
    /\ IF This.file = "round" THEN Close ELSE KeepFile
    /\ rows' = IF IsSweep THEN Append(rows, touch_count) ELSE rows
    /\ touch_count' = IF IsSweep THEN touch_count + 1 ELSE touch_count
    /\ is_test_done' = (is_test_done \/ (IsSweep /\ SweepIsDone))
    /\ \E ticks \in Overheads : elapse_ticks' = elapse_ticks + ticks
    /\ ends' = Append(ends, elapse_ticks')
    /\ phase' = "end_of_test"
    /\ UNCHANGED <<program, test, rounds, rep_counter, min_cpu_ticks, max_cpu_ticks>>

\* end_of_test_eval if there is one, else the time.
\* Mutant: the time is over when it is reached.
IsOver_AtOnce == IF IsSweep THEN is_test_done ELSE elapsed_seconds >= This.runtime
IsOver == IF IsSweep THEN is_test_done ELSE elapsed_seconds > This.runtime

EndRound ==
    /\ phase = "end_of_test" /\ ~IsOver
    /\ rep_counter' = rep_counter + 1
    /\ phase' = "test_setup"
    /\ UNCHANGED <<program, test, clock, context, measure>>
EndTest ==
    /\ phase = "end_of_test" /\ IsOver
    /\ phase' = "env_teardown"
    /\ UNCHANGED <<program, test, clock, rep_counter, context, measure>>

\* Mutant: the buffer is kept for the next test.
env_teardown_Keeps ==
    /\ phase = "env_teardown"
    /\ KeepBuffer
    /\ IF This.file = "env" THEN Close ELSE KeepFile
    /\ phase' = "print_stats"
    /\ UNCHANGED <<program, test, clock, rep_counter, measure>>
env_teardown ==
    /\ phase = "env_teardown"
    /\ IF This.buffer = "env" THEN Release ELSE KeepBuffer
    /\ IF This.file = "env" THEN Close ELSE KeepFile
    /\ phase' = "print_stats"
    /\ UNCHANGED <<program, test, clock, rep_counter, measure>>

\* Mutants: one test too many; the next test is the same one.
print_stats_TooFar ==
    /\ phase = "print_stats"
    /\ \/ test <= Len(program) /\ test' = test + 1 /\ phase' = "env_setup"
       \/ test > Len(program) /\ phase' = "summary" /\ UNCHANGED test
    /\ UNCHANGED <<program, clock, rep_counter, context, measure>>
print_stats_SameTest ==
    /\ phase = "print_stats"
    /\ \/ test < Len(program) /\ phase' = "env_setup" /\ UNCHANGED test
       \/ test = Len(program) /\ phase' = "summary" /\ UNCHANGED test
    /\ UNCHANGED <<program, clock, rep_counter, context, measure>>
print_stats ==
    /\ phase = "print_stats"
    /\ \/ test < Len(program) /\ test' = test + 1 /\ phase' = "env_setup"
       \/ test = Len(program) /\ phase' = "summary" /\ UNCHANGED test
    /\ UNCHANGED <<program, clock, rep_counter, context, measure>>

EndProgram ==
    /\ phase = "summary"
    /\ IF SharesBuffer THEN Release ELSE KeepBuffer
    /\ phase' = "done"
    /\ UNCHANGED <<program, test, clock, rep_counter, file, files, measure>>

Failure ==
    \/ Fails("main") /\ SharesBuffer
    \/ Fails("env_setup") /\ "env" \in {This.buffer, This.file}
    \/ Fails("test_setup") /\ (This.buffer = "round" \/ Reads)
    \/ Fails("test_main") /\ Reads

Ended == phase \in {"done", "error", "crashed"}
Terminated == Ended /\ UNCHANGED vars

Run == \/ StartProgram \/ env_setup \/ test_setup \/ test_main \/ Crash \/ test_teardown
       \/ EndRound \/ EndTest \/ env_teardown \/ print_stats \/ EndProgram \/ Failure
Next == Run \/ Terminated

Spec == Init /\ [][Next]_vars

\* A process that is scheduled at all takes its next step.
FairSpec == Spec /\ WF_vars(Run)

-----------------------------------------------------------------------------
\* Every variable has its type, and the index of the test is one of the program's.
TypeOK ==
    /\ program \in Programs /\ test \in 1..Len(program)
    /\ phase \in {"main", "env_setup", "test_setup", "test_main", "test_teardown",
                  "end_of_test", "env_teardown", "print_stats", "summary",
                  "done", "error", "crashed"}
    /\ elapse_ticks \in Nat /\ rep_counter \in Nat \ {0}
    /\ rounds \in Seq(Ticks) /\ ends \in Seq(Nat)
    /\ buffer \in {"null", "live", "failed"} /\ buffers \in Nat
    /\ file \in {"closed", "start", "end"} /\ files \in Nat
    /\ min_cpu_ticks \in Nat /\ max_cpu_ticks \in Nat
    /\ touch_count \in Nat /\ is_test_done \in BOOLEAN /\ rows \in Seq(Nat)

\* Whenever test_main runs its buffer is allocated, unless mmap failed, and its file is at
\* the start, in every round: teardown, rewinding and setup of the clients fit the order
\* in which the tester calls them.
MainHasItsResources ==
    phase = "test_main" =>
        /\ buffer = "live" \/ (This.buffer = "mmap" /\ buffer = "failed")
        /\ Reads => file = "start"

\* Between tests nothing is allocated but the buffer of the program, no file is open, and
\* at the end of the program nothing is left, whatever tests were run and how often.
NothingIsLeft ==
    /\ phase \in {"print_stats", "summary"} =>
           buffers = (IF SharesBuffer THEN 1 ELSE 0) /\ files = 0
    /\ phase = "done" => buffers = 0 /\ files = 0 /\ buffer = "null" /\ file = "closed"

IsMin(t, ticks) == t \in ticks /\ \A u \in ticks : t <= u
IsMax(t, ticks) == t \in ticks /\ \A u \in ticks : u <= t

\* The speeds that are reported are those of the fastest and the slowest round of this test,
\* and the count that is reported is that of its rounds.
StatsAreOfTheRounds ==
    phase \in {"env_teardown", "print_stats"} =>
        /\ rep_counter = Len(rounds)
        /\ ~IsSweep => IsMin(min_cpu_ticks, ToSet(rounds))
        /\ This.has_max => IsMax(max_cpu_ticks, ToSet(rounds))

\* A timed test has run for longer than its time when it ends, and had not at the end of
\* any round but the last.
StopsWithItsTime ==
    phase = "env_teardown" /\ ~IsSweep =>
        /\ elapsed_seconds > This.runtime
        /\ \A k \in 1..Len(rounds) - 1 : ends[k] \div TICKS_PER_SECOND <= This.runtime

\* No round of a sweep touches a page behind its buffer, also when the size of the buffer
\* has wrapped to fewer pages than were asked for.  A sweep that ends has a row for every
\* number of pages up to those of its buffer, once and in order; these are all it was asked
\* for, provided that their bytes fit an int.
SweepIsComplete ==
    /\ phase = "test_main" /\ IsSweep /\ buffer = "live" => touch_count \in 1..buffer_size
    /\ phase = "env_teardown" /\ IsSweep =>
           /\ rows # <<>> /\ rows = [k \in 1..buffer_size |-> k]
           /\ This.num_pages \in 1..INT_PAGES \div 2 - 1 => Len(rows) = This.num_pages

\* Every program comes to an end.
Terminates == <>Ended

-----------------------------------------------------------------------------
(* What the comments of the repository say.                                *)

\* "Number of second to run for. 0 for infinite loop" (struct rep_tester_config).
ZeroRunsForever == ~IsSweep /\ This.runtime = 0 => phase # "env_teardown"
=============================================================================
