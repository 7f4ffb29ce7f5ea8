----------------------------- MODULE RepPrograms -----------------------------
(***************************************************************************)
(* The programs that use the repetition tester.  A program is the sequence *)
(* of its tests; a test says what its callbacks do:                        *)
(*   buffer   who allocates it: "env" (env_setup), "round" (test_setup),   *)
(*            "mmap" (test_setup, with mmap) or "program" (main)           *)
(*   file     who opens it: "env", "round" or "none"                       *)
(*   has_max  whether test_main keeps the maximum of the ticks too         *)
(*   num_pages  the pages a sweep is to test, 0 if the test is timed       *)
(*   runtime  test_runtime_seconds of a timed test                         *)
(***************************************************************************)
EXTENDS Integers, Sequences

Test == [buffer : {"env", "round", "mmap", "program"}, file : {"env", "round", "none"},
         has_max : BOOLEAN, num_pages : Int, runtime : Nat]

Timed(buffer, file, runtime) ==
    [buffer |-> buffer, file |-> file, has_max |-> TRUE, num_pages |-> 0, runtime |-> runtime]

\* One buffer for all rounds; the file is rewound for each.
rep_test1(runtime) == <<Timed("env", "env", runtime)>>
\* A buffer for each round.
rep_test2(runtime) == <<Timed("round", "env", runtime)>>
rep_test3(runtime) == <<Timed("env", "none", runtime)>>
rep_test4(runtime) == <<Timed("round", "none", runtime)>>

fread_test(runtime) == Timed("program", "env", runtime)
_read_test(runtime) == Timed("program", "round", runtime)
readfile_test(runtime) == Timed("program", "round", runtime)
writebytes_test(runtime) == Timed("program", "none", runtime)
writelongbytes_test(runtime) == Timed("program", "none", runtime)
fileread_reptest(runtime) ==
    <<fread_test(runtime), _read_test(runtime), readfile_test(runtime),
      writebytes_test(runtime), writelongbytes_test(runtime)>>

\* Five routines in assembly over one buffer, without callbacks around them.
asm_link_test(runtime) ==
    [k \in 1..5 |-> [Timed("program", "none", runtime) EXCEPT !.has_max = FALSE]]

\* One page more in each round, until all of the buffer are touched.
Sweep(num_pages) ==
    [buffer |-> "mmap", file |-> "env", has_max |-> FALSE, num_pages |-> num_pages, runtime |-> 0]
page_faults1(num_pages) == <<Sweep(num_pages)>>
page_faults2(num_pages) == <<Sweep(num_pages)>>
=============================================================================
