----------------------------- MODULE MCRepTester -----------------------------
(***************************************************************************)
(* Every program of the repository that uses the repetition tester, with   *)
(* short times: a test has up to four rounds.                              *)
(***************************************************************************)
EXTENDS RepTester

Runtimes == 0..1
\* Counts whose bytes fit an int, and those that wrap to fewer pages, to none or to a
\* negative size; negative counts too.
PageCounts == (-INT_PAGES..2 * INT_PAGES) \ {0}
SomePrograms ==
    UNION {{rep_test1(r), rep_test2(r), rep_test3(r), rep_test4(r),
            fileread_reptest(r), asm_link_test(r)} : r \in Runtimes}
    \cup UNION {{page_faults1(n), page_faults2(n)} : n \in PageCounts}

ZeroPrograms == {rep_test3(0)}
=============================================================================
