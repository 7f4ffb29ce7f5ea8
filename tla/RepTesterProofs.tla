--------------------------- MODULE RepTesterProofs ---------------------------
(***************************************************************************)
(* The repetition tester with any programs, any times and any number of    *)
(* rounds.                                                                 *)
(***************************************************************************)
EXTENDS RepTester, SequenceTheorems, TLAPS

InRound == phase \in {"test_main", "test_teardown"}
InTest == InRound \/ phase \in {"test_setup", "end_of_test", "env_teardown"}
Failed == phase \in {"error", "crashed"}

\* Who holds a buffer and a file when, by the kind of the test.
HoldsBuffer ==
    \/ This.buffer = "program" /\ phase \notin {"main", "done"}
    \/ This.buffer = "env" /\ InTest
    \/ This.buffer \in {"round", "mmap"} /\ InRound
HoldsFile == (This.file = "env" /\ InTest) \/ (This.file = "round" /\ InRound)

\* MainHasItsResources and NothingIsLeft are about two moments; this ties them.
BufferInv == ~Failed =>
    /\ buffer = "failed" => This.buffer = "mmap" /\ phase = "test_main" /\ buffers = 0
    /\ buffer = "live" => HoldsBuffer /\ buffers = 1
    /\ buffer = "null" => ~HoldsBuffer /\ buffers = 0
FileInv == ~Failed =>
    /\ file # "closed" => HoldsFile /\ files = 1
    /\ file = "closed" => ~HoldsFile /\ files = 0
    /\ phase = "test_main" /\ Reads => file = "start"

\* The rounds of the running test, counted and measured.
CountInv ==
    /\ phase \in {"test_setup", "test_main"} => rep_counter = Len(rounds) + 1
    /\ phase \in {"test_teardown", "end_of_test", "env_teardown", "print_stats"} =>
           rep_counter = Len(rounds) /\ rounds # <<>>
MinInv == InTest \/ phase = "print_stats" =>
    (~IsSweep => IF rounds = <<>> THEN min_cpu_ticks = 0
                 ELSE IsMin(min_cpu_ticks, ToSet(rounds)))
MaxInv == InTest \/ phase = "print_stats" =>
    (This.has_max => IF rounds = <<>> THEN max_cpu_ticks = 0
                     ELSE IsMax(max_cpu_ticks, ToSet(rounds)))

\* The rounds that have ended, and which of them had reached the time.
TimeInv ==
    /\ phase \in {"test_setup", "test_main"} => Len(ends) = Len(rounds)
    /\ phase = "test_teardown" => Len(rounds) = Len(ends) + 1
    /\ phase \in {"end_of_test", "env_teardown"} =>
           Len(ends) = Len(rounds) /\ ends # <<>> /\ ends[Len(ends)] = elapse_ticks
    /\ InTest /\ ~IsSweep =>
          \A k \in 1..Len(ends) :
              \/ ends[k] \div TICKS_PER_SECOND <= This.runtime
              \/ phase \in {"end_of_test", "env_teardown"} /\ k = Len(ends)
    /\ phase = "env_teardown" /\ ~IsSweep => elapsed_seconds > This.runtime

\* The rows that a sweep has written.
SweepInv == InTest /\ IsSweep =>
    /\ touch_count > 0
    /\ Len(rows) = touch_count - 1 /\ \A k \in 1..Len(rows) : rows[k] = k
    /\ phase = "test_main" /\ buffer = "live" => buffer_size > 0
    /\ phase \notin {"test_setup", "test_main"} => buffer_size > 0
    /\ InRound \/ phase = "test_setup" =>
           ~is_test_done /\ (buffer_size > 0 => touch_count <= buffer_size)
    /\ phase \in {"end_of_test", "env_teardown"} =>
           /\ touch_count <= buffer_size + 1
           /\ is_test_done <=> touch_count > buffer_size
    /\ phase = "env_teardown" => is_test_done

RepInv == TypeOK /\ BufferInv /\ FileInv /\ CountInv /\ MinInv /\ MaxInv /\ TimeInv /\ SweepInv

-----------------------------------------------------------------------------
(* Types.                                                                  *)

\* The running test is one of the program's, and those of a program share its buffer
\* or none does.
LEMMA ThisType ==
    ASSUME TypeOK
    PROVE  /\ program \in Seq(Test) /\ Len(program) \in Nat
           /\ This \in Test
           /\ This.buffer \in {"env", "round", "mmap", "program"}
           /\ This.file \in {"env", "round", "none"}
           /\ This.has_max \in BOOLEAN /\ This.num_pages \in Int /\ This.runtime \in Nat
           /\ SharesBuffer <=> This.buffer = "program"
<1>1. program \in Programs /\ test \in 1..Len(program)  BY DEF TypeOK
<1>2. program \in Seq(Test)  BY <1>1, RepAssumption
<1>3. Len(program) \in Nat /\ This \in Test  BY <1>1, <1>2, ElementOfSeq, LenProperties DEF This
<1>4. SharesBuffer <=> This.buffer = "program"
  BY <1>1, RepAssumption DEF SharesBuffer, This
<1> QED  BY <1>2, <1>3, <1>4 DEF Test

LEMMA OtherTestType ==
    ASSUME TypeOK, NEW t \in 1..Len(program)
    PROVE  /\ program[t].buffer \in {"env", "round", "mmap", "program"}
           /\ program[t].buffer = "program" <=> This.buffer = "program"
<1>1. program \in Programs /\ program \in Seq(Test)  BY RepAssumption DEF TypeOK
<1>2. program[t] \in Test  BY <1>1, ElementOfSeq
<1>3. program[t].buffer = "program" <=> program[1].buffer = "program"  BY <1>1, RepAssumption
<1> QED  BY <1>2, <1>3, ThisType DEF Test, SharesBuffer

LEMMA TicksType ==
    /\ \A t \in Ticks : t \in Nat /\ t > 0
    /\ \A t \in Overheads : t \in Nat
BY RepAssumption

LEMMA TypeInit == Init => TypeOK
<1> SUFFICES ASSUME Init PROVE TypeOK  OBVIOUS
<1>1. program \in Seq(Test) /\ program # <<>>  BY RepAssumption DEF Init
<1>2. 1 \in 1..Len(program)  BY <1>1, EmptySeq, LenProperties
<1>3. rounds \in Seq(Ticks) /\ ends \in Seq(Nat) /\ rows \in Seq(Nat)
  BY EmptySeq DEF Init
<1>4. is_test_done \in BOOLEAN  BY DEF Init
<1>5. /\ program \in Programs /\ test \in 1..Len(program)
      /\ phase \in {"main", "env_setup"}
      /\ elapse_ticks \in Nat /\ rep_counter \in Nat \ {0}
      /\ buffer = "null" /\ buffers \in Nat /\ file = "closed" /\ files \in Nat
      /\ min_cpu_ticks \in Nat /\ max_cpu_ticks \in Nat /\ touch_count \in Nat
  BY <1>2 DEF Init
<1> QED  BY <1>3, <1>4, <1>5 DEF TypeOK

\* A counter is only decremented for a resource that is held, which takes the invariants
\* of the resources.
LEMMA TypeStep == TypeOK /\ BufferInv /\ FileInv /\ [Next]_vars => TypeOK'
<1> SUFFICES ASSUME TypeOK, BufferInv, FileInv, [Next]_vars PROVE TypeOK'  OBVIOUS
<1> USE DEF TypeOK, clock, context, measure, KeepBuffer, KeepFile, Allocate, Release,
            Open, Close
<1>t. This.buffer \in {"env", "round", "mmap", "program"}
  BY ThisType
<1>r. /\ ~Failed /\ buffer = "live" => buffers - 1 \in Nat
      /\ ~Failed /\ file # "closed" => files - 1 \in Nat
  BY DEF BufferInv, FileInv
<1>n. phase \in {"test_teardown", "env_teardown", "summary"} => ~Failed  BY DEF Failed
<1>1. CASE StartProgram  BY <1>1 DEF StartProgram
<1>2. CASE env_setup
  <2>1. rounds' \in Seq(Ticks) /\ ends' \in Seq(Nat) /\ rows' \in Seq(Nat)
    BY <1>2, EmptySeq DEF env_setup
  <2>2. is_test_done' \in BOOLEAN  BY <1>2 DEF env_setup
  <2>3. touch_count' \in Nat /\ elapse_ticks' \in Nat /\ rep_counter' \in Nat \ {0}
        /\ min_cpu_ticks' \in Nat /\ max_cpu_ticks' \in Nat
    BY <1>2 DEF env_setup
  <2> QED  BY <1>2, <2>1, <2>2, <2>3 DEF env_setup
<1>3. CASE test_setup  BY <1>3 DEF test_setup, Rewind
<1>4. CASE test_main
  <2>1. PICK ticks \in Ticks :
          /\ elapse_ticks' = elapse_ticks + ticks
          /\ rounds' = Append(rounds, ticks)
          /\ min_cpu_ticks' = IF IsSweep THEN min_cpu_ticks ELSE Minimum(ticks)
          /\ max_cpu_ticks' = Maximum(ticks)
    BY <1>4 DEF test_main
  <2>2. ticks \in Nat  BY TicksType
  <2>3. /\ elapse_ticks' \in Nat /\ min_cpu_ticks' \in Nat /\ max_cpu_ticks' \in Nat
        /\ rounds' \in Seq(Ticks)
    BY <2>1, <2>2, AppendProperties DEF Minimum, Maximum
  <2> QED  BY <1>4, <2>3 DEF test_main
<1>5. CASE Crash  BY <1>5 DEF Crash
<1>6. CASE test_teardown
  <2>1. PICK ticks \in Overheads : elapse_ticks' = elapse_ticks + ticks
    BY <1>6 DEF test_teardown
  <2>2. elapse_ticks' \in Nat  BY <2>1, TicksType
  <2>3. ends' \in Seq(Nat)  BY <1>6, <2>2, AppendProperties DEF test_teardown
  <2>4. rows' \in Seq(Nat)  BY <1>6, AppendProperties DEF test_teardown
  <2> QED  BY <1>6, <2>2, <2>3, <2>4, <1>r, <1>n DEF test_teardown
<1>7. CASE EndRound  BY <1>7 DEF EndRound
<1>8. CASE EndTest  BY <1>8 DEF EndTest
<1>9. CASE env_teardown  BY <1>9, <1>r, <1>n DEF env_teardown
<1>10. CASE print_stats
  BY <1>10, ThisType DEF print_stats
<1>11. CASE EndProgram  BY <1>11, <1>r, <1>n DEF EndProgram
<1>12. CASE Failure  BY <1>12 DEF Failure, Fails
<1>13. CASE UNCHANGED vars  BY <1>13 DEF vars
<1> QED
  BY <1>1, <1>2, <1>3, <1>4, <1>5, <1>6, <1>7, <1>8, <1>9, <1>10, <1>11, <1>12, <1>13
  DEF Next, Run, Terminated

\* The running test only changes between tests.
LEMMA ThisKept ==
    ASSUME [Next]_vars, phase # "print_stats"
    PROVE  program' = program /\ This' = This
<1>1. program' = program /\ test' = test
  BY DEF Next, Run, Terminated, vars, StartProgram, env_setup, test_setup, test_main, Crash,
         test_teardown, EndRound, EndTest, env_teardown, print_stats, EndProgram, Failure, Fails
<1> QED  BY <1>1 DEF This

-----------------------------------------------------------------------------
(* Resources.                                                              *)

LEMMA BufferStep == TypeOK /\ BufferInv /\ [Next]_vars => BufferInv'
<1> SUFFICES ASSUME TypeOK, BufferInv, [Next]_vars PROVE BufferInv'  OBVIOUS
<1>t. /\ This.buffer \in {"env", "round", "mmap", "program"}
      /\ SharesBuffer <=> This.buffer = "program"
      /\ buffer \in {"null", "live", "failed"}
  BY ThisType DEF TypeOK
<1>s. phase # "print_stats" => This' = This  BY ThisKept
<1> USE DEF BufferInv, HoldsBuffer, InTest, InRound, Failed, context, KeepBuffer, Allocate,
            Release
<1>1. CASE StartProgram  BY <1>1, <1>t, <1>s DEF StartProgram
<1>2. CASE env_setup  BY <1>2, <1>t, <1>s DEF env_setup
<1>3. CASE test_setup  BY <1>3, <1>t, <1>s DEF test_setup
<1>4. CASE test_main  BY <1>4, <1>t, <1>s DEF test_main
<1>5. CASE Crash  BY <1>5, <1>t, <1>s DEF Crash
<1>6. CASE test_teardown  BY <1>6, <1>t, <1>s DEF test_teardown
<1>7. CASE EndRound  BY <1>7, <1>t, <1>s DEF EndRound
<1>8. CASE EndTest  BY <1>8, <1>t, <1>s DEF EndTest
<1>9. CASE env_teardown  BY <1>9, <1>t, <1>s DEF env_teardown
<1>10. CASE print_stats
  <2>1. program' = program /\ test' \in 1..Len(program)
        /\ buffer' = buffer /\ buffers' = buffers /\ phase' \in {"env_setup", "summary"}
    BY <1>10 DEF print_stats, TypeOK
  <2>2. This' = program[test']  BY <2>1 DEF This
  <2>3. This'.buffer \in {"env", "round", "mmap", "program"}
        /\ (This'.buffer = "program" <=> This.buffer = "program")
    BY <2>1, <2>2, OtherTestType
  <2> QED  BY <1>10, <2>1, <2>3, <1>t DEF print_stats
<1>11. CASE EndProgram  BY <1>11, <1>t, <1>s DEF EndProgram
<1>12. CASE Failure  BY <1>12, <1>t, <1>s DEF Failure, Fails
<1>13. CASE UNCHANGED vars  BY <1>13, <1>t, <1>s DEF vars, This, IsSweep, elapsed_seconds
<1> QED
  BY <1>1, <1>2, <1>3, <1>4, <1>5, <1>6, <1>7, <1>8, <1>9, <1>10, <1>11, <1>12, <1>13
  DEF Next, Run, Terminated

LEMMA FileStep == TypeOK /\ FileInv /\ [Next]_vars => FileInv'
<1> SUFFICES ASSUME TypeOK, FileInv, [Next]_vars PROVE FileInv'  OBVIOUS
<1>t. /\ This.file \in {"env", "round", "none"}
      /\ file \in {"closed", "start", "end"}
  BY ThisType DEF TypeOK
<1>s. phase # "print_stats" => This' = This /\ (Reads <=> Reads')
  BY ThisKept DEF Reads, IsSweep
<1> USE DEF FileInv, HoldsFile, InTest, InRound, Failed, context, KeepFile, Open, Close
<1>1. CASE StartProgram  BY <1>1, <1>t, <1>s DEF StartProgram
<1>2. CASE env_setup  BY <1>2, <1>t, <1>s DEF env_setup
<1>3. CASE test_setup  BY <1>3, <1>t, <1>s DEF test_setup, Rewind, Reads
<1>4. CASE test_main  BY <1>4, <1>t, <1>s DEF test_main
<1>5. CASE Crash  BY <1>5, <1>t, <1>s DEF Crash
<1>6. CASE test_teardown  BY <1>6, <1>t, <1>s DEF test_teardown
<1>7. CASE EndRound  BY <1>7, <1>t, <1>s DEF EndRound
<1>8. CASE EndTest  BY <1>8, <1>t, <1>s DEF EndTest
<1>9. CASE env_teardown  BY <1>9, <1>t, <1>s DEF env_teardown
<1>10. CASE print_stats  BY <1>10, <1>t, <1>s DEF print_stats
<1>11. CASE EndProgram  BY <1>11, <1>t, <1>s DEF EndProgram
<1>12. CASE Failure  BY <1>12, <1>t, <1>s DEF Failure, Fails
<1>13. CASE UNCHANGED vars  BY <1>13, <1>t, <1>s DEF vars, This, IsSweep, elapsed_seconds
<1> QED
  BY <1>1, <1>2, <1>3, <1>4, <1>5, <1>6, <1>7, <1>8, <1>9, <1>10, <1>11, <1>12, <1>13
  DEF Next, Run, Terminated

-----------------------------------------------------------------------------
(* Rounds.                                                                 *)

LEMMA OneMore ==
    ASSUME NEW S, NEW s \in Seq(S), NEW e \in S, NEW t, t = Append(s, e)
    PROVE  /\ t \in Seq(S) /\ t # <<>> /\ Len(s) \in Nat /\ Len(t) = Len(s) + 1
           /\ \A k \in 1..Len(s) : t[k] = s[k]
           /\ t[Len(t)] = e
<1>1. /\ t \in Seq(S) /\ Len(s) \in Nat /\ Len(t) = Len(s) + 1
      /\ DOMAIN s = 1..Len(s) /\ DOMAIN t = 1..Len(s) + 1
      /\ \A k \in 1..Len(s) : t[k] = s[k]
      /\ t[Len(s) + 1] = e
  BY AppendProperties, LenProperties
<1>2. t # <<>>  BY <1>1, EmptySeq
<1> QED  BY <1>1, <1>2

LEMMA ToSetAppend ==
    ASSUME NEW S, NEW s \in Seq(S), NEW e \in S
    PROVE  ToSet(Append(s, e)) = ToSet(s) \cup {e}
<1> DEFINE t == Append(s, e)
<1>1. /\ Len(s) \in Nat /\ DOMAIN s = 1..Len(s) /\ DOMAIN t = 1..Len(s) + 1
      /\ \A k \in 1..Len(s) : t[k] = s[k]
      /\ t[Len(s) + 1] = e
  BY AppendProperties, LenProperties
<1> HIDE DEF t
<1>2. ToSet(t) = ToSet(s) \cup {e}  BY <1>1 DEF ToSet
<1> QED  BY <1>2 DEF t

LEMMA CountStep == TypeOK /\ CountInv /\ [Next]_vars => CountInv'
<1> SUFFICES ASSUME TypeOK, CountInv, [Next]_vars PROVE CountInv'  OBVIOUS
<1>t. rounds \in Seq(Ticks) /\ rep_counter \in Nat /\ Len(rounds) \in Nat
  BY LenProperties DEF TypeOK
<1> USE DEF CountInv, clock
<1>1. CASE StartProgram  BY <1>1, <1>t DEF StartProgram
<1>2. CASE env_setup
  <2>1. rounds' = <<>> /\ Len(rounds') = 0 /\ rep_counter' = 1 /\ phase' = "test_setup"
    BY <1>2, EmptySeq DEF env_setup
  <2> QED  BY <2>1
<1>3. CASE test_setup  BY <1>3, <1>t DEF test_setup
<1>4. CASE test_main
  <2>1. PICK ticks \in Ticks : rounds' = Append(rounds, ticks)  BY <1>4 DEF test_main
  <2>2. rounds' # <<>> /\ Len(rounds') = Len(rounds) + 1  BY <2>1, <1>t, OneMore
  <2> QED  BY <1>4, <1>t, <2>2 DEF test_main
<1>5. CASE Crash  BY <1>5, <1>t DEF Crash
<1>6. CASE test_teardown  BY <1>6, <1>t DEF test_teardown
<1>7. CASE EndRound  BY <1>7, <1>t DEF EndRound
<1>8. CASE EndTest  BY <1>8, <1>t DEF EndTest
<1>9. CASE env_teardown  BY <1>9, <1>t DEF env_teardown
<1>10. CASE print_stats  BY <1>10, <1>t DEF print_stats
<1>11. CASE EndProgram  BY <1>11, <1>t DEF EndProgram
<1>12. CASE Failure  BY <1>12, <1>t DEF Failure, Fails
<1>13. CASE UNCHANGED vars  BY <1>13, <1>t DEF vars, This, IsSweep, elapsed_seconds
<1> QED
  BY <1>1, <1>2, <1>3, <1>4, <1>5, <1>6, <1>7, <1>8, <1>9, <1>10, <1>11, <1>12, <1>13
  DEF Next, Run, Terminated

LEMMA MinStep == TypeOK /\ MinInv /\ [Next]_vars => MinInv'
<1> SUFFICES ASSUME TypeOK, MinInv, [Next]_vars PROVE MinInv'  OBVIOUS
<1>s. phase # "print_stats" => (IsSweep <=> IsSweep')
  BY ThisKept DEF IsSweep
<1> USE DEF MinInv, InTest, InRound, clock, measure
<1>1. CASE StartProgram  BY <1>1, <1>s DEF StartProgram
<1>2. CASE env_setup  BY <1>2, <1>s DEF env_setup
<1>3. CASE test_setup  BY <1>3, <1>s DEF test_setup
<1>4. CASE test_main
  <2> SUFFICES ASSUME ~IsSweep PROVE IsMin(min_cpu_ticks', ToSet(rounds'))
    <3>1. \E ticks \in Ticks : rounds' = Append(rounds, ticks)  BY <1>4 DEF test_main
    <3>2. rounds \in Seq(Ticks)  BY DEF TypeOK
    <3>3. rounds' # <<>>  BY <3>1, <3>2, OneMore
    <3> QED  BY <1>4, <1>s, <3>3 DEF test_main, IsMin
  <2>1. PICK ticks \in Ticks : rounds' = Append(rounds, ticks) /\ min_cpu_ticks' = Minimum(ticks)
    BY <1>4 DEF test_main
  <2>2. ToSet(rounds') = ToSet(rounds) \cup {ticks} /\ ToSet(rounds) \subseteq Ticks
    <3>1. rounds \in Seq(Ticks)  BY DEF TypeOK
    <3>2. ToSet(Append(rounds, ticks)) = ToSet(rounds) \cup {ticks}  BY <3>1, ToSetAppend
    <3>3. ToSet(rounds) \subseteq Ticks  BY <3>1, ElementOfSeq, LenProperties DEF ToSet
    <3>4. rounds' = Append(rounds, ticks)  BY <2>1
    <3> QED  BY <3>2, <3>3, <3>4
  <2>3. CASE rounds = <<>>
    <3>1. ToSet(rounds') = {ticks} /\ min_cpu_ticks = 0
      BY <1>4, <2>2, <2>3, EmptySeq DEF test_main, ToSet
    <3> QED  BY <2>1, <3>1, TicksType DEF Minimum, IsMin
  <2>4. CASE rounds # <<>>
    <3>1. IsMin(min_cpu_ticks, ToSet(rounds))  BY <1>4, <2>4 DEF test_main
    <3>2. min_cpu_ticks # 0 /\ min_cpu_ticks \in Nat  BY <3>1, <2>2, TicksType DEF IsMin
    <3> QED  BY <2>1, <2>2, <3>1, <3>2, TicksType DEF Minimum, IsMin
  <2> QED  BY <2>3, <2>4
<1>5. CASE Crash  BY <1>5, <1>s DEF Crash
<1>6. CASE test_teardown  BY <1>6, <1>s DEF test_teardown
<1>7. CASE EndRound  BY <1>7, <1>s DEF EndRound
<1>8. CASE EndTest  BY <1>8, <1>s DEF EndTest
<1>9. CASE env_teardown  BY <1>9, <1>s DEF env_teardown
<1>10. CASE print_stats  BY <1>10, <1>s DEF print_stats
<1>11. CASE EndProgram  BY <1>11, <1>s DEF EndProgram
<1>12. CASE Failure  BY <1>12, <1>s DEF Failure, Fails
<1>13. CASE UNCHANGED vars  BY <1>13, <1>s DEF vars, This, IsSweep, elapsed_seconds
<1> QED
  BY <1>1, <1>2, <1>3, <1>4, <1>5, <1>6, <1>7, <1>8, <1>9, <1>10, <1>11, <1>12, <1>13
  DEF Next, Run, Terminated

LEMMA MaxStep == TypeOK /\ MaxInv /\ [Next]_vars => MaxInv'
<1> SUFFICES ASSUME TypeOK, MaxInv, [Next]_vars PROVE MaxInv'  OBVIOUS
<1>s. phase # "print_stats" => This' = This  BY ThisKept
<1> USE DEF MaxInv, InTest, InRound, clock, measure
<1>1. CASE StartProgram  BY <1>1, <1>s DEF StartProgram
<1>2. CASE env_setup  BY <1>2, <1>s DEF env_setup
<1>3. CASE test_setup  BY <1>3, <1>s DEF test_setup
<1>4. CASE test_main
  <2> SUFFICES ASSUME This.has_max PROVE IsMax(max_cpu_ticks', ToSet(rounds'))
    <3>1. \E ticks \in Ticks : rounds' = Append(rounds, ticks)  BY <1>4 DEF test_main
    <3>2. rounds \in Seq(Ticks)  BY DEF TypeOK
    <3>3. rounds' # <<>>  BY <3>1, <3>2, OneMore
    <3> QED  BY <1>4, <1>s, <3>3 DEF test_main, IsMax
  <2>1. PICK ticks \in Ticks : rounds' = Append(rounds, ticks) /\ max_cpu_ticks' = Maximum(ticks)
    BY <1>4 DEF test_main
  <2>2. ToSet(rounds') = ToSet(rounds) \cup {ticks} /\ ToSet(rounds) \subseteq Ticks
    <3>1. rounds \in Seq(Ticks)  BY DEF TypeOK
    <3>2. ToSet(Append(rounds, ticks)) = ToSet(rounds) \cup {ticks}  BY <3>1, ToSetAppend
    <3>3. ToSet(rounds) \subseteq Ticks  BY <3>1, ElementOfSeq, LenProperties DEF ToSet
    <3>4. rounds' = Append(rounds, ticks)  BY <2>1
    <3> QED  BY <3>2, <3>3, <3>4
  <2>3. CASE rounds = <<>>
    <3>1. ToSet(rounds') = {ticks} /\ max_cpu_ticks = 0
      BY <1>4, <2>2, <2>3, EmptySeq DEF test_main, ToSet
    <3> QED  BY <2>1, <3>1, TicksType DEF Maximum, IsMax
  <2>4. CASE rounds # <<>>
    <3>1. IsMax(max_cpu_ticks, ToSet(rounds))  BY <1>4, <2>4 DEF test_main
    <3>2. max_cpu_ticks # 0 /\ max_cpu_ticks \in Nat  BY <3>1, <2>2, TicksType DEF IsMax
    <3> QED  BY <2>1, <2>2, <3>1, <3>2, TicksType DEF Maximum, IsMax
  <2> QED  BY <2>3, <2>4
<1>5. CASE Crash  BY <1>5, <1>s DEF Crash
<1>6. CASE test_teardown  BY <1>6, <1>s DEF test_teardown
<1>7. CASE EndRound  BY <1>7, <1>s DEF EndRound
<1>8. CASE EndTest  BY <1>8, <1>s DEF EndTest
<1>9. CASE env_teardown  BY <1>9, <1>s DEF env_teardown
<1>10. CASE print_stats  BY <1>10, <1>s DEF print_stats
<1>11. CASE EndProgram  BY <1>11, <1>s DEF EndProgram
<1>12. CASE Failure  BY <1>12, <1>s DEF Failure, Fails
<1>13. CASE UNCHANGED vars  BY <1>13, <1>s DEF vars, This, IsSweep, elapsed_seconds
<1> QED
  BY <1>1, <1>2, <1>3, <1>4, <1>5, <1>6, <1>7, <1>8, <1>9, <1>10, <1>11, <1>12, <1>13
  DEF Next, Run, Terminated

LEMMA TimeStep == TypeOK /\ TimeInv /\ [Next]_vars => TimeInv'
<1> SUFFICES ASSUME TypeOK, TimeInv, [Next]_vars PROVE TimeInv'  OBVIOUS
<1>t. /\ rounds \in Seq(Ticks) /\ ends \in Seq(Nat) /\ elapse_ticks \in Nat
      /\ Len(rounds) \in Nat /\ Len(ends) \in Nat /\ (ends # <<>> => Len(ends) # 0)
      /\ This.runtime \in Nat
  BY LenProperties, EmptySeq, ThisType DEF TypeOK
<1>s. phase # "print_stats" => This' = This /\ (IsSweep <=> IsSweep')
  BY ThisKept DEF IsSweep
<1> USE DEF TimeInv, InTest, InRound, clock
<1>1. CASE StartProgram  BY <1>1, <1>t, <1>s DEF StartProgram
<1>2. CASE env_setup
  <2>1. rounds' = <<>> /\ ends' = <<>> /\ Len(rounds') = 0 /\ Len(ends') = 0
    BY <1>2, EmptySeq DEF env_setup
  <2> QED  BY <1>2, <2>1 DEF env_setup
<1>3. CASE test_setup  BY <1>3, <1>t, <1>s DEF test_setup
<1>4. CASE test_main
  <2>1. PICK ticks \in Ticks : rounds' = Append(rounds, ticks)  BY <1>4 DEF test_main
  <2>2. Len(rounds') = Len(rounds) + 1 /\ ends' = ends  BY <1>4, <2>1, <1>t, OneMore DEF test_main
  <2>3. phase = "test_main" /\ phase' = "test_teardown"  BY <1>4 DEF test_main
  <2> QED  BY <1>s, <1>t, <2>2, <2>3
<1>5. CASE Crash  BY <1>5, <1>t, <1>s DEF Crash
<1>6. CASE test_teardown
  <2>1. elapse_ticks' \in Nat  BY <1>6, TicksType, <1>t DEF test_teardown
  <2>2. /\ ends' # <<>> /\ Len(ends') = Len(ends) + 1
        /\ ends'[Len(ends')] = elapse_ticks'
        /\ \A k \in 1..Len(ends) : ends'[k] = ends[k]
    BY <1>6, <2>1, <1>t, OneMore DEF test_teardown
  <2>3. phase = "test_teardown" /\ phase' = "end_of_test" /\ rounds' = rounds
    BY <1>6 DEF test_teardown
  <2> QED  BY <1>s, <1>t, <2>2, <2>3
<1>7. CASE EndRound
  <2>1. elapse_ticks \div TICKS_PER_SECOND \in Nat  BY <1>t, RepAssumption
  <2>2. ~IsSweep => elapse_ticks \div TICKS_PER_SECOND <= This.runtime
    BY <1>7, <1>t, <2>1 DEF EndRound, IsOver, elapsed_seconds
  <2> QED  BY <1>7, <1>t, <1>s, <2>2 DEF EndRound
<1>8. CASE EndTest  BY <1>8, <1>t, <1>s DEF EndTest, IsOver, elapsed_seconds
<1>9. CASE env_teardown  BY <1>9, <1>t, <1>s DEF env_teardown
<1>10. CASE print_stats  BY <1>10, <1>t, <1>s DEF print_stats
<1>11. CASE EndProgram  BY <1>11, <1>t, <1>s DEF EndProgram
<1>12. CASE Failure  BY <1>12, <1>t, <1>s DEF Failure, Fails
<1>13. CASE UNCHANGED vars  BY <1>13, <1>t, <1>s DEF vars, This, IsSweep, elapsed_seconds
<1> QED
  BY <1>1, <1>2, <1>3, <1>4, <1>5, <1>6, <1>7, <1>8, <1>9, <1>10, <1>11, <1>12, <1>13
  DEF Next, Run, Terminated

\* The size of the buffer is an int in pages, and that asked for when this fits an int.
LEMMA SizeType ==
    ASSUME TypeOK
    PROVE  /\ buffer_size \in -(INT_PAGES \div 2)..INT_PAGES \div 2 - 1
           /\ This.num_pages \in 1..INT_PAGES \div 2 - 1 => buffer_size = This.num_pages
<1> DEFINE n == This.num_pages
           pages == n % INT_PAGES
           half == INT_PAGES \div 2
<1>1. n \in Int /\ INT_PAGES \in Nat /\ INT_PAGES > 0  BY ThisType, RepAssumption
<1>2. INT_PAGES % 2 = 0  BY RepAssumption
<1>3. half \in Nat /\ half + half = INT_PAGES  BY <1>1, <1>2
<1>4. pages \in 0..INT_PAGES - 1  BY <1>1
<1>5. n \in 0..INT_PAGES - 1 => pages = n  BY <1>1
<1>6. buffer_size = IF pages < half THEN pages ELSE pages - INT_PAGES  BY DEF buffer_size
<1> HIDE DEF n, pages, half
<1>7. buffer_size \in -half..half - 1 /\ (n \in 1..half - 1 => buffer_size = n)
  BY <1>1, <1>3, <1>4, <1>5, <1>6
<1> QED  BY <1>7 DEF n, half

\* The size of the buffer is that of the running test.
LEMMA SizeKept ==
    ASSUME [Next]_vars, phase # "print_stats"
    PROVE  This' = This /\ buffer_size' = buffer_size /\ (IsSweep <=> IsSweep')
BY ThisKept DEF buffer_size, IsSweep

LEMMA SweepStep == TypeOK /\ SweepInv /\ [Next]_vars => SweepInv'
<1> SUFFICES ASSUME TypeOK, SweepInv, [Next]_vars PROVE SweepInv'  OBVIOUS
<1>t. /\ buffer_size \in Int /\ touch_count \in Nat /\ is_test_done \in BOOLEAN
      /\ rows \in Seq(Nat) /\ Len(rows) \in Nat
  BY LenProperties, SizeType, RepAssumption DEF TypeOK
<1>s. phase # "print_stats" => buffer_size' = buffer_size /\ (IsSweep <=> IsSweep')
  BY SizeKept
<1>i. IsSweep <=> This.buffer = "mmap"  BY DEF IsSweep
<1> USE DEF SweepInv, InTest, InRound, measure
<1>1. CASE StartProgram  BY <1>1, <1>t, <1>s DEF StartProgram
<1>2. CASE env_setup
  <2>1. rows' = <<>> /\ Len(rows') = 0 /\ ~is_test_done' /\ phase' = "test_setup"
    BY <1>2, EmptySeq DEF env_setup
  <2>2. IsSweep' => touch_count' = 1 /\ buffer_size' \in Int
    BY <1>2, <1>s, <1>t DEF env_setup
  <2> QED  BY <2>1, <2>2
<1>3. CASE test_setup
  <2>1. IsSweep => buffer' = "failed" \/ buffer_size > 0
    BY <1>3, <1>i DEF test_setup, Allocate
  <2> QED  BY <1>3, <1>t, <1>s, <2>1 DEF test_setup
<1>4. CASE test_main  BY <1>4, <1>t, <1>s DEF test_main
<1>5. CASE Crash  BY <1>5, <1>t, <1>s DEF Crash
<1>6. CASE test_teardown
  <2> SUFFICES ASSUME IsSweep PROVE SweepInv'
    BY <1>6, <1>s DEF test_teardown
  <2>1. /\ touch_count \in 1..buffer_size /\ Len(rows) = touch_count - 1
        /\ \A k \in 1..Len(rows) : rows[k] = k
        /\ buffer_size > 0
    BY <1>6, <1>t DEF test_teardown
  <2>2. rows' = Append(rows, touch_count) /\ touch_count' = touch_count + 1
    BY <1>6 DEF test_teardown
  <2>3. /\ Len(rows') = Len(rows) + 1 /\ rows'[Len(rows')] = touch_count
        /\ \A k \in 1..Len(rows) : rows'[k] = rows[k]
    BY <1>t, <2>2, OneMore
  <2>4. ~is_test_done  BY <1>6 DEF test_teardown
  <2>5. is_test_done' <=> touch_count' > buffer_size
    BY <1>6, <2>4 DEF test_teardown, SweepIsDone, max_touch_count
  <2>6. phase' = "end_of_test"  BY <1>6 DEF test_teardown
  <2>7. buffer_size' = buffer_size  BY <1>6, <1>s DEF test_teardown
  <2>8. touch_count' \in 1..buffer_size' + 1 /\ Len(rows') = touch_count' - 1
    BY <1>t, <2>1, <2>2, <2>3, <2>7
  <2>9. \A k \in 1..Len(rows') : rows'[k] = k
    <3> SUFFICES ASSUME NEW k \in 1..Len(rows') PROVE rows'[k] = k  OBVIOUS
    <3>1. k \in 1..Len(rows) \/ k = Len(rows')  BY <1>t, <2>3
    <3>2. Len(rows') = touch_count  BY <1>t, <2>1, <2>3
    <3> QED  BY <2>1, <2>3, <3>1, <3>2
  <2>10. is_test_done' <=> touch_count' > buffer_size'  BY <2>5, <2>7
  <2>11. touch_count' > 0 /\ touch_count' <= buffer_size' + 1 /\ buffer_size' > 0
    BY <1>t, <2>1, <2>7, <2>8
  <2>12. Len(rows') = touch_count' - 1  BY <2>8
  <2> QED  BY <2>6, <2>9, <2>10, <2>11, <2>12
<1>7. CASE EndRound  BY <1>7, <1>t, <1>s DEF EndRound, IsOver
<1>8. CASE EndTest  BY <1>8, <1>t, <1>s DEF EndTest, IsOver
<1>9. CASE env_teardown  BY <1>9, <1>t, <1>s DEF env_teardown
<1>10. CASE print_stats  BY <1>10, <1>t, <1>s DEF print_stats
<1>11. CASE EndProgram  BY <1>11, <1>t, <1>s DEF EndProgram
<1>12. CASE Failure  BY <1>12, <1>t, <1>s DEF Failure, Fails
<1>13. CASE UNCHANGED vars
  <2>1. UNCHANGED <<phase, buffer, touch_count, is_test_done, rows>>
    BY <1>13 DEF vars, context
  <2>2. buffer_size' = buffer_size /\ (IsSweep <=> IsSweep')
    BY <1>13 DEF vars, This, buffer_size, IsSweep
  <2> QED  BY <2>1, <2>2
<1> QED
  BY <1>1, <1>2, <1>3, <1>4, <1>5, <1>6, <1>7, <1>8, <1>9, <1>10, <1>11, <1>12, <1>13
  DEF Next, Run, Terminated

-----------------------------------------------------------------------------
(* Theorems.                                                               *)

LEMMA InitInv == Init => RepInv
<1> SUFFICES ASSUME Init PROVE RepInv  OBVIOUS
<1>1. TypeOK  BY TypeInit
<1>2. BufferInv /\ FileInv
  BY DEF Init, BufferInv, FileInv, HoldsBuffer, HoldsFile, InTest, InRound, Failed
<1>3. CountInv /\ MinInv /\ MaxInv /\ TimeInv /\ SweepInv
  BY DEF Init, CountInv, MinInv, MaxInv, TimeInv, SweepInv, InTest, InRound
<1> QED  BY <1>1, <1>2, <1>3 DEF RepInv

LEMMA NextInv == RepInv /\ [Next]_vars => RepInv'
BY TypeStep, BufferStep, FileStep, CountStep, MinStep, MaxStep, TimeStep, SweepStep DEF RepInv

LEMMA Invariant == Spec => []RepInv
BY InitInv, NextInv, PTL DEF Spec

\* The variables keep their types and the tester never leaves the program's tests
\* (rep_tester_run).
THEOREM TesterTypeCorrect == Spec => []TypeOK
<1>1. RepInv => TypeOK  BY DEF RepInv
<1> QED  BY <1>1, Invariant, PTL

\* In every round of every test, test_main has its buffer and its file at the start.
THEOREM TesterMainHasItsResources == Spec => []MainHasItsResources
<1>1. RepInv => MainHasItsResources
  <2> SUFFICES ASSUME RepInv, phase = "test_main" PROVE MainHasItsResources  BY DEF MainHasItsResources
  <2>1. HoldsBuffer /\ buffer \in {"null", "live", "failed"}
    BY ThisType DEF RepInv, TypeOK, HoldsBuffer, InTest, InRound
  <2> QED  BY <2>1 DEF RepInv, BufferInv, FileInv, Failed, MainHasItsResources
<1> QED  BY <1>1, Invariant, PTL

\* However many tests and rounds were run, no buffer and no file is left.
THEOREM TesterNothingIsLeft == Spec => []NothingIsLeft
<1>1. RepInv => NothingIsLeft
  <2> SUFFICES ASSUME RepInv, phase \in {"print_stats", "summary", "done"} PROVE NothingIsLeft
    BY DEF NothingIsLeft
  <2>1. ~InTest /\ ~InRound /\ ~Failed  BY DEF InTest, InRound, Failed
  <2>2. /\ buffer \in {"null", "live", "failed"} /\ file \in {"closed", "start", "end"}
        /\ SharesBuffer <=> This.buffer = "program"
    BY ThisType DEF RepInv, TypeOK
  <2>3. files = 0 /\ file = "closed"  BY <2>1, <2>2 DEF RepInv, FileInv, HoldsFile
  <2>4. /\ phase = "done" => buffers = 0 /\ buffer = "null"
        /\ phase # "done" => buffers = (IF SharesBuffer THEN 1 ELSE 0)
    BY <2>1, <2>2 DEF RepInv, BufferInv, HoldsBuffer
  <2> QED  BY <2>3, <2>4 DEF NothingIsLeft
<1> QED  BY <1>1, Invariant, PTL

\* The statistics that are printed are the least, the greatest and the number of the
\* rounds of this test.
THEOREM TesterStatsAreOfTheRounds == Spec => []StatsAreOfTheRounds
<1>1. RepInv => StatsAreOfTheRounds
  BY DEF RepInv, StatsAreOfTheRounds, CountInv, MinInv, MaxInv, InTest
<1> QED  BY <1>1, Invariant, PTL

\* A timed test ends at the first round at whose end its time is over.
THEOREM TesterStopsWithItsTime == Spec => []StopsWithItsTime
<1>1. RepInv => StopsWithItsTime
  <2> SUFFICES ASSUME RepInv, phase = "env_teardown", ~IsSweep PROVE StopsWithItsTime
    BY DEF StopsWithItsTime
  <2>1. Len(ends) = Len(rounds) /\ Len(rounds) \in Nat /\ elapsed_seconds > This.runtime
    BY LenProperties DEF RepInv, TimeInv, TypeOK
  <2>2. \A k \in 1..Len(ends) :
          ends[k] \div TICKS_PER_SECOND <= This.runtime \/ k = Len(ends)
    BY DEF RepInv, TimeInv, InTest
  <2> QED  BY <2>1, <2>2 DEF StopsWithItsTime
<1> QED  BY <1>1, Invariant, PTL

\* For any argument of -n, also where the size in bytes wraps or is negative as an int
\* (env_setup of page_faults1), no round of a sweep touches a page behind its buffer, and a
\* sweep that comes to its end has one row for each number of pages up to those of its
\* buffer: these are all it was asked for when their bytes fit an int.
THEOREM TesterSweepIsComplete == Spec => []SweepIsComplete
<1>1. ASSUME RepInv, phase = "test_main", IsSweep, buffer = "live"
      PROVE  touch_count \in 1..buffer_size
  <2>1. buffer_size \in Int /\ touch_count \in Nat
    BY <1>1, SizeType, RepAssumption DEF RepInv, TypeOK
  <2> QED  BY <1>1, <2>1 DEF RepInv, SweepInv, InTest, InRound
<1>2. ASSUME RepInv, phase = "env_teardown", IsSweep
      PROVE  /\ rows # <<>> /\ rows = [k \in 1..buffer_size |-> k]
             /\ This.num_pages \in 1..INT_PAGES \div 2 - 1 => Len(rows) = This.num_pages
  <2>1. /\ buffer_size \in Int
        /\ This.num_pages \in 1..INT_PAGES \div 2 - 1 => buffer_size = This.num_pages
    BY <1>2, SizeType, RepAssumption DEF RepInv
  <2>2. touch_count = buffer_size + 1 /\ buffer_size > 0
    BY <1>2, <2>1 DEF RepInv, TypeOK, SweepInv, InTest, InRound
  <2>3. Len(rows) = buffer_size /\ \A k \in 1..buffer_size : rows[k] = k
    BY <1>2, <2>1, <2>2 DEF RepInv, SweepInv, InTest
  <2>4. rows \in Seq(Nat)  BY <1>2 DEF RepInv, TypeOK
  <2>5. rows = [k \in 1..buffer_size |-> k]  BY <2>3, <2>4, LenProperties
  <2>6. rows # <<>>  BY <2>2, <2>3, EmptySeq
  <2> QED  BY <2>1, <2>3, <2>5, <2>6
<1>3. RepInv => SweepIsComplete  BY <1>1, <1>2 DEF SweepIsComplete
<1> QED  BY <1>3, Invariant, PTL
=============================================================================
