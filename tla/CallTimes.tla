------------------------------ MODULE CallTimes ------------------------------
(***************************************************************************)
(* What a block profiler promises its client: blocks nest like calls; a    *)
(* block that calls itself is measured by its outermost call.  total is the*)
(* time spent in the finished outermost calls of a block, count their      *)
(* number.                                                                 *)
(***************************************************************************)
EXTENDS Integers, Sequences

CONSTANT Blocks

VARIABLES clock,    \* the time stamp counter
          open,     \* the open blocks, outermost first: [block, since, again]
          total,    \* ticks by block
          count     \* finished outermost calls by block

vars == <<clock, open, total, count>>

Top == open[Len(open)]
IsOpen(b) == \E k \in DOMAIN open : open[k].block = b

Init ==
    /\ clock \in Nat
    /\ open = <<>>
    /\ total = [b \in Blocks |-> 0]
    /\ count = [b \in Blocks |-> 0]

Elapse == clock' \in Nat /\ clock' >= clock

\* again counts the calls of the innermost block to itself.
Enter(b) ==
    /\ Elapse
    /\ \/ /\ ~IsOpen(b)
          /\ open' = Append(open, [block |-> b, since |-> clock', again |-> 0])
       \/ /\ open # <<>> /\ Top.block = b
          /\ open' = [open EXCEPT ![Len(open)].again = @ + 1]
    /\ UNCHANGED <<total, count>>

Leave ==
    /\ Elapse
    /\ open # <<>>
    /\ IF Top.again > 0
       THEN /\ open' = [open EXCEPT ![Len(open)].again = @ - 1]
            /\ UNCHANGED <<total, count>>
       ELSE /\ open' = SubSeq(open, 1, Len(open) - 1)
            /\ total' = [total EXCEPT ![Top.block] = @ + (clock' - Top.since)]
            /\ count' = [count EXCEPT ![Top.block] = @ + 1]

Wait == Elapse /\ UNCHANGED <<open, total, count>>

Next == (\E b \in Blocks : Enter(b)) \/ Leave \/ Wait
Spec == Init /\ [][Next]_vars
=============================================================================
