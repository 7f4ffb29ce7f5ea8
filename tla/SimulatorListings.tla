------------------------- MODULE SimulatorListings -------------------------
(***************************************************************************)
(* The listings of simulator_8086/tests with the final state that their    *)
(* recorded executions (listing_00*.txt) report.                           *)
(***************************************************************************)
EXTENDS Simulator

\* A register that the recording does not list is 0.  clocks is the last total of
\* the 8086 section, or -1 where the recording has none.
Ends(ip_, z, s, clocks, values) ==
    [ip |-> ip_, flags |-> [z |-> z, s |-> s], clocks |-> clocks, values |-> values]

Listing43 == <<184,1,0, 187,2,0, 185,3,0, 186,4,0, 188,5,0, 189,6,0, 190,7,0, 191,8,0>>
Final43 == Ends(24, FALSE, FALSE, -1,
    [REG_AX |-> 1, REG_BX |-> 2, REG_CX |-> 3, REG_DX |-> 4,
     REG_SP |-> 5, REG_BP |-> 6, REG_SI |-> 7, REG_DI |-> 8])
Listing44 == <<184,1,0, 187,2,0, 185,3,0, 186,4,0, 137,196, 137,221, 137,206, 137,215,
               137,226, 137,233, 137,243, 137,248>>
Final44 == Ends(28, FALSE, FALSE, -1,
    [REG_AX |-> 4, REG_BX |-> 3, REG_CX |-> 2, REG_DX |-> 1,
     REG_SP |-> 1, REG_BP |-> 2, REG_SI |-> 3, REG_DI |-> 4])
Listing45 == <<184,34,34, 187,68,68, 185,102,102, 186,136,136, 142,208, 142,219, 142,193,
               176,17, 183,51, 177,85, 182,119, 136,220, 136,241, 142,208, 142,219,
               142,193, 140,212, 140,221, 140,198, 137,215>>
Final45 == Ends(44, FALSE, FALSE, -1,
    [REG_AX |-> 17425, REG_BX |-> 13124, REG_CX |-> 26231, REG_DX |-> 30600,
     REG_SP |-> 17425, REG_BP |-> 13124, REG_SI |-> 26231, REG_DI |-> 30600,
     SEG_REG_ES |-> 26231, SEG_REG_SS |-> 17425, SEG_REG_DS |-> 13124])
Listing46 == <<187,3,240, 185,1,15, 41,203, 188,230,3, 189,231,3, 57,229, 129,197,3,4,
               129,237,234,7>>
Final46 == Ends(24, TRUE, FALSE, -1,
    [REG_BX |-> 57602, REG_CX |-> 3841, REG_SP |-> 998])
Listing48 == <<185,200,0, 137,203, 129,193,232,3, 187,208,7, 41,217>>
Final48 == Ends(14, FALSE, TRUE, -1, [REG_BX |-> 2000, REG_CX |-> 64736])
Listing49 == <<185,3,0, 187,232,3, 131,195,10, 131,233,1, 117,248>>
Final49 == Ends(14, TRUE, FALSE, -1, [REG_BX |-> 1030])
Listing51 == <<199,6,232,3,1,0, 199,6,234,3,2,0, 199,6,236,3,3,0, 199,6,238,3,4,0,
               187,232,3, 199,71,4,10,0, 139,30,232,3, 139,14,234,3, 139,22,236,3,
               139,46,238,3>>
Final51 == Ends(48, FALSE, FALSE, -1,
    [REG_BX |-> 1, REG_CX |-> 2, REG_DX |-> 10, REG_BP |-> 4])
Listing52 == <<186,6,0, 189,232,3, 190,0,0, 137,50, 131,198,2, 57,214, 117,247, 187,0,0,
               190,0,0, 139,10, 1,203, 131,198,2, 57,214, 117,245>>
Final52 == Ends(35, TRUE, FALSE, -1,
    [REG_BX |-> 6, REG_CX |-> 4, REG_DX |-> 6, REG_BP |-> 1000, REG_SI |-> 6])
Listing53 == <<186,6,0, 189,232,3, 190,0,0, 137,50, 131,198,2, 57,214, 117,247, 187,0,0,
               137,214, 131,237,2, 3,26, 131,238,2, 117,249>>
Final53 == Ends(33, TRUE, FALSE, -1,
    [REG_BX |-> 6, REG_DX |-> 6, REG_BP |-> 998])
Listing56 == <<187,232,3, 189,208,7, 190,184,11, 191,160,15, 137,217, 186,12,0,
               139,22,232,3, 139,15, 139,78,0, 137,12, 137,13, 139,143,232,3,
               139,142,232,3, 137,140,232,3, 137,141,232,3, 1,209, 1,141,232,3, 131,194,50>>
Final56 == Ends(55, FALSE, FALSE, 192,
    [REG_BX |-> 1000, REG_DX |-> 50, REG_BP |-> 2000, REG_SI |-> 3000, REG_DI |-> 4000])
Listing57 == <<187,232,3, 189,208,7, 190,184,11, 191,160,15, 139,11, 137,8, 139,10, 137,9,
               139,139,232,3, 137,136,232,3, 139,138,232,3, 137,137,232,3, 3,146,232,3,
               131,2,76, 3,146,233,3, 1,149,231,3, 131,2,75>>
Final57 == Ends(54, FALSE, FALSE, 289,
    [REG_BX |-> 1000, REG_BP |-> 2000, REG_SI |-> 3000, REG_DI |-> 4000])

Recorded == {
    <<Listing43, Final43>>, <<Listing44, Final44>>, <<Listing45, Final45>>,
    <<Listing46, Final46>>, <<Listing48, Final48>>, <<Listing49, Final49>>,
    <<Listing51, Final51>>, <<Listing52, Final52>>, <<Listing53, Final53>>,
    <<Listing56, Final56>>, <<Listing57, Final57>>}
Listings == {r[1] : r \in Recorded}

-----------------------------------------------------------------------------
Holds(final, name, value) ==
    value = IF name \in DOMAIN final.values THEN final.values[name] ELSE 0

\* A listing that has ended has every register, segment register, flag, instruction
\* pointer and clock total that its recorded execution reports: the decoder, the
\* handlers, the jumps and the clock table of the simulator agree with the recording.
FinalStateMatchesListing ==
    status # "running" =>
        \A r \in Recorded : r[1] = program =>
            /\ status = "done"
            /\ \A n \in FullRegisters : Holds(r[2], n, registers[n])
            /\ \A n \in SegRegisters : Holds(r[2], n, segment_registers[n])
            /\ ip = r[2].ip /\ flags = r[2].flags
            /\ r[2].clocks \in {-1, total_clocks}
=============================================================================
