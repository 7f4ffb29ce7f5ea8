------------------------ MODULE MCSimulatorPrograms ------------------------
(***************************************************************************)
(* Whole programs: the recorded listings, the drawings, one program that   *)
(* fills the memory, and a program for each claim of the repository.       *)
(***************************************************************************)
EXTENDS SimulatorListings, SimulatorDrawings

\* jnz to the last address; here: jnz here; cmp bx, 1; jnz to the last address.  The
\* instruction at the last address is sub ax, with its immediate word beyond the memory.
FullProgram ==
    LET code == <<117,253, 117,254, 131,251,1, 117,246>>
    IN  [k \in 1..MEMORY_SIZE |-> CASE k <= Len(code) -> code[k]
                                    [] k = MEMORY_SIZE -> 45
                                    [] OTHER -> 0]
WholePrograms == Listings \cup Drawings \cup {FullProgram}

\* mov byte [32], 9; mov al, [bp+32]
LoadPrograms == {<<198,6,32,0,9, 138,70,32>>}

SomeSpill == {[k \in Window |-> 0], [k \in Window |-> 1]}
=============================================================================
