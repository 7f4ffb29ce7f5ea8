------------------------- MODULE SimulatorDrawings -------------------------
(***************************************************************************)
(* The drawing listings 54 and 55 of simulator_8086/tests for images of    *)
(* n by n pixels (64 by 64 in the listings), and the image they must draw. *)
(***************************************************************************)
EXTENDS Simulator

\* The image starts at 256; a pixel has four bytes, a row n pixels.
PixelAt(n, x, y) == 256 + 4 * (y * n + x)
Le(w) == <<w % 256, w \div 256>>

\* Listing 54: red counts x up, blue counts y up.
Gradient(n) ==
    <<189,0,1, 186,0,0, 185,0,0, 137,78,0, 137,86,2, 198,70,3,255, 131,197,4,
      131,193,1, 131,249,n, 117,235, 131,194,1, 131,250,n, 117,224>>

\* Listing 55: the same with loop, counting down; then a green outline inside.
Outline(n) ==
    <<189,0,1, 186>> \o Le(n) \o <<185>> \o Le(n) \o
    <<136,78,0, 198,70,1,0, 136,86,2, 198,70,3,255, 131,197,4, 226,237,
      131,234,1, 117,229>> \o
    <<189>> \o Le(PixelAt(n, 1, 1)) \o <<137,235, 185>> \o Le(n - 2) \o
    <<198,70,1,255, 198,134>> \o Le(4 * n * (n - 3) + 1) \o <<255, 198,71,1,255,
      198,135>> \o Le(4 * (n - 3) + 1) \o <<255, 131,197,4, 129,195>> \o Le(4 * n) \o
    <<226,229>>

GradientSizes == 1..5
OutlineSizes == 3..5
Drawings == {Gradient(n) : n \in GradientSizes} \cup {Outline(n) : n \in OutlineSizes}

-----------------------------------------------------------------------------
OnOutline(n, x, y) ==
    /\ x \in 1..n - 2 /\ y \in 1..n - 2
    /\ {x, y} \cap {1, n - 2} # {}

Pixel(n, x, y) ==
    [red |-> Cell(memory, PixelAt(n, x, y)), green |-> Cell(memory, PixelAt(n, x, y) + 1),
     blue |-> Cell(memory, PixelAt(n, x, y) + 2), alpha |-> Cell(memory, PixelAt(n, x, y) + 3)]
Colour(red, green, blue) == [red |-> red, green |-> green, blue |-> blue, alpha |-> 255]

\* Nothing outside the image of n by n pixels was written, the program included.
OnlyImageIsWritten(n) ==
    /\ DOMAIN memory \subseteq 0..bytes_available - 1
                              \cup PixelAt(n, 0, 0)..PixelAt(n, 0, n) - 1
    /\ \A a \in 0..bytes_available - 1 : Cell(memory, a) = program[a + 1]

GradientIsDrawn(n) == \A x, y \in 0..n - 1 : Pixel(n, x, y) = Colour(x, 0, y)
OutlineIsDrawn(n) ==
    \A x, y \in 0..n - 1 :
        Pixel(n, x, y) = Colour(n - x, IF OnOutline(n, x, y) THEN 255 ELSE 0, n - y)

\* When a drawing ends every pixel has the colour the listing paints, and no other
\* cell was written: the nested loops, the flags they test, the 16-bit addresses with
\* their displacements and the stores of the simulator add up to the image.
ImageIsDrawn ==
    status # "running" =>
        /\ \A n \in GradientSizes : program = Gradient(n) =>
              status = "done" /\ GradientIsDrawn(n) /\ OnlyImageIsWritten(n)
        /\ \A n \in OutlineSizes : program = Outline(n) =>
              status = "done" /\ OutlineIsDrawn(n) /\ OnlyImageIsWritten(n)
=============================================================================
