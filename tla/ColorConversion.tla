--------------------------- MODULE ColorConversion ---------------------------
(***************************************************************************)
(* The colour space conversion of jonny/csc.c as me_csc splits it: the     *)
(* Media Engine converts the upper half of a frame and the main CPU the    *)
(* lower half, both with csc_asm, at the same time.  csc_asm takes the     *)
(* luma rows in pairs, each with one row of chroma, and counts the pairs   *)
(* down to zero; csc_c is the same conversion in C, of a whole frame.      *)
(*                                                                         *)
(* A row of the result is the chroma row it was made with; the luma row it *)
(* was made with is always its own.                                        *)
(***************************************************************************)
EXTENDS Integers

CONSTANT MaxHeight   \* bound on the height of a frame

ASSUME ColorConversionAssumption == MaxHeight \in Nat

Row == 0 .. MaxHeight - 1
Stale == -1          \* a row that still shows an earlier picture

(* What README.PSP asks of a frame's height.                               *)
GoodHeight(h) == h > 0 /\ h % 4 = 0

VARIABLES height,                \* of the frame
          me_pair, cpu_pair,     \* pairs each processor has converted
          out                    \* the picture buffer

cscvars == <<height, me_pair, cpu_pair, out>>

-----------------------------------------------------------------------------
(* The two csc_struct that me_csc fills.                                   *)
HalfHeight(h) == h \div 2
MeFirstRow == 0
MeFirstChroma == 0
CpuFirstRow_pairs(h) == 2 * (h \div 4) + 2
CpuFirstRow(h) == h \div 2
CpuFirstChroma(h) == h \div 4

(* csc_asm halves the height it is given to count the pairs.               *)
Pairs(h) == h \div 2

(* One pass of h_loop: two rows of luma and of the result, one of chroma.  *)
WritePair(first, chroma, k) ==
  [r \in Row |-> IF r \in {first + 2 * k, first + 2 * k + 1}
                   THEN chroma + k ELSE out[r]]

CscInit == /\ height \in {h \in 1 .. MaxHeight : GoodHeight(h)}
           /\ me_pair = 0 /\ cpu_pair = 0
           /\ out = [r \in Row |-> Stale]

MeStep == /\ me_pair < Pairs(HalfHeight(height))
          /\ out' = WritePair(MeFirstRow, MeFirstChroma, me_pair)
          /\ me_pair' = me_pair + 1
          /\ UNCHANGED <<height, cpu_pair>>

CpuStep == /\ cpu_pair < Pairs(HalfHeight(height))
           /\ out' = WritePair(CpuFirstRow(height), CpuFirstChroma(height),
                               cpu_pair)
           /\ cpu_pair' = cpu_pair + 1
           /\ UNCHANGED <<height, me_pair>>

Converted == /\ me_pair = Pairs(HalfHeight(height))
             /\ cpu_pair = Pairs(HalfHeight(height))

CscNext == MeStep \/ CpuStep \/ (Converted /\ UNCHANGED cscvars)

CscSpec == CscInit /\ [][CscNext]_cscvars

-----------------------------------------------------------------------------
(* csc_c converts rows y and y + 1 for y = 0, 2, ... below the height, and *)
(* moves to the next chroma row after each pair.                           *)
CscC(h) == [r \in Row |-> IF r < 2 * ((h + 1) \div 2) THEN r \div 2 ELSE Stale]

(* The columns of a row: csc_asm converts eight at a time and counts half  *)
(* of the width down by four.                                              *)
AsmColumns(w) == UNION {8 * g .. 8 * g + 7 : g \in 0 .. (w \div 2) \div 4 - 1}

-----------------------------------------------------------------------------
(* The tables: fixed point with 13 bits, and the clamp to a byte.          *)
Byte == 0 .. 255
my(y)  == 9539 * y
mu1(u) == 5441 + 16525 * u
mv1(v) == 447107 + 13075 * v
mu2(u) == -3209 * u
mv2(v) == 3383922 - 6660 * v
FixSize == 812

Fix(i) == IF i < 277 THEN 0 ELSE IF i > 532 THEN 255 ELSE i - 277

Red(y, v)      == (my(y) + mv1(v)) \div 8192
Green(y, u, v) == (my(y) + mu2(u) + mv2(v)) \div 8192
Blue(y, u)     == (my(y) + mu1(u)) \div 8192

-----------------------------------------------------------------------------
(* Among the types: no row of chroma beyond the frame's is read.           *)
CscTypeOK == /\ height \in {h \in 1 .. MaxHeight : GoodHeight(h)}
             /\ me_pair \in 0 .. Pairs(HalfHeight(height))
             /\ cpu_pair \in 0 .. Pairs(HalfHeight(height))
             /\ out \in [Row -> {Stale} \cup 0 .. height \div 2 - 1]

(* Neither processor ever overwrites a row the other one has converted,    *)
(* nor goes beyond the frame.                                              *)
RowWrittenOnce ==
  [][\A r \in Row : out'[r] # out[r] => out[r] = Stale /\ r < height]_cscvars

(* When both processors have ended, the frame is the one csc_c would have  *)
(* made: no row is missing, and each has its own chroma.                   *)
SplitIsWhole == Converted => out = CscC(height)
=============================================================================
