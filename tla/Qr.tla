---------------------------------- MODULE Qr ----------------------------------
(***************************************************************************)
(* The QR encoder that draws an authenticator's enrolment URI (lib/qr.ts): *)
(* the arithmetic of its error correction, the choice of a version, the    *)
(* split into blocks, the function patterns and the walk that places the   *)
(* data bits around them. Which modules are dark is left out: a module is  *)
(* reserved or free, and a byte is only followed through the error         *)
(* correction. The choice of a mask permutes colours and is not modelled.  *)
(***************************************************************************)
EXTENDS Integers, Sequences, FiniteSets, Bitwise

CONSTANTS
  Lengths,   \* byte lengths of texts to encode
  Bytes,     \* bytes a block is made of
  MaxBlock   \* bound on the block whose error correction is followed

QrAssumption ==
  /\ Lengths \subseteq Nat /\ Bytes \subseteq 0..255 /\ MaxBlock \in Nat

VARIABLES
  doing,     \* "choose", "place", "done", "too-long", "tables" or "divide"
  version,   \* the version chosen
  payload,   \* codewords of the padded text
  cursor,    \* the walk: the right column of the pair, the step, the side
  bit,       \* bits placed so far
  spare,     \* free modules passed when no bit was left
  exp, log,  \* EXP and LOG
  divisor,   \* rsDivisor's result, and the roots it has so far
  roots,
  block,     \* bytes divided so far
  rem        \* rsRemainder's result for them

qrVars == <<doing, version, payload, cursor, bit, spare, exp, log, divisor, roots, block, rem>>
layout == <<version, payload, cursor, bit, spare>>
eccs == <<exp, log, divisor, roots, block, rem>>

-------------------------------------------------------------------------------
(* GF(256), by powers of 2 modulo the standard's polynomial. *)
Double(x) == IF 2 * x >= 256 THEN ((2 * x) % 256) ^^ 29 ELSE 2 * x

GfMul(a, b) == IF a = 0 \/ b = 0 THEN 0 ELSE exp[((log[a] + log[b]) % 255) + 1]

(* A round of rsDivisor: multiply by the next root and add the neighbour.  *)
DivisorRound(res, root) ==
  [j \in 1..Len(res) |-> GfMul(res[j], root) ^^ (IF j < Len(res) THEN res[j + 1] ELSE 0)]

(* One byte of rsRemainder: shift, and subtract a multiple of the divisor. *)
Divided(res, b) ==
  LET factor == b ^^ res[1]
      shifted == Tail(res) \o <<0>>
  IN [i \in 1..Len(divisor) |-> shifted[i] ^^ GfMul(divisor[i], factor)]

-------------------------------------------------------------------------------
(* Version tables. *)
EccPerBlock == <<10, 16, 26, 18, 24, 16, 18, 22, 22, 26>>
Blocks == <<1, 1, 1, 2, 2, 4, 4, 4, 5, 5>>

RawDataModules(v) ==
  LET n == v \div 7 + 2 IN
  (16 * v + 128) * v + 64
    - (IF v >= 2 THEN (25 * n - 10) * n - 55 ELSE 0)
    - (IF v >= 7 THEN 36 ELSE 0)

RawCodewords(v) == RawDataModules(v) \div 8
DataCodewords(v) == RawCodewords(v) - Blocks[v] * EccPerBlock[v]

HeaderBits(v) == 4 + (IF v < 10 THEN 8 ELSE 16)
FitsBare(n, v) == n <= DataCodewords(v)   \* mutant: the header takes no room
Fits(n, v) == HeaderBits(v) + 8 * n <= 8 * DataCodewords(v)

(* payloadCodewords: header and text, a terminator of at most four bits,   *)
(* zeros to the byte, and pad bytes.                                       *)
PayloadCodewords(n, v) ==
  LET used == HeaderBits(v) + 8 * n
      room == 8 * DataCodewords(v) - used
      ended == used + (IF room >= 4 THEN 4 ELSE IF room > 0 THEN room ELSE 0)
      whole == (ended + 7) \div 8
  IN IF whole < DataCodewords(v) THEN DataCodewords(v) ELSE whole

(* interleave: the length of each block's data, and of what is read out of *)
(* the blocks column by column without the short ones' placeholder.        *)
ShortBlocks(v) == Blocks[v] - (RawCodewords(v) % Blocks[v])
BlockLen(v, j) ==
  ((RawCodewords(v) \div Blocks[v]) - EccPerBlock[v]) + (IF j <= ShortBlocks(v) THEN 0 ELSE 1)
Interleaved(v) ==
  (RawCodewords(v) \div Blocks[v] + 1) * Blocks[v] - ShortBlocks(v)

-------------------------------------------------------------------------------
(* Function patterns. *)
Size(v) == 4 * v + 17
Near(x, c, d) == x - c \in (0 - d)..d

Centres(v) ==
  IF v = 1 THEN <<>>
  ELSE LET count == v \div 7 + 2
           step == 2 * (((4 * v + 4 + 2 * count) - 3) \div (2 * count - 2))
       IN [i \in 1..count |-> IF i = 1 THEN 6 ELSE Size(v) - 7 - step * (count - i)]

Timing(v, r, c) == r = 6 \/ c = 6

Finder(v, r, c) ==
  \E centre \in {<<3, 3>>, <<3, Size(v) - 4>>, <<Size(v) - 4, 3>>} :
    Near(r, centre[1], 4) /\ Near(c, centre[2], 4)

Alignment(v, r, c) ==
  LET n == Len(Centres(v)) IN
  \E i, j \in 1..n :
    /\ <<i, j>> \notin {<<1, 1>>, <<1, n>>, <<n, 1>>}
    /\ Near(r, Centres(v)[i], 2) /\ Near(c, Centres(v)[j], 2)

Format(v, r, c) ==
  \/ c = 8 /\ (r \in (0..5) \cup {7, 8} \/ r \in (Size(v) - 8)..(Size(v) - 1))
  \/ r = 8 /\ (c \in (0..5) \cup {7} \/ c \in (Size(v) - 8)..(Size(v) - 1))

VersionArea(v, r, c) ==
  LET edge == (Size(v) - 11)..(Size(v) - 9) IN
  v >= 7 /\ ((r \in 0..5 /\ c \in edge) \/ (c \in 0..5 /\ r \in edge))

Reserved(v, r, c) ==
  Timing(v, r, c) \/ Finder(v, r, c) \/ Alignment(v, r, c) \/ Format(v, r, c)
    \/ VersionArea(v, r, c)

-------------------------------------------------------------------------------
Start == [right |-> 0, vert |-> 0, side |-> 0]

Init ==
  /\ doing = "choose" /\ version = 1 /\ payload = 0 /\ cursor = Start /\ bit = 0 /\ spare = 0
  /\ exp = <<>> /\ log = [x \in 1..255 |-> 0] /\ roots = 0
  /\ divisor = <<>> /\ block = <<>> /\ rem = <<>>

(* versionFor: the smallest that fits. *)
Choose(n) ==
  /\ doing = "choose"
  /\ IF \E v \in 1..10 : Fits(n, v)
     THEN LET v == CHOOSE w \in 1..10 : Fits(n, w) /\ \A u \in 1..(w - 1) : ~Fits(n, u) IN
          /\ version' = v /\ doing' = "place"
          /\ cursor' = [Start EXCEPT !.right = Size(v) - 1]
          /\ payload' = PayloadCodewords(n, v)
     ELSE doing' = "too-long" /\ UNCHANGED <<version, cursor, payload>>
  /\ UNCHANGED <<bit, spare, eccs>>

(* The next module of the walk: the other side, the next row, or the next  *)
(* pair of columns, stepping over the timing column.                       *)
NextPair(right) == IF right - 2 = 6 THEN 5 ELSE right - 2
Onward(v, at) ==
  IF at.side = 0 THEN [at EXCEPT !.side = 1]
  ELSE IF at.vert < Size(v) - 1 THEN [at EXCEPT !.side = 0, !.vert = @ + 1]
  ELSE [right |-> NextPair(at.right), vert |-> 0, side |-> 0]

Upward(right) == ((right + 1) \div 2) % 2 = 0

Place ==
  LET col == cursor.right - cursor.side
      row == IF Upward(cursor.right) THEN Size(version) - 1 - cursor.vert ELSE cursor.vert
      free == ~Reserved(version, row, col)
      left == bit < 8 * Interleaved(version) IN
  /\ doing = "place" /\ cursor.right >= 1
  /\ bit' = IF free /\ left THEN bit + 1 ELSE bit
  /\ spare' = IF free /\ ~left THEN spare + 1 ELSE spare
  /\ cursor' = Onward(version, cursor)
  /\ UNCHANGED <<doing, version, payload, eccs>>

Placed ==
  /\ doing = "place" /\ cursor.right < 1
  /\ doing' = "done"
  /\ UNCHANGED <<layout, eccs>>

(* The tables, power by power. *)
Tabulate ==
  /\ doing \in {"choose", "tables"} /\ Len(exp) < 255
  /\ LET x == IF exp = <<>> THEN 1 ELSE Double(exp[Len(exp)]) IN
     exp' = Append(exp, x) /\ log' = [log EXCEPT ![x] = Len(exp)]
  /\ doing' = "tables"
  /\ UNCHANGED <<layout, divisor, roots, block, rem>>

(* The divisor of the smallest version, root by root. *)
Unit(d) == [j \in 1..d |-> IF j = d THEN 1 ELSE 0]

Degree == EccPerBlock[1]

Multiply ==
  /\ doing = "tables" /\ Len(exp) = 255 /\ roots < Degree
  /\ divisor' = DivisorRound(IF roots = 0 THEN Unit(Degree) ELSE divisor, exp[roots + 1])
  /\ roots' = roots + 1
  /\ rem' = [i \in 1..Degree |-> 0]
  /\ UNCHANGED <<doing, layout, exp, log, block>>

(* A block goes through the divider, byte by byte. *)
Divide(b) ==
  /\ doing \in {"tables", "divide"} /\ roots = Degree /\ Len(block) < MaxBlock
  /\ doing' = "divide"
  /\ block' = Append(block, b)
  /\ rem' = Divided(rem, b)
  /\ UNCHANGED <<layout, exp, log, divisor, roots>>

Next ==
  \/ \E n \in Lengths : Choose(n)
  \/ Place \/ Placed \/ Tabulate \/ Multiply
  \/ \E b \in Bytes : Divide(b)

Spec == Init /\ [][Next]_qrVars

-------------------------------------------------------------------------------
(* The padded text fills its version and is split between the blocks       *)
(* without rest, and the walk ends with every codeword's bits placed, once *)
(* each, and just the remainder bits over: version tables, blocks and the  *)
(* geometry of the patterns agree (interleave, encodeQr).                  *)
EveryBitPlaced ==
  /\ doing \in {"place", "done"} =>
       /\ payload = DataCodewords(version)
       /\ payload = ShortBlocks(version) * BlockLen(version, 1)
                     + (Blocks[version] - ShortBlocks(version)) * BlockLen(version, Blocks[version])
  /\ doing = "done" =>
       /\ bit = 8 * RawCodewords(version)
       /\ bit + spare = RawDataModules(version)

(* Text and error correction together are a codeword: read as a            *)
(* polynomial, they vanish at every root a decoder evaluates them at.      *)
Value(poly, x) ==
  LET horner[i \in 0..Len(poly)] == IF i = 0 THEN 0 ELSE GfMul(horner[i - 1], x) ^^ poly[i]
  IN horner[Len(poly)]

Vanishes ==
  block # <<>> => \A i \in 1..Degree : Value(block \o rem, exp[i]) = 0
===============================================================================
