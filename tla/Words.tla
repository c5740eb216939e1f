-------------------------------- MODULE Words --------------------------------
(***************************************************************************)
(* The arithmetic of the processor, on words of Bits bits (32 in the       *)
(* code): what each operation computes, after the XrExecute functions of   *)
(* xr17032fast.c.  Where C leaves the result open the compiled code has    *)
(* one: a rotation by 0 is the word itself; the quotient that does not fit *)
(* wraps, or the host stops there.                                         *)
(***************************************************************************)
EXTENDS Integers

CONSTANT Bits

Size == 2^Bits
Words == 0 .. (Size - 1)
Word(n) == n % Size
\* (int32_t) x.
Signed(x) == IF x < 2^(Bits - 1) THEN x ELSE x - Size

Bool(b) == IF b THEN 1 ELSE 0

Bit(x, i) == (x \div 2^i) % 2
\* C's operators on the bits of two words: each of the result is what f makes of theirs.
Bitwise(f(_, _), x, y) ==
  LET low[n \in 0 .. Bits] ==
        IF n = 0 THEN 0 ELSE low[n - 1] + 2^(n - 1) * f(Bit(x, n - 1), Bit(y, n - 1))
  IN  low[Bits]
Or(x, y) == Bitwise(LAMBDA a, b : Bool(a = 1 \/ b = 1), x, y)
Xor(x, y) == Bitwise(LAMBDA a, b : Bool(a # b), x, y)
And(x, y) == Bitwise(LAMBDA a, b : Bool(a = 1 /\ b = 1), x, y)

\* C's quotient of integers.
Quotient(x, y) ==
  LET Magnitude(n) == IF n < 0 THEN -n ELSE n
      q == Magnitude(x) \div Magnitude(y)
  IN  IF (x < 0) = (y < 0) THEN q ELSE -q

\* XrExecuteMod, DivSigned, Div and Mul.
DivideOps == {"mod", "divsigned", "div", "mul"}
Divide(op, x, y) ==
  CASE op = "mul" -> Word(x * y)
    [] op # "mul" /\ y = 0 -> 0
    [] op = "mod" /\ y # 0 -> x % y
    [] op = "div" /\ y # 0 -> x \div y
    [] op = "divsigned" /\ y # 0 -> Word(Quotient(Signed(x), Signed(y)))

\* XrExecuteNor up to XrExecuteAdd.
LogicOps == {"nor", "or", "xor", "and", "sltsigned", "slt", "sub", "add"}
Logic(op, x, y) ==
  CASE op = "nor" -> Size - 1 - Or(x, y)
    [] op = "or"  -> Or(x, y)
    [] op = "xor" -> Xor(x, y)
    [] op = "and" -> And(x, y)
    [] op = "sltsigned" -> Bool(Signed(x) < Signed(y))
    [] op = "slt" -> Bool(x < y)
    [] op = "sub" -> Word(x - y)
    [] op = "add" -> Word(x + y)
\* With an immediate, XrExecuteOri up to XrExecuteAddi, and LUI, which is an ORI.
ImmediateOps == {"ori", "xori", "andi", "sltisigned", "slti", "subi", "addi", "lui"}

\* XrExecuteLsh, Rsh, Ash and Ror, and RoR.
Shifts == {"lsh", "rsh", "ash", "ror"}
Shift(type, x, n) ==
  IF n = 0 THEN x
  ELSE CASE type = "lsh" -> Word(x * 2^n)
         [] type = "rsh" -> x \div 2^n
         [] type = "ash" -> Word(Signed(x) \div 2^n)
         [] type = "ror" -> Or(x \div 2^n, Word(x * 2^(Bits - n)))

\* The conditions of XrExecuteBpo up to XrExecuteBeq.
Branches == {"bpo", "bpe", "bge", "ble", "bgt", "blt", "bne", "beq"}
Taken(op, x) ==
  CASE op = "bpo" -> x % 2 = 1
    [] op = "bpe" -> x % 2 = 0
    [] op = "bge" -> Signed(x) >= 0
    [] op = "ble" -> Signed(x) <= 0
    [] op = "bgt" -> Signed(x) > 0
    [] op = "blt" -> Signed(x) < 0
    [] op = "bne" -> x # 0
    [] op = "beq" -> x = 0

\* SignExt5 and SignExt16, of a number of n bits.
SignExt(x, n) == Word(IF x < 2^(n - 1) THEN x ELSE x - 2^n)
=============================================================================
