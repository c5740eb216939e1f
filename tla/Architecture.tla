----------------------------- MODULE Architecture -----------------------------
(***************************************************************************)
(* What software expects of the processor: one instruction after another,  *)
(* each with its effect on the registers or one access to memory, or none  *)
(* and an exception that says where.  Register 0 reads as zero, but in the *)
(* handler of a TB miss, which has it as a register.  No blocks, no        *)
(* intermediate registers and no order of decoding.                        *)
(*                                                                         *)
(* Instructions implements this.  Memory and the handlers of exceptions    *)
(* are external: memory answers with a value or a fault; after an          *)
(* exception execution goes on somewhere, in one of the modes.             *)
(***************************************************************************)
EXTENDS Words

CONSTANTS
  Registers,       \* of which the first is 0
  RegisterBits,    \* the width of a register's number: 5
  ImmediateBits,   \* the width of an immediate: 16
  LR,              \* the link register
  Log,             \* [sizes of an access -> log2 of their bytes]
  InstBytes,       \* the bytes of an instruction
  Instrs,          \* bound: the instructions
  None

VARIABLES
  reg,     \* [Registers -> Words]
  ip,      \* Pc
  tbmiss,  \* RS_TBMISS
  locked,  \* Locked
  ir,      \* the instruction at ip, or None between two
  access,  \* the access memory is to answer, or None
  trap     \* the exception taken, or None

vars == <<reg, ip, tbmiss, locked, ir, access, trap>>

Ips == {n \in Words : n % InstBytes = 0}

\* The operation of an instruction with an immediate, and its second operand.
OfImmediate(op) ==
  CASE op \in {"ori", "lui"} -> "or" [] op = "xori" -> "xor" [] op = "andi" -> "and"
    [] op = "sltisigned" -> "sltsigned" [] op = "slti" -> "slt"
    [] op = "subi" -> "sub" [] op = "addi" -> "add"
Immediate(op, imm) ==
  CASE op = "lui" -> Word(imm * 2^ImmediateBits)
    [] op = "sltisigned" -> SignExt(imm, ImmediateBits)
    [] OTHER -> imm

LoadOps == {"loadr", "load", "ll"}
StoreOps == {"storer", "store", "storei", "sc"}

Init ==
  /\ reg = [r \in Registers |-> 0]
  /\ ip = 0 /\ tbmiss = FALSE /\ locked = FALSE
  /\ ir = None /\ access = None /\ trap = None
-----------------------------------------------------------------------------
Read(r) == IF r = 0 /\ ~tbmiss THEN 0 ELSE reg[r]
\* The second operand, shifted on its way.
Operand == Shift(ir.type, Read(ir.rb), ir.amt)
After == Word(ip + InstBytes)

\* What the instruction leaves in rd.
Result ==
  CASE ir.op \in LogicOps -> Logic(ir.op, Read(ir.ra), Operand)
    [] ir.op \in DivideOps -> Divide(ir.op, Read(ir.ra), Operand)
    [] ir.op = "shift" -> Shift(ir.type, Read(ir.rb), Read(ir.ra) % Bits)
    [] ir.op \in ImmediateOps ->
         Logic(OfImmediate(ir.op), Read(ir.ra), Immediate(ir.op, ir.imm))
    [] ir.op = "adr" -> Word(ip + ir.imm)

\* The access to memory it makes.
Request ==
  LET offset == ir.imm * 2^Log[ir.size] IN
  [write |-> ir.op \in StoreOps, size |-> ir.size,
   addr |-> CASE ir.op \in {"loadr", "storer"} -> Word(Read(ir.ra) + Operand)
              [] ir.op = "load" -> Word(Read(ir.ra) + offset)
              [] ir.op \in {"store", "storei"} -> Word(Read(ir.rd) + offset)
              [] ir.op \in {"ll", "sc"} -> Read(ir.ra),
   value |-> CASE ir.op \in LoadOps -> 0
               [] ir.op = "storer" -> Read(ir.rd)
               [] ir.op = "store" -> Read(ir.ra)
               [] ir.op = "storei" -> SignExt(ir.ra, RegisterBits)
               [] ir.op = "sc" -> Read(ir.rb)]

\* The instruction is done, or ended by an exception.
Done == ir' = None /\ access' = None
Complete(registers, next) ==
  /\ Done /\ reg' = registers /\ ip' = next /\ UNCHANGED <<tbmiss, trap>>
Raise(cause, epc) ==
  /\ Done /\ trap' = [cause |-> cause, epc |-> epc] /\ ip' = 0
  /\ UNCHANGED <<tbmiss, locked>>

Fetch ==
  /\ ir = None /\ trap = None
  /\ ir' \in Instrs
  /\ UNCHANGED <<reg, ip, tbmiss, locked, access, trap>>

Interrupt == ir = None /\ trap = None /\ Raise("INT", ip) /\ UNCHANGED reg

Executing == ir # None /\ access = None

Compute ==
  /\ Executing
  /\ ir.op \in LogicOps \cup DivideOps \cup ImmediateOps \cup {"shift", "adr"}
  /\ Complete([reg EXCEPT ![ir.rd] = Result], After) /\ UNCHANGED locked

ReadControl ==
  /\ Executing /\ ir.op = "mfcr"
  /\ \E v \in Words : Complete([reg EXCEPT ![ir.rd] = v], After)
  /\ UNCHANGED locked

Nothing ==
  /\ Executing /\ ir.op \in {"fence", "pause"}
  /\ Complete(reg, After) /\ UNCHANGED locked

BranchOrJump ==
  /\ Executing
  /\ \/ /\ ir.op \in Branches
        /\ Complete(reg, IF Taken(ir.op, Read(ir.rd)) THEN ir.target ELSE After)
     \/ ir.op = "j" /\ Complete(reg, ir.target)
     \/ ir.op = "jal" /\ Complete([reg EXCEPT ![LR] = After], ir.target)
     \/ /\ ir.op = "jalr"
        /\ LET to == Word(Read(ir.ra) + ir.imm * InstBytes)
               linked == [reg EXCEPT ![ir.rd] = After]
           IN  IF to % InstBytes = 0 THEN Complete(linked, to)
               ELSE Raise("UNA", to) /\ reg' = linked
  /\ UNCHANGED locked

Software ==
  /\ Executing
  /\ \/ ir.op = "illegal" /\ Raise("INV", ip)
     \/ ir.op = "sys" /\ Raise("SYS", After)
     \/ ir.op = "brk" /\ Raise("BRK", After)
  /\ UNCHANGED reg

\* An SC without an LL before it makes no access.
Refused ==
  /\ Executing /\ ir.op = "sc" /\ ~locked
  /\ Complete([reg EXCEPT ![ir.rd] = 0], After) /\ UNCHANGED locked
Access ==
  /\ Executing /\ ir.op \in LoadOps \cup StoreOps
  /\ ir.op = "sc" => locked
  /\ access' = Request
  /\ UNCHANGED <<reg, ip, tbmiss, locked, ir, trap>>

Aligned == access.addr % 2^Log[access.size] = 0
Answer ==
  /\ access # None /\ Aligned
  /\ \/ /\ ir.op \in LoadOps
        /\ \E v \in Words : Complete([reg EXCEPT ![ir.rd] = v], After)
        /\ locked' = (locked \/ ir.op = "ll")
     \/ /\ ir.op = "sc"
        /\ \E v \in {0, 1} : Complete([reg EXCEPT ![ir.rd] = v], After)
        /\ UNCHANGED locked
     \/ ir.op \in StoreOps \ {"sc"} /\ Complete(reg, After) /\ UNCHANGED locked
Fault ==
  /\ access # None
  /\ Raise(IF Aligned THEN "fault" ELSE "UNA", ip) /\ UNCHANGED reg

\* Into the handler, or back from it by RFE.
Resume ==
  /\ trap # None
  /\ trap' = None /\ ip' \in Ips /\ tbmiss' \in BOOLEAN /\ locked' \in {locked, FALSE}
  /\ UNCHANGED <<reg, ir, access>>

Next == Fetch \/ Interrupt \/ Compute \/ ReadControl \/ Nothing \/ BranchOrJump \/ Software
          \/ Refused \/ Access \/ Answer \/ Fault \/ Resume

Spec == Init /\ [][Next]_vars
=============================================================================
