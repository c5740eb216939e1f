----------------------------- MODULE Instructions -----------------------------
(***************************************************************************)
(* Instructions as the interpreter executes them (xr17032fast.c).  The     *)
(* decoder turns each into one or two entries of its block, in slots with  *)
(* a function and three fields (a, b, c for Imm8_1, Imm8_2, Imm32_1).  A   *)
(* source that is register 0 becomes the register FakeZero, but while a TB *)
(* miss is handled; the shift of the second operand becomes an entry of    *)
(* its own, which leaves its result in the register ShiftSink.  A block    *)
(* that does not end with a control transfer ends with a linkage entry.    *)
(*                                                                         *)
(* An instruction is decoded when it is reached, which nothing tells from  *)
(* the code's decoding of the block when it is entered: the mode that      *)
(* decoding looks at does not change inside a block, as software enters    *)
(* the handler of a TB miss by the exception and leaves it by RFE, and has *)
(* no code both inside and outside of it.  RFE, HLT and MTCR are modelled  *)
(* in Tlb, IblockCache and Interrupts.                                     *)
(***************************************************************************)
EXTENDS Words, Sequences

CONSTANTS Registers, RegisterBits, ImmediateBits, LR, Log, InstBytes, Instrs, None,
          BlockInsts,          \* XR_IBLOCK_INSTS
          FakeZero, ShiftSink  \* XR_FAKE_ZERO_REGISTER, XR_FAKE_SHIFT_SINK

VARIABLES
  reg,     \* Reg, with the two registers that software does not have
  ip, tbmiss, locked,
  ir,      \* the instruction at ip, None between two
  inst,    \* its entries from the one to be executed on
  slot,    \* the index of that entry in the block; 0 in XrCheckConditions
  access,  \* the access under way in XrAccess
  trap     \* the exception taken

vars == <<reg, ip, tbmiss, locked, ir, inst, slot, access, trap>>

A == INSTANCE Architecture WITH reg <- [r \in Registers |-> reg[r]]

Init ==
  /\ reg = [r \in Registers \cup {FakeZero, ShiftSink} |-> 0]
  /\ ip = 0 /\ tbmiss = FALSE /\ locked = FALSE
  /\ ir = None /\ inst = <<>> /\ slot = 0 /\ access = None /\ trap = None
-----------------------------------------------------------------------------
(* Decoding.                                                               *)

\* XR_REDIRECT_ZERO_SRC.
Source(r) == IF r = 0 /\ ~tbmiss THEN FakeZero ELSE r

Entry(f, a, b, c) == [f |-> f, a |-> a, b |-> b, c |-> c]

\* Mutation: the instruction keeps its own register.
WithShiftKeepsRb(i, f, a, b) ==
  IF i.amt = 0 THEN <<Entry(f, a, b, Source(i.rb))>>
  ELSE <<Entry(i.type, Source(i.rb), i.amt, 0), Entry(f, a, b, Source(i.rb))>>
\* XR_INSERT_SHIFT, and the instruction after it.
WithShift(i, f, a, b) ==
  IF i.amt = 0 THEN <<Entry(f, a, b, Source(i.rb))>>
  ELSE <<Entry(i.type, Source(i.rb), i.amt, 0), Entry(f, a, b, ShiftSink)>>

\* XrDecodeNor up to XrDecodeAdd.
DecodeLogic(i) == WithShift(i, i.op, i.rd, Source(i.ra))
\* XrDecodeMod, DivSigned, Div, Mul.
DecodeDivide(i) == WithShift(i, i.op, i.rd, Source(i.ra))
\* XrDecodeStoreLongRegOffset up to XrDecodeLoadByteRegOffset.
DecodeRegOffset(i) ==
  WithShift(i, i.op, IF i.op = "storer" THEN Source(i.rd) ELSE i.rd, Source(i.ra))
\* XrDecodeRegShifts.
DecodeRegShifts(i) == <<Entry("shift", i.rd, Source(i.ra), Source(i.rb))>>
\* XrDecodeLui, Ori, Xori, Andi, SltiSigned, Slti, Subi, Addi.
DecodeImmediate(i) ==
  <<Entry(IF i.op = "lui" THEN "ori" ELSE i.op, i.rd, Source(i.ra),
          CASE i.op = "lui" -> Word(i.imm * 2^ImmediateBits)
            [] i.op = "sltisigned" -> SignExt(i.imm, ImmediateBits)
            [] OTHER -> i.imm)>>
\* XrDecodeStoreLongImmOffsetImm up to XrDecodeLoadByteImmOffset.
DecodeImmOffset(i) ==
  LET offset == i.imm * 2^Log[i.size] IN
  <<CASE i.op = "load" -> Entry(i.op, i.rd, Source(i.ra), offset)
      [] i.op = "store" -> Entry(i.op, Source(i.rd), Source(i.ra), offset)
      [] i.op = "storei" -> Entry(i.op, Source(i.rd), i.ra, offset)>>
\* XrDecodeSC, XrDecodeLL.
DecodeLock(i) == <<Entry(i.op, i.rd, Source(i.ra), Source(i.rb))>>
\* XrDecodeBpo up to XrDecodeBne, and XrDecodeBeq, which knows an unconditional branch.
DecodeBranch(i) ==
  <<IF i.op = "beq" /\ Source(i.rd) = FakeZero THEN Entry("b", 0, 0, i.target)
    ELSE Entry(i.op, Source(i.rd), 0, i.target)>>
\* XrDecodeJalr, XrDecodeAdr, XrDecodeJ, XrDecodeJal.
DecodeJump(i) ==
  <<CASE i.op = "jalr" -> Entry(i.op, i.rd, Source(i.ra), i.imm * InstBytes)
      [] i.op = "adr" -> Entry(i.op, i.rd, 0, Word(ip + i.imm))
      [] i.op \in {"j", "jal"} -> Entry(i.op, 0, 0, i.target)>>

Ops == LogicOps \cup DivideOps \cup ImmediateOps \cup Branches
         \cup {"loadr", "storer", "shift", "load", "store", "storei", "ll", "sc", "jalr", "adr",
               "j", "jal", "illegal", "sys", "brk", "fence", "pause", "mfcr"}
\* What an instruction says, in one format or another.
Formats == [op : Ops, rd : Registers, ra : Registers, rb : Registers, type : Shifts,
                 amt : Nat, size : DOMAIN Log, imm : Nat, target : Words]

\* XrDecodeLowThree and the tables below it.
Decode(i) ==
  CASE i.op \in LogicOps -> DecodeLogic(i)
    [] i.op \in DivideOps -> DecodeDivide(i)
    [] i.op \in {"loadr", "storer"} -> DecodeRegOffset(i)
    [] i.op = "shift" -> DecodeRegShifts(i)
    [] i.op \in ImmediateOps -> DecodeImmediate(i)
    [] i.op \in {"load", "store", "storei"} -> DecodeImmOffset(i)
    [] i.op \in {"ll", "sc"} -> DecodeLock(i)
    [] i.op \in Branches -> DecodeBranch(i)
    [] i.op \in {"jalr", "adr", "j", "jal"} -> DecodeJump(i)
    [] i.op \in {"illegal", "sys", "brk", "fence", "pause", "mfcr"} ->
         <<Entry(i.op, i.rd, 0, 0)>>

Fetch ==
  /\ ir = None /\ trap = None /\ inst = <<>>
  /\ ir' \in Instrs /\ inst' = Decode(ir')
  /\ UNCHANGED <<reg, ip, tbmiss, locked, slot, access, trap>>
-----------------------------------------------------------------------------
(* Execution.                                                              *)

Linkage == <<Entry("linkage", 0, 0, 0)>>
This == inst[1]
Executing == inst # <<>> /\ access = None
\* The values of the fields that are registers.
Rd == reg[This.a]
Ra == reg[This.b]
Rb == reg[This.c]
After == Word(ip + InstBytes)

\* Mutation: the last slot is one later.
FullOneLater(s) == s > BlockInsts
\* The end of decoding in XrDecodeInstructions.
Full(s) == s >= BlockInsts

\* XR_NEXT.  Decoding also ends, with the linkage entry, after the last instruction of
\* the fetch.
Advance(registers) ==
  /\ reg' = registers /\ ip' = After
  /\ slot' = slot + 1
  /\ inst' \in {Linkage} \cup (IF Full(slot + 1) THEN {} ELSE {<<>>})
  /\ ir' = None /\ access' = None /\ UNCHANGED <<tbmiss, trap>>

\* The block is left for one at next.
Leave(registers, next) ==
  /\ reg' = registers /\ ip' = next
  /\ slot' = 0 /\ inst' = <<>> /\ ir' = None /\ access' = None /\ UNCHANGED <<tbmiss, trap>>

\* XrBasicException and XR_EARLY_EXIT or XR_TRIVIAL_EXIT.
Raise(cause, epc) ==
  /\ trap' = [cause |-> cause, epc |-> epc] /\ ip' = 0
  /\ slot' = 0 /\ inst' = <<>> /\ ir' = None /\ access' = None /\ UNCHANGED <<tbmiss, locked>>

\* XrExecuteVirtualLsh, Rsh, Ash, Ror: XR_NEXT_NO_PC.
ExecuteVirtualShift ==
  /\ Executing /\ This.f \in Shifts
  /\ reg' = [reg EXCEPT ![ShiftSink] = Shift(This.f, Rd, This.b)]
  /\ inst' = Tail(inst) /\ slot' = slot + 1
  /\ UNCHANGED <<ip, tbmiss, locked, ir, access, trap>>

ExecuteLogic ==
  /\ Executing /\ This.f \in LogicOps
  /\ Advance([reg EXCEPT ![This.a] = Logic(This.f, Ra, Rb)]) /\ UNCHANGED locked
ExecuteDivide ==
  /\ Executing /\ This.f \in DivideOps
  /\ Advance([reg EXCEPT ![This.a] = Divide(This.f, Ra, Rb)]) /\ UNCHANGED locked
ExecuteShift ==
  /\ Executing /\ This.f = "shift"
  /\ Advance([reg EXCEPT ![This.a] = Shift(ir.type, Rb, Ra % Bits)]) /\ UNCHANGED locked
\* XrExecuteOri up to XrExecuteAddi.
ExecuteImmediate ==
  /\ Executing /\ This.f \in ImmediateOps
  /\ Advance([reg EXCEPT ![This.a] = Logic(A!OfImmediate(This.f), Ra, This.c)])
  /\ UNCHANGED locked
ExecuteAdr ==
  /\ Executing /\ This.f = "adr"
  /\ Advance([reg EXCEPT ![This.a] = This.c]) /\ UNCHANGED locked
\* XrExecuteMfcr: some register's value.
ExecuteMfcr ==
  /\ Executing /\ This.f = "mfcr"
  /\ \E v \in Words : Advance([reg EXCEPT ![This.a] = v]) /\ UNCHANGED locked
\* XrExecuteWmb, XrExecuteMb.
ExecuteFence == Executing /\ This.f = "fence" /\ Advance(reg) /\ UNCHANGED locked
\* The last XrExecutePause of a timeslice leaves the block.
ExecutePause ==
  /\ Executing /\ This.f = "pause"
  /\ Advance(reg) \/ Leave(reg, After)
  /\ UNCHANGED locked

ExecuteBranch ==
  /\ Executing /\ This.f \in Branches
  /\ Leave(reg, IF Taken(This.f, Rd) THEN This.c ELSE After) /\ UNCHANGED locked
\* XrExecuteB, XrExecuteJ, XrExecuteJal.
ExecuteJump ==
  /\ Executing /\ This.f \in {"b", "j", "jal"}
  /\ Leave(IF This.f = "jal" THEN [reg EXCEPT ![LR] = After] ELSE reg, This.c)
  /\ UNCHANGED locked
ExecuteJalr ==
  /\ Executing /\ This.f = "jalr"
  /\ LET to == Word(Ra + This.c)
         registers == [reg EXCEPT ![This.a] = After]
     IN  IF to % InstBytes # 0 THEN Raise("UNA", to) /\ reg' = registers
         ELSE Leave(registers, to) /\ UNCHANGED locked
\* XrSpecialLinkageInstruction.
ExecuteLinkage ==
  /\ Executing /\ This.f = "linkage"
  /\ slot' = 0 /\ inst' = <<>> /\ UNCHANGED <<reg, ip, tbmiss, locked, ir, access, trap>>

\* XrExecuteIllegalInstruction, XrExecuteSys, XrExecuteBrk.
ExecuteTrap ==
  /\ Executing
  /\ \/ This.f = "illegal" /\ Raise("INV", ip)
     \/ This.f = "sys" /\ Raise("SYS", After)
     \/ This.f = "brk" /\ Raise("BRK", After)
  /\ UNCHANGED reg

\* What waits for memory while it is looked up.
Request(write, addr, value) ==
  /\ access' = [write |-> write, size |-> ir.size, addr |-> addr, value |-> value]
  /\ UNCHANGED <<reg, ip, tbmiss, locked, ir, inst, slot, trap>>
ExecuteRegOffset ==
  /\ Executing /\ This.f \in {"loadr", "storer"}
  /\ LET write == This.f = "storer"
     IN  Request(write, Word(Ra + Rb), IF write THEN Rd ELSE 0)
\* XrExecuteLoadLongImmOffset, XrExecuteLoadIntImmOffset, XrExecuteLoadByteImmOffset.
ExecuteLoadImmOffset ==
  Executing /\ This.f = "load" /\ Request(FALSE, Word(Ra + This.c), 0)
\* XrExecuteStoreLongImmOffsetImm and the others.
ExecuteStoreImmOffset ==
  /\ Executing /\ This.f \in {"store", "storei"}
  /\ Request(TRUE, Word(Rd + This.c),
             IF This.f = "store" THEN Ra ELSE SignExt(This.b, RegisterBits))
\* XrExecuteLL, XrExecuteSC.
ExecuteLL == Executing /\ This.f = "ll" /\ Request(FALSE, Ra, 0)
ExecuteSC ==
  /\ Executing /\ This.f = "sc"
  /\ IF locked THEN Request(TRUE, Ra, Rb)
     ELSE Advance([reg EXCEPT ![This.a] = 0]) /\ UNCHANGED locked

\* XrAccess returns: unaligned, or with a value, or with another exception.
Aligned == access.addr % 2^Log[access.size] = 0
Answer ==
  /\ access # None /\ Aligned
  /\ \/ /\ This.f \in {"loadr", "load", "ll"}
        /\ \E v \in Words : Advance([reg EXCEPT ![This.a] = v])
        /\ locked' = (locked \/ This.f = "ll")
     \/ /\ This.f = "sc"
        /\ \E v \in {0, 1} : Advance([reg EXCEPT ![This.a] = v])
        /\ UNCHANGED locked
     \/ This.f \in {"storer", "store", "storei"} /\ Advance(reg) /\ UNCHANGED locked
Fault ==
  /\ access # None
  /\ Raise(IF Aligned THEN "fault" ELSE "UNA", ip) /\ UNCHANGED reg
-----------------------------------------------------------------------------
\* XrCheckConditions.
Interrupt ==
  /\ slot = 0 /\ inst = <<>> /\ trap = None
  /\ Raise("INT", ip) /\ UNCHANGED reg

\* The handler begins, or has returned with RFE.
Resume ==
  /\ trap # None /\ trap' = None
  /\ ip' \in A!Ips /\ tbmiss' \in BOOLEAN /\ locked' \in {locked, FALSE}
  /\ UNCHANGED <<reg, ir, inst, slot, access>>

Next ==
  \/ Fetch \/ Interrupt \/ Resume
  \/ ExecuteVirtualShift \/ ExecuteLogic \/ ExecuteDivide \/ ExecuteShift
  \/ ExecuteImmediate \/ ExecuteAdr \/ ExecuteMfcr \/ ExecuteFence \/ ExecutePause
  \/ ExecuteBranch \/ ExecuteJump \/ ExecuteJalr \/ ExecuteLinkage \/ ExecuteTrap
  \/ ExecuteRegOffset \/ ExecuteLoadImmOffset \/ ExecuteStoreImmOffset
  \/ ExecuteLL \/ ExecuteSC \/ Answer \/ Fault

Spec == Init /\ [][Next]_vars
-----------------------------------------------------------------------------
\* The architecture, one instruction at a time, is what the interpreter implements.
ImplementsArchitecture == A!Init /\ [][A!vars' = A!vars \/ A!Next]_(A!vars)

\* The entries of a block, and the linkage after them, fit in Insts.
BlockFits == slot + Len(inst) <= BlockInsts + 2
=============================================================================
