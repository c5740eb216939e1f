------------------------------ MODULE Processor ------------------------------
(***************************************************************************)
(* What a processor executes: instructions (Instructions), the translation *)
(* of their addresses (Tlb), and, between processors, LL and SC in the     *)
(* build without caches (ClaimTable).  Each sees of another only that      *)
(* something happens: Instructions, that an access faults and what an SC   *)
(* answers; Tlb, that an instruction accesses memory; ClaimTable, that     *)
(* programs execute LL, SC and RFE.  None changes anything of another      *)
(* otherwise, so a behaviour follows one of them (part).                   *)
(***************************************************************************)
EXTENDS ClaimTable

CONSTANTS Asids, Pages, CodePage, Table, Root, Globals, TbSize, Wired, Fast,
          Bits, Registers, RegisterBits, ImmediateBits, LR, Log, InstBytes, Instrs,
          BlockInsts, FakeZero, ShiftSink

ASSUME TlbAssumption ==
  /\ CodePage \in Pages /\ Table # Root /\ {Table, Root} \cap Pages = {}
  /\ Root \in Globals /\ Globals \subseteq Pages \cup {Root}
  /\ Wired \in Nat \ {0} /\ TbSize \in Nat /\ TbSize > Wired
  /\ None \notin Asids \cup Pages \cup {Table, Root} /\ Asids # {} /\ Fast \subseteq BOOLEAN

VARIABLES part,
          fast, tb, tag, index, hint, iblockTb, rs, cr, pc, insn, pt,
          reg, ip, tbmiss, locked, ir, inst, slot, access, trap

tvars == <<fast, tb, tag, index, hint, iblockTb, rs, cr, pc, insn, pt>>
ivars == <<reg, ip, tbmiss, locked, ir, inst, slot, access, trap>>
pvars == <<part, vars, tvars, ivars>>

T == INSTANCE Tlb WITH Null <- None
I == INSTANCE Instructions

ASSUME InstructionsAssumption ==
  /\ Registers = 0 .. (2^RegisterBits - 1) /\ LR \in Registers
  /\ FakeZero \notin Registers /\ ShiftSink \notin Registers /\ FakeZero # ShiftSink
  /\ ImmediateBits \in 1 .. Bits /\ InstBytes \in 1 .. (2^Bits - 1)
  /\ BlockInsts \in Nat \ {0}
  /\ Instrs \subseteq I!Formats /\ None \notin Instrs

\* What a behaviour does not follow starts in one way.
PInit ==
  /\ part \in {"claims", "translation", "instructions"}
  /\ Init /\ T!Init /\ I!Init
  /\ part # "claims" => Memory = [a \in Addrs |-> CHOOSE v \in Values : TRUE]
  /\ part # "translation" => fast = CHOOSE f \in Fast : TRUE

\* The actions of one part.
Of(p) == part = p /\ UNCHANGED part
OfClaims == Of("claims") /\ UNCHANGED tvars /\ UNCHANGED ivars
OfTranslation == Of("translation") /\ UNCHANGED vars /\ UNCHANGED ivars
OfInstructions == Of("instructions") /\ UNCHANGED vars /\ UNCHANGED tvars

PNext ==
  \/ OfClaims /\ Next
  \/ OfTranslation /\ T!Next
  \/ OfInstructions /\ I!Next

\* The fairness of each part: see FairSpec in ClaimTable; in Tlb, what an instruction takes
\* until it is done.
PSpec ==
  /\ PInit /\ [][PNext]_pvars
  /\ \A p \in Procs : WF_pvars(OfClaims /\ Continue(p))
  /\ WF_pvars(OfTranslation /\ T!Step)

\* Tlb: no translation outlives its invalidation.
TranslationCurrent == T!TranslationCurrent
\* Tlb: a fault is reported as one of the program's instruction.
FaultReported == T!FaultReported
\* Tlb: an instruction gets through, however often it misses and faults.
AccessEnds == T!AccessEnds
\* Instructions: the interpreter implements the architecture.
ImplementsArchitecture == I!ImplementsArchitecture
\* Instructions: the entries of a block fit.
BlockFits == I!BlockFits
=============================================================================
