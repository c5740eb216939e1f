----------------------------- MODULE ProcessorMC -----------------------------
(***************************************************************************)
(* Processor for TLC: instructions of every kind on two registers.         *)
(***************************************************************************)
EXTENDS Processor, TLC

W == INSTANCE Words

Plainest == [op |-> "fence", rd |-> 0, ra |-> 0, rb |-> 0, type |-> "lsh", amt |-> 0,
             size |-> "long", imm |-> 0, target |-> 0]
TheInstrs ==
  {[Plainest EXCEPT !.op = o] : o \in {"fence", "pause", "illegal", "sys", "brk", "mfcr"}}
  \cup {[Plainest EXCEPT !.op = o, !.rd = 1, !.rb = 1] : o \in W!LogicOps \cup W!DivideOps}
  \cup {[Plainest EXCEPT !.op = "sub", !.rd = d, !.ra = 1, !.rb = b, !.type = t, !.amt = 1] :
          d \in Registers, b \in Registers, t \in W!Shifts}
  \cup {[Plainest EXCEPT !.op = "shift", !.rd = 1, !.ra = 1, !.rb = b, !.type = t] :
          b \in Registers, t \in W!Shifts}
  \cup {[Plainest EXCEPT !.op = o, !.rd = 1, !.ra = a, !.imm = 1] :
          o \in W!ImmediateOps, a \in Registers}
  \cup {[Plainest EXCEPT !.op = o, !.rd = d, !.ra = 1, !.rb = b, !.amt = n] :
          o \in {"loadr", "storer"}, d \in Registers, b \in Registers, n \in {0, 1}}
  \cup {[Plainest EXCEPT !.op = o, !.size = s, !.rd = d, !.ra = 1, !.imm = 1] :
          o \in {"load", "store", "storei"}, s \in {"long", "byte"}, d \in Registers}
  \cup {[Plainest EXCEPT !.op = o, !.rd = d, !.target = 2] : o \in W!Branches, d \in Registers}
  \cup {[Plainest EXCEPT !.op = "sc", !.rd = d, !.ra = a, !.rb = b] : d \in Registers, a \in Registers, b \in Registers}
  \cup {[Plainest EXCEPT !.op = "ll", !.rd = d, !.ra = a] : d \in Registers, a \in Registers}
  \cup {[Plainest EXCEPT !.op = "jalr", !.rd = d, !.ra = 1, !.imm = 1] : d \in Registers}
  \cup {[Plainest EXCEPT !.op = "adr", !.rd = 1, !.imm = 1]}
  \cup {[Plainest EXCEPT !.op = o] : o \in {"j", "jal"}}
\* Two bits are too few for the sizes of the code: "int" is left out.
TheLog == "long" :> 1 @@ "byte" :> 0
=============================================================================
