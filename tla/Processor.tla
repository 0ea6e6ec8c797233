----------------------------- MODULE Processor ------------------------------
(***************************************************************************)
(* The assembler of TP1 (tp_exercice2.c) and the simulator of the same     *)
(* instruction set (tres_important.c).  A line of source is blank, a label *)
(* or an operation with its tokens: [reg |-> n] for $n, [cst |-> n] for a  *)
(* number, [name |-> s] for a label.  Words of memory are the signed view  *)
(* of their 32 bits; sums past them are undefined in C and not modelled.   *)
(***************************************************************************)
EXTENDS Integers, Sequences, SequencesExt, FiniteSetsExt

CONSTANTS
    MAX_LABELS,         \* 100
    MAX_INSTRUCTIONS,   \* 1024, of which labels are some
    MEM_WORDS           \* 1024
-----------------------------------------------------------------------------
(* The assembler. *)
Opcode ==
    [add |-> 0, sub |-> 1, mul |-> 2, div |-> 3, and |-> 4, or |-> 5, xor |-> 6,
     addi |-> 8, subi |-> 9, muli |-> 10, divi |-> 11, andi |-> 12, ori |-> 13, xori |-> 14,
     lw |-> 16, sw |-> 17, beq |-> 24, bne |-> 25, blt |-> 26, bgt |-> 27]

get_opcode(op) == IF op \in DOMAIN Opcode THEN Opcode[op] ELSE -1
parse_register(t) == IF "reg" \in DOMAIN t THEN t.reg ELSE -1
atoi(t) == IF "cst" \in DOMAIN t THEN t.cst ELSE 0

IsLabel(line) == "label" \in DOMAIN line       \* whatever follows the colon
IsInstruction(line) == "op" \in DOMAIN line
Instructions(lines) == SelectSeq(lines, IsInstruction)

(* The first label of that name, or -1. *)
find_label_pc(t, table) ==
    LET same == {i \in DOMAIN table : "name" \in DOMAIN t /\ table[i].nom = t.name}
    IN  IF same = {} THEN -1 ELSE table[Min(same)].pc

(* The limit on rows is looked at for a blank line too. *)
TooManyRows(lines) ==
    \E i \in DOMAIN lines : Len(SelectSeq(SubSeq(lines, 1, i - 1), LAMBDA l : l # [blank |-> TRUE])) >= MAX_INSTRUCTIONS

Refused == [refused |-> TRUE]
first_pass(lines) ==
    LET add(acc, line) ==
            IF IsLabel(line) THEN [acc EXCEPT !.table = Append(@, [nom |-> line.label, pc |-> acc.pc])]
            ELSE IF IsInstruction(line) THEN [acc EXCEPT !.pc = @ + 1] ELSE acc
        read == FoldLeft(add, [table |-> <<>>, pc |-> 0], lines)
    IN  IF TooManyRows(lines) \/ Len(read.table) > MAX_LABELS THEN Refused ELSE [table |-> read.table]

Bits(n, w) == n % 2^w                           \* & (2^w - 1), of a negative n too
Fits(n) == n \in -2048..2047

(* The next instruction is where a jump counts from, not the jump itself.  *)
JumpFromItself(target, pc) == target - pc
Jump(target, pc) == target - (pc + 1)

(* Every error gives the word 0; a register keeps 6 bits of its number.    *)
assemble_instruction(pc, line, table) ==
    LET op == get_opcode(line.op)
        arg == line.args
        reg(i) == parse_register(arg[i])
        fields(r1, r2, low) == (op * 2^24) + (Bits(r1, 6) * 2^18) + (Bits(r2, 6) * 2^12) + low
        target == find_label_pc(arg[3], table)
        jump == Jump(target, pc)
    IN  CASE op = -1 \/ Len(arg) < 3 -> 0
          [] op \in 0..6 /\ Len(arg) >= 3 ->
                 IF -1 \in {reg(1), reg(2), reg(3)} THEN 0 ELSE fields(reg(1), reg(2), Bits(reg(3), 6) * 2^6)
          [] op \in 24..27 /\ Len(arg) >= 3 ->
                 IF -1 \in {reg(1), reg(2), target} \/ ~Fits(jump) THEN 0
                 ELSE fields(reg(1), reg(2), Bits(jump, 12))
          [] op \in 8..14 /\ Len(arg) >= 3 ->
                 IF -1 \in {reg(1), reg(2)} \/ ~Fits(atoi(arg[3])) THEN 0
                 ELSE fields(reg(1), reg(2), Bits(atoi(arg[3]), 12))
          [] op \in {16, 17} /\ Len(arg) >= 3 ->
                 IF -1 \in {reg(1), reg(3)} \/ ~Fits(atoi(arg[2])) THEN 0
                 ELSE fields(reg(1), reg(3), Bits(atoi(arg[2]), 12))

second_pass(lines) ==
    LET pass == first_pass(lines)
        code == Instructions(lines)
    IN  IF pass = Refused THEN <<>>
        ELSE [i \in DOMAIN code |-> assemble_instruction(i - 1, code[i], pass.table)]
-----------------------------------------------------------------------------
(* The simulator, whose immediate operations have other codes. *)
OP ==
    [add |-> 0, sub |-> 1, mul |-> 2, div |-> 3, and |-> 4, or |-> 5, xor |-> 6,
     addi |-> 8, subi |-> 9, divi |-> 10, andi |-> 11, ori |-> 12, xori |-> 13,
     lw |-> 16, sw |-> 17, beq |-> 24, bne |-> 25, blt |-> 26, bgt |-> 27]

get_op(ins) == Bits(ins \div 2^24, 8)
get_A(ins) == Bits(ins \div 2^18, 6)
get_B(ins) == Bits(ins \div 2^12, 6)
get_C(ins) == Bits(ins \div 2^6, 6)
get_S12(ins) == IF Bits(ins, 12) >= 2048 THEN Bits(ins, 12) - 4096 ELSE Bits(ins, 12)

(* Two's complement, bit by bit: f gives the bit of two bits. *)
RECURSIVE Bitwise(_, _, _)
Bitwise(f, a, b) ==
    IF a \in {0, -1} /\ b \in {0, -1} THEN -f[<<-a, -b>>]
    ELSE f[<<a % 2, b % 2>>] + 2 * Bitwise(f, a \div 2, b \div 2)
Table(f(_, _)) == [x \in {0, 1} \X {0, 1} |-> f(x[1], x[2])]
And(a, b) == Bitwise(Table(LAMBDA x, y : x * y), a, b)
Or(a, b) == Bitwise(Table(LAMBDA x, y : x + y - x * y), a, b)
Xor(a, b) == Bitwise(Table(LAMBDA x, y : (x + y) % 2), a, b)

Sign(n) == IF n < 0 THEN -1 ELSE 1
Quotient(a, b) == IF b = 0 THEN 0 ELSE (Sign(a) * Sign(b)) * ((a * Sign(a)) \div (b * Sign(b)))

Alu(name, a, b) ==
    CASE name \in {"add", "addi"} -> a + b  [] name \in {"sub", "subi"} -> a - b
      [] name = "mul" -> a * b              [] name \in {"div", "divi"} -> Quotient(a, b)
      [] name \in {"and", "andi"} -> And(a, b)
      [] name \in {"or", "ori"} -> Or(a, b) [] name \in {"xor", "xori"} -> Xor(a, b)

Jumps(name, a, b) ==
    CASE name = "beq" -> a = b [] name = "bne" -> a # b [] name = "blt" -> a < b [] name = "bgt" -> a > b

InMemory(addr) == addr >= 0 /\ addr \div 4 < MEM_WORDS      \* unsigned: huge below 0
load_word(c, addr) == c.mem[addr \div 4]

(* A load or a store out of memory or not aligned exits. *)
step(c) ==
    LET ins == load_word(c, c.PC)
        name == CHOOSE n \in DOMAIN OP : OP[n] = get_op(ins)
        getR(r) == IF r = 0 THEN 0 ELSE c.R[r]
        after == [c EXCEPT !.PC = @ + 4]
        set(v) == IF get_A(ins) = 0 THEN after ELSE [after EXCEPT !.R[get_A(ins)] = v]
        A == getR(get_A(ins))
        B == getR(get_B(ins))
        addr == B + get_S12(ins)
        stopped == [c EXCEPT !.running = FALSE]
    IN  CASE ~InMemory(c.PC) -> stopped
          [] InMemory(c.PC) /\ \A n \in DOMAIN OP : OP[n] # get_op(ins) -> stopped
          [] InMemory(c.PC) /\ get_op(ins) \in 0..6 -> set(Alu(name, B, getR(get_C(ins))))
          [] InMemory(c.PC) /\ get_op(ins) \in 8..13 -> set(Alu(name, B, get_S12(ins)))
          [] InMemory(c.PC) /\ get_op(ins) \in {16, 17} ->
                 IF addr % 4 # 0 \/ ~InMemory(addr) THEN stopped
                 ELSE IF name = "lw" THEN set(load_word(c, addr))
                 ELSE [after EXCEPT !.mem[addr \div 4] = A]
          [] InMemory(c.PC) /\ get_op(ins) \in 24..27 ->
                 IF Jumps(name, A, B) THEN [after EXCEPT !.PC = @ + (4 * get_S12(ins))] ELSE after

RECURSIVE run(_, _)
run(c, max_steps) == IF max_steps = 0 \/ ~c.running THEN c ELSE run(step(c), max_steps - 1)

(* Memory and registers are zero but for the program, put at address 0. *)
Loaded(words) ==
    [mem |-> [i \in 0..(MEM_WORDS - 1) |-> IF i < Len(words) THEN words[i + 1] ELSE 0],
     R |-> [r \in 0..63 |-> 0], PC |-> 0, running |-> TRUE]
=============================================================================
