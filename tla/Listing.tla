------------------------------ MODULE Listing ------------------------------
(***************************************************************************)
(* The disassembler: DisassembleInstruction, the u command and the prompt.  *)
(*                                                                         *)
(* An instruction is shown as a mnemonic and numbers; how the numbers are  *)
(* written, symbols and line numbers are left out.  Flags are a number, s, *)
(* where the program has a mnemonic for each.                              *)
(***************************************************************************)
EXTENDS Integers, Sequences

CONSTANTS
  FlashSize,  \* bytes of flash memory
  Words,      \* what a word of flash may hold
  Counts      \* the instruction counts a user asks for

\* What the constants are assumed to be.
ListingAssumption ==
  /\ FlashSize \in Nat /\ FlashSize > 0 /\ FlashSize % 2 = 0
  /\ Words \subseteq 0..65535 /\ Counts \subseteq Int

(***************************************************************************)
(* Decoding.  Bits(c, lo, n) are the n bits of c from bit lo on.           *)
(***************************************************************************)
Bits(c, lo, n) == (c \div 2^lo) % 2^n

Shown(op, args) == [op |-> op, args |-> args, words |-> 1]
TwoWords(op, args) == [op |-> op, args |-> args, words |-> 2]

RegD(c) == Bits(c, 4, 5)
\* A mutant: bit 9 of the second register is not moved to bit 4.
RegR_Low(c) == Bits(c, 0, 4) + Bits(c, 9, 1)
RegR(c) == 16 * Bits(c, 9, 1) + Bits(c, 0, 4)
HighReg(c) == Bits(c, 4, 4) + 16
Immediate(c) == 16 * Bits(c, 8, 4) + Bits(c, 0, 4)

\* The address delta words after the next instruction, sign in the top bit of n.
Relative(i, k, n) == i + 2 * ((IF k >= 2^(n - 1) THEN k - 2^n ELSE k) + 1)

Winst0(c) ==
  CASE Bits(c, 8, 4) = 0 -> Shown("nop", <<>>)
    [] Bits(c, 8, 4) = 1 -> Shown("movw", <<2 * Bits(c, 4, 4), 2 * Bits(c, 0, 4)>>)
    [] Bits(c, 8, 4) = 2 -> Shown("muls", <<HighReg(c), Bits(c, 0, 4) + 16>>)
    [] Bits(c, 8, 4) = 3 -> Shown("mul?", <<>>)
    [] OTHER -> Shown(<<"cpc", "sbc", "add">>[Bits(c, 10, 2)], <<RegD(c), RegR(c)>>)

Winst1(c) ==
  Shown(<<"cpse", "cp", "sub", "adc">>[Bits(c, 10, 2) + 1], <<RegD(c), RegR(c)>>)

Winst2(c) ==
  IF RegD(c) = RegR(c) /\ Bits(c, 10, 2) < 2
  THEN Shown(<<"tst", "clr">>[Bits(c, 10, 2) + 1], <<RegD(c)>>)
  ELSE Shown(<<"and", "eor", "or", "mov">>[Bits(c, 10, 2) + 1], <<RegD(c), RegR(c)>>)

Constant(op, c) == Shown(op, <<HighReg(c), Immediate(c)>>)

Winst90(c, next) ==
  CASE Bits(c, 0, 4) = 0 -> TwoWords("lds", <<RegD(c), next>>)
    [] Bits(c, 0, 4) \in {3, 8, 11} -> Shown("???", <<>>)
    [] OTHER ->
         Shown(<<"ld Z+", "ld -Z", "", "lpm Z", "lpm Z+", "elpm Z", "elpm Z+", "",
                 "ld Y+", "ld -Y", "", "ld X", "ld X+", "ld -X", "pop">>[Bits(c, 0, 4)],
               <<RegD(c)>>)

Winst92(c, next) ==
  CASE Bits(c, 0, 4) = 0 -> TwoWords("sts", <<RegD(c), next>>)
    [] Bits(c, 0, 4) \in 3..8 \union {11} -> Shown("???", <<>>)
    [] OTHER ->
         Shown(<<"st Z+", "st -Z", "", "", "", "", "", "",
                 "st Y+", "st -Y", "", "st X", "st X+", "st -X", "push">>[Bits(c, 0, 4)],
               <<RegD(c)>>)

\* The instructions without operands, by their low byte.
Plain == [x \in {8, 9, 24, 25, 136, 152, 168, 200, 216, 232, 248} |->
            CASE x = 8 -> "ret"     [] x = 9 -> "icall"   [] x = 24 -> "reti"
              [] x = 25 -> "eicall" [] x = 136 -> "sleep" [] x = 152 -> "break"
              [] x = 168 -> "wdr"   [] x = 200 -> "lpm"   [] x = 216 -> "elpm"
              [] x = 232 -> "spm"   [] x = 248 -> "espm"]

\* A mutant: jmp and call are taken for instructions of one word.
JmpCall_One(c, next) ==
  Shown(IF Bits(c, 1, 1) = 1 THEN "call" ELSE "jmp",
        <<2 * ((2 * Bits(c, 4, 5) + Bits(c, 0, 1)) * 65536 + next)>>)
JmpCall(c, next) ==
  TwoWords(IF Bits(c, 1, 1) = 1 THEN "call" ELSE "jmp",
           <<2 * ((2 * Bits(c, 4, 5) + Bits(c, 0, 1)) * 65536 + next)>>)

Winst94(c, next) ==
  CASE Bits(c, 1, 3) = 4 /\ Bits(c, 8, 1) = 1 ->
         Shown(IF Bits(c, 0, 8) \in DOMAIN Plain THEN Plain[Bits(c, 0, 8)] ELSE "", <<>>)
    [] Bits(c, 1, 3) = 4 /\ Bits(c, 8, 1) = 0 /\ Bits(c, 0, 1) = 1 ->
         Shown(IF Bits(c, 4, 1) = 1 THEN "eijmp" ELSE "ijmp", <<>>)
    [] Bits(c, 1, 3) = 4 /\ Bits(c, 8, 1) = 0 /\ Bits(c, 0, 1) = 0 ->
         Shown(IF Bits(c, 7, 1) = 1 THEN "bclr" ELSE "bset", <<Bits(c, 4, 3)>>)
    [] Bits(c, 1, 3) # 4 /\ Bits(c, 2, 2) # 3 ->
         Shown(IF Bits(c, 0, 4) \in {4, 11} THEN "???"
               ELSE <<"com", "neg", "swap", "inc", "", "asr", "lsr", "ror", "", "",
                      "dec">>[Bits(c, 0, 4) + 1],
               <<RegD(c)>>)
    [] Bits(c, 2, 2) = 3 -> JmpCall(c, next)

\* adiw and sbiw: a pair of registers and a number of six bits.
Pair(op, c) == Shown(op, <<2 * Bits(c, 4, 2) + 24, 16 * Bits(c, 6, 2) + Bits(c, 0, 4)>>)

Winst9(c, next) ==
  LET sub == Bits(c, 8, 4)
  IN CASE sub \in 0..1 -> Winst90(c, next)
       [] sub \in 2..3 -> Winst92(c, next)
       [] sub \in 4..5 -> Winst94(c, next)
       [] sub \in 6..7 -> Pair(IF sub = 6 THEN "adiw" ELSE "sbiw", c)
       [] sub \in 8..11 -> Shown(<<"cbi", "sbic", "sbi", "sbis">>[sub - 7],
                                 <<Bits(c, 3, 5), Bits(c, 0, 3)>>)
       [] sub \in 12..15 -> Shown("mul", <<RegD(c), RegR(c)>>)

WinstB(c) ==
  LET adr == 16 * Bits(c, 9, 2) + Bits(c, 0, 4)
  IN IF Bits(c, 11, 1) = 1 THEN Shown("out", <<adr, RegD(c)>>)
                           ELSE Shown("in", <<RegD(c), adr>>)

WinstF(i, c) ==
  CASE Bits(c, 11, 1) = 0 ->
         Shown(IF Bits(c, 10, 1) = 1 THEN "brbc" ELSE "brbs",
               <<Bits(c, 0, 3), Relative(i, Bits(c, 3, 7), 7)>>)
    [] Bits(c, 11, 1) = 1 /\ Bits(c, 3, 1) = 0 ->
         Shown(<<"bld", "bst", "sbrc", "sbrs">>[Bits(c, 9, 2) + 1],
               <<RegD(c), Bits(c, 0, 3)>>)
    [] OTHER -> Shown(IF c = 65535 THEN "" ELSE "???", <<>>)

Jump(op, i, c) == Shown(op, <<Relative(i, Bits(c, 0, 12), 12)>>)

WinstE(c) == Constant("ldi", c)

Winstruction(i, c, next) ==
  LET op == Bits(c, 12, 4)
  IN CASE op = 0 -> Winst0(c)
       [] op = 1 -> Winst1(c)
       [] op = 2 -> Winst2(c)
       [] op \in 3..7 -> Constant(<<"cpi", "sbci", "subi", "ori", "andi">>[op - 2], c)
       [] op \in {8, 10} -> Shown("Inst", <<>>)
       [] op = 9 -> Winst9(c, next)
       [] op = 11 -> WinstB(c)
       [] op \in 12..13 -> Jump(IF op = 12 THEN "rjmp" ELSE "rcall", i, c)
       [] op = 14 -> WinstE(c)
       [] op = 15 -> WinstF(i, c)

(***************************************************************************)
(* The command.  flash is what DwReadFlash returns, Uaddr the address      *)
(* kept from one u to the next; first, length and left are the command's   *)
(* locals, and line is the line written last.                              *)
(***************************************************************************)
VARIABLES flash, Uaddr, at, first, length, left, line

vars == <<flash, Uaddr, at, first, length, left, line>>

Init ==
  /\ flash \in [0..FlashSize \div 2 - 1 -> Words]
  /\ Uaddr = 0
  /\ at = "prompt"
  /\ first = 0 /\ length = 0 /\ left = 0
  /\ line = <<>>

\* The bytes read for n instructions, of up to two words each.
Room(n) == n * 4

Smaller(a, b) == IF a < b THEN a ELSE b

\* u [address] [count]; an address or a count left out is <<>>.
UnassembleCommand(addr, count) ==
  /\ at = "prompt"
  /\ LET start == IF addr = <<>> THEN Uaddr ELSE addr[1]
         n     == IF count = <<>> THEN 8 ELSE count[1]
         bytes == Smaller(start + Room(n), FlashSize) - start
     IN /\ Uaddr' = start
        /\ first' = start
        /\ length' = bytes
        /\ left' = n
        /\ at' = IF bytes <= 0 THEN "prompt" ELSE "list"
  /\ line' = <<>>
  /\ UNCHANGED flash

\* A word of buf: two bytes of zeros follow what was read.
Word(a) == IF a < first + length THEN flash[a \div 2] ELSE 0

More(addr, n) == n > 0 /\ addr < FlashSize

DisassembleInstruction ==
  /\ at = "list"
  /\ LET inst == Winstruction(Uaddr, Word(Uaddr), Word(Uaddr + 2))
     IN /\ line' = <<Uaddr, inst>>
        /\ Uaddr' = Uaddr + 2 * inst.words
        /\ at' = IF More(Uaddr', left - 1) THEN "list" ELSE "prompt"
  /\ left' = left - 1
  /\ UNCHANGED <<flash, first, length>>

\* The instruction at PC, shown at the prompt; DwReadFlash fails when its four bytes
\* are not all in the flash.  u goes on behind it.
DisassemblyPrompt(pc) ==
  /\ at = "prompt" /\ pc + 4 <= FlashSize
  /\ LET inst == Winstruction(pc, flash[pc \div 2], flash[pc \div 2 + 1])
     IN line' = <<pc, inst>> /\ Uaddr' = pc + 2 * inst.words
  /\ UNCHANGED <<flash, at, first, length, left>>

\* What a user types; ReadInstructionAddress takes even numbers only.
Even == {x \in 0..FlashSize + 2 : x % 2 = 0}
Addresses == {<<>>} \union {<<a>> : a \in Even}

Next ==
  \/ \E addr \in Addresses, count \in {<<>>} \union {<<n>> : n \in Counts} :
       UnassembleCommand(addr, count)
  \/ DisassembleInstruction
  \/ \E pc \in Even : DisassemblyPrompt(pc)

Spec == Init /\ [][Next]_vars

-----------------------------------------------------------------------------
(***************************************************************************)
(* Reference: the instruction set as the bit patterns in the comments of   *)
(* Disassemble.c (whose digits 0 and letters O in some names are mixed up).*)
(* d and r are registers, K a constant, A an I/O address, b a bit, s a     *)
(* flag, k a signed distance in words, j an address, q a displacement and  *)
(* x anything. LD from Z or Y is LDD with a displacement of 0.             *)
(***************************************************************************)
Patterns ==
  { <<"nop",  "0000000000000000">>, <<"movw", "00000001ddddrrrr">>,
    <<"muls", "00000010ddddrrrr">>, <<"mulsu", "000000110ddd0rrr">>,
    <<"fmul", "000000110ddd1rrr">>, <<"fmuls", "000000111ddd0rrr">>,
    <<"fmulsu", "000000111ddd1rrr">>,
    <<"cpc",  "000001rdddddrrrr">>, <<"sbc",  "000010rdddddrrrr">>,
    <<"add",  "000011rdddddrrrr">>, <<"cpse", "000100rdddddrrrr">>,
    <<"cp",   "000101rdddddrrrr">>, <<"sub",  "000110rdddddrrrr">>,
    <<"adc",  "000111rdddddrrrr">>, <<"and",  "001000rdddddrrrr">>,
    <<"eor",  "001001rdddddrrrr">>, <<"or",   "001010rdddddrrrr">>,
    <<"mov",  "001011rdddddrrrr">>, <<"cpi",  "0011KKKKddddKKKK">>,
    <<"sbci", "0100KKKKddddKKKK">>, <<"subi", "0101KKKKddddKKKK">>,
    <<"ori",  "0110KKKKddddKKKK">>, <<"andi", "0111KKKKddddKKKK">>,
    <<"ldd Z", "10q0qq0ddddd0qqq">>, <<"ldd Y", "10q0qq0ddddd1qqq">>,
    <<"std Z", "10q0qq1ddddd0qqq">>, <<"std Y", "10q0qq1ddddd1qqq">>,
    <<"lds",  "1001000ddddd0000">>, <<"ld Z+", "1001000ddddd0001">>,
    <<"ld -Z", "1001000ddddd0010">>, <<"lpm Z", "1001000ddddd0100">>,
    <<"lpm Z+", "1001000ddddd0101">>, <<"elpm Z", "1001000ddddd0110">>,
    <<"elpm Z+", "1001000ddddd0111">>, <<"ld Y+", "1001000ddddd1001">>,
    <<"ld -Y", "1001000ddddd1010">>, <<"ld X", "1001000ddddd1100">>,
    <<"ld X+", "1001000ddddd1101">>, <<"ld -X", "1001000ddddd1110">>,
    <<"pop",  "1001000ddddd1111">>,
    <<"sts",  "1001001ddddd0000">>, <<"st Z+", "1001001ddddd0001">>,
    <<"st -Z", "1001001ddddd0010">>, <<"st Y+", "1001001ddddd1001">>,
    <<"st -Y", "1001001ddddd1010">>, <<"st X", "1001001ddddd1100">>,
    <<"st X+", "1001001ddddd1101">>, <<"st -X", "1001001ddddd1110">>,
    <<"push", "1001001ddddd1111">>, <<"???", "1001001xxxxx01xx">>,
    <<"com",  "1001010ddddd0000">>, <<"neg",  "1001010ddddd0001">>,
    <<"swap", "1001010ddddd0010">>, <<"inc",  "1001010ddddd0011">>,
    <<"asr",  "1001010ddddd0101">>, <<"lsr",  "1001010ddddd0110">>,
    <<"???",  "1001010ddddd0100">>, <<"ror",  "1001010ddddd0111">>, <<"dec",  "1001010ddddd1010">>,
    <<"ijmp", "1001010000001001">>, <<"eijmp", "1001010000011001">>,
    <<"bset", "100101000sss1000">>, <<"bclr", "100101001sss1000">>,
    <<"ret",  "1001010100001000">>, <<"icall", "1001010100001001">>,
    <<"reti", "1001010100011000">>, <<"eicall", "1001010100011001">>,
    <<"sleep", "1001010110001000">>, <<"break", "1001010110011000">>,
    <<"wdr",  "1001010110101000">>, <<"lpm",  "1001010111001000">>,
    <<"elpm", "1001010111011000">>, <<"spm",  "1001010111101000">>,
    <<"espm", "1001010111111000">>, <<"jmp",  "1001010jjjjj110j">>,
    <<"call", "1001010jjjjj111j">>, <<"adiw", "10010110KKddKKKK">>,
    <<"sbiw", "10010111KKddKKKK">>, <<"cbi",  "10011000AAAAAbbb">>,
    <<"sbic", "10011001AAAAAbbb">>, <<"sbi",  "10011010AAAAAbbb">>,
    <<"sbis", "10011011AAAAAbbb">>, <<"mul",  "100111rdddddrrrr">>,
    <<"in",   "10110AAdddddAAAA">>, <<"out",  "10111AAdddddAAAA">>,
    <<"rjmp", "1100kkkkkkkkkkkk">>, <<"rcall", "1101kkkkkkkkkkkk">>,
    <<"ldi",  "1110KKKKddddKKKK">>, <<"brbs", "111100kkkkkkksss">>,
    <<"brbc", "111101kkkkkkksss">>, <<"bld",  "1111100ddddd0bbb">>,
    <<"bst",  "1111101ddddd0bbb">>, <<"sbrc", "1111110ddddd0bbb">>,
    <<"sbrs", "1111111ddddd0bbb">> }

\* Position p of a pattern, 1 for the top bit.
Letter(pattern, p) == SubSeq(pattern, p, p)
Bit(c, p) == IF Bits(c, 16 - p, 1) = 1 THEN "1" ELSE "0"
Matches(c, pattern) ==
  \A p \in 1..16 : Letter(pattern, p) \in {"0", "1"} => Letter(pattern, p) = Bit(c, p)

\* The number in c at the places where the pattern has the letter x.
Number(c, pattern, x) ==
  LET n[p \in 0..16] ==
        IF p = 0 THEN 0
        ELSE IF Letter(pattern, p) = x THEN 2 * n[p - 1] + Bits(c, 16 - p, 1)
        ELSE n[p - 1]
  IN n[16]

\* The operands an instruction has by its letters.
Operands(i, c, next, op, pattern) ==
  LET N(x) == Number(c, pattern, x)
  IN CASE op \in {"mulsu", "fmul", "fmuls", "fmulsu"} -> <<N("d") + 16, N("r") + 16>>
       [] op \in {"ldd Z", "ldd Y", "std Z", "std Y"} -> <<N("d"), N("q")>>
       [] op \in {"movw"} -> <<2 * N("d"), 2 * N("r")>>
       [] op \in {"muls"} -> <<N("d") + 16, N("r") + 16>>
       [] op \in {"tst", "clr"} -> <<N("d")>>
       [] op \in {"cpi", "sbci", "subi", "ori", "andi", "ldi"} -> <<N("d") + 16, N("K")>>
       [] op \in {"lds", "sts"} -> <<N("d"), next>>
       [] op \in {"bset", "bclr"} -> <<N("s")>>
       [] op \in {"jmp", "call"} -> <<2 * (65536 * N("j") + next)>>
       [] op \in {"adiw", "sbiw"} -> <<24 + 2 * N("d"), N("K")>>
       [] op \in {"cbi", "sbic", "sbi", "sbis"} -> <<N("A"), N("b")>>
       [] op = "in" -> <<N("d"), N("A")>>
       [] op = "out" -> <<N("A"), N("d")>>
       [] op \in {"rjmp", "rcall"} ->
            <<i + 2 + 2 * (IF N("k") < 2048 THEN N("k") ELSE N("k") - 4096)>>
       [] op \in {"brbs", "brbc"} ->
            <<N("s"), i + 2 + 2 * (IF N("k") < 64 THEN N("k") ELSE N("k") - 128)>>
       [] op \in {"bld", "bst", "sbrc", "sbrs"} -> <<N("d"), N("b")>>
       [] op \in {"cpc", "sbc", "add", "cpse", "cp", "sub", "adc", "and", "eor", "or",
                  "mov", "mul"} -> <<N("d"), N("r")>>
       [] Letter(pattern, 8) = "d" -> <<N("d")>>
       [] OTHER -> <<>>

\* and and eor of a register with itself have names of their own.
Alias(op, c, pattern) ==
  IF op \in {"and", "eor"} /\ Number(c, pattern, "d") = Number(c, pattern, "r")
  THEN IF op = "and" THEN "tst" ELSE "clr"
  ELSE op

LongInstruction(c) ==
  \E entry \in Patterns : entry[1] \in {"lds", "sts", "jmp", "call"} /\ Matches(c, entry[2])

\* The words of flash at which the processor, started at 0, finds instructions.
Starts ==
  LET n == FlashSize \div 2
      s[w \in 0..n + 1] ==
        \/ w = 0
        \/ w >= 1 /\ s[w - 1] /\ w <= n /\ ~LongInstruction(flash[w - 1])
        \/ w >= 2 /\ s[w - 2] /\ LongInstruction(flash[w - 2])
  IN {2 * w : w \in {x \in 0..n + 1 : s[x]}}

-----------------------------------------------------------------------------
(***************************************************************************)
(* Properties.                                                             *)
(***************************************************************************)
\* The locals of the u command stay in their ranges, and it lists only words that
\* it has read, or the two bytes of zeros after them (UnassembleCommand.c:18).
TypeOK ==
  /\ at \in {"prompt", "list"}
  /\ Uaddr % 2 = 0
  /\ at = "list" =>
       /\ left > 0 /\ length > 0
       /\ first <= Uaddr /\ Uaddr - first + 4 <= length + 2

\* The line shows the word as the comments have it, if its instruction is one of these.
ShownAs(Ops) ==
  line # <<>> =>
    LET addr == line[1]
        c    == flash[addr \div 2]
        next == IF addr + 2 < FlashSize THEN flash[addr \div 2 + 1] ELSE 0
    IN \A entry \in Patterns :
         entry[1] \in Ops /\ Matches(c, entry[2]) =>
           LET op == Alias(entry[1], c, entry[2])
           IN /\ line[2].op = op
              /\ line[2].args = Operands(addr, c, next, op, entry[2])

Instructions == {entry[1] : entry \in Patterns}

\* Of these, for which the comments have patterns too (13-16, 126-129), the program names
\* only the group.
GroupsOnly == {"mulsu", "fmul", "fmuls", "fmulsu", "ldd Z", "ldd Y", "std Z", "std Y"}

\* Every instruction word, but for the two groups that the program does not tell apart, is
\* shown as the instruction whose bit pattern the comments of Disassemble.c give, with the
\* operands at that pattern's places.
Agrees == ShownAs(Instructions \ GroupsOnly)

\* Where a line shows an instruction of the program, the next line, of the same u, of the
\* next one or of one after the prompt, shows one too: no second word is taken for an
\* instruction and none is skipped (the lengths DisassembleInstruction returns).
StaysInStep == line' # line /\ line' # <<>> /\ line'[1] \in Starts => Uaddr' \in Starts
=============================================================================
