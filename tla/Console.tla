------------------------------- MODULE Console -------------------------------
(***************************************************************************)
(* The loop of ui/UserInterface.c: input is read in to the buffer of       *)
(* InputRing whenever an operation finds too little there, a command's     *)
(* name is read and its handler is called, the rest of the command is      *)
(* skipped, and a failure skips the line or ends the program.              *)
(***************************************************************************)
EXTENDS InputRing

CONSTANTS
  Inputs,    \* what may be typed or be in the input file: sequences of Chars
  Preloads,  \* the command lines
  NameMax,   \* the longest command name that ParseAndHandleCommand reads, 19 in the code
  Tty,       \* is the input a terminal?
  Edges      \* may PCommand put PC within the last two bytes of flash? a subset of BOOLEAN

\* What the constants are assumed to be.
ConsoleAssumption ==
  /\ Inputs \subseteq Seq(Chars) /\ Preloads \subseteq Seq(Chars)
  /\ \A p \in Preloads : Len(p) < ILimit - 1
  /\ NameMax \in Nat \ {0} /\ NameMax < ILimit \div 2
  /\ Tty \in BOOLEAN /\ Edges \subseteq BOOLEAN

VARIABLES
  ring,
  input,         \* all of the input, numbered: the command line, and what can be read
  read,          \* the number of characters that have been read
  at,            \* the place in the loop
  IsInteractive,
  edge,          \* is PC within the last two bytes of flash?
  prompted,      \* has the user been asked for the next line?
  ran,           \* the names of the commands handled, as positions in the input
  failed,        \* where a failure was met
  slips,         \* behind what the loop reads on without a prompt: an end of line that an
                 \* interrupt of gdb has skipped, or the place of a prompt that failed
  overrun        \* has an interrupt of gdb skipped an end of line that was not there?

vars == <<ring, input, read, at, IsInteractive, edge, prompted, ran, failed, slips, overrun>>

Numbered(s) == [i \in 1..Len(s) |-> [ch |-> s[i], pos |-> i]]

(* An empty command line is no line at all. *)
Line(preload) == IF preload = <<>> THEN <<>> ELSE Append(preload, "\n")

(* Is there a failure that skips what is behind the i-th character?  One   *)
(* of a prompt, or of a command that may fail, here or before ends of line *)
(* that gdb's interrupts can skip.                                         *)
MayFail(text, i) ==
  \/ TRUE \in Edges
  \/ \E j \in 1..i : text[j] \in {"f", "p", "s"} /\ \A k \in (j + 1)..i : text[k] \in Eolns

(* A text whose commands, with their blanks, end within half the buffer;   *)
(* at a terminal so does a line that a failure skips.                      *)
Half == ILimit \div 2
Brief(text) ==
  /\ \A i \in 1..Len(text) : i + Half - 1 <= Len(text) => \E k \in i..(i + Half - 1) : text[k] \in DwEolns
  /\ Tty => \A i \in 0..Len(text) : MayFail(text, i) /\ i + Half <= Len(text)
                                      => \E k \in (i + 1)..(i + Half) : text[k] \in Eolns

(* Assumptions of some of the properties, about what is put in: commands   *)
(* are short,                                                              *)
ShortCommands == \A preload \in Preloads, typed \in Inputs : Brief(Line(preload) \o typed)

(* or all of the input fits in to the buffer, and if it fills it does not  *)
(* begin with what could end a command, or be a number.                    *)
OneRound ==
  \A preload \in Preloads, typed \in Inputs :
    LET text == Line(preload) \o typed
    IN  Len(text) <= ILimit /\ (Len(text) = ILimit => text[1] \notin DwEolns \cup Numeric)
-----------------------------------------------------------------------------
(* The handler is called, or the loop waits for, at these places; an       *)
(* operation that begins with Fill is a step from a place in Fills.        *)
Fills  == {"start", "again", "parse", "number", "rest", "ends", "failed"}
Places == Fills \cup {"loop", "prompt", "go", "serve", "exit"}

(* What a read of at most n characters returns: a terminal gives a line,   *)
(* anything else as many characters as it likes.                           *)
Lengths(n) ==
  LET most == Min({n, Len(input) - read})
      ends == {k \in 1..most : input[read + k].ch \in Eolns}
  IN  IF most = 0 THEN {0}
      ELSE IF Tty THEN {IF ends = {} THEN most ELSE Min(ends)}
      ELSE 1..most

Fill ==
  /\ at \in Fills /\ NeedsMore(ring)
  /\ \E n \in Lengths(BufferContiguousFree(ring)) :
       /\ ring' = ContiguousFill(ring, SubSeq(input, read + 1, read + n))
       /\ read' = read + n
  /\ prompted' = (prompted /\ ~ring'.eoln)
  /\ UNCHANGED <<input, at, IsInteractive, edge, ran, failed, slips, overrun>>

At(here) == at = here /\ (here \in Fills => ~NeedsMore(ring))

(* UI: is a terminal to be prompted? *)
Loop ==
  /\ At("loop")
  /\ IsInteractive' = IF BufferTotalContent(ring) = 0 THEN Tty ELSE IsInteractive
  /\ at' = "prompt"
  /\ UNCHANGED <<ring, input, read, edge, prompted, ran, failed, slips, overrun>>

(* The instruction at PC is shown, unless something is already on the      *)
(* line; DwReadFlash fails when its four bytes are not all there.          *)
Prompt ==
  /\ At("prompt")
  /\ IF BufferTotalContent(ring) = 0 /\ IsInteractive
     THEN \E OutputPosition \in BOOLEAN :
            IF edge /\ ~OutputPosition
            THEN /\ at' = "failed"
                 /\ failed' = failed \cup {read} /\ slips' = slips \cup {read}
                 /\ UNCHANGED prompted
            ELSE at' = "start" /\ prompted' = TRUE /\ UNCHANGED <<failed, slips>>
     ELSE at' = "start" /\ UNCHANGED <<prompted, failed, slips>>
  /\ UNCHANGED <<ring, input, read, IsInteractive, edge, ran, overrun>>

(* ParseAndHandleCommand: blanks, a separator and blanks. *)
Start ==
  /\ At("start")
  /\ LET r == SkipWhile(ring, Blanks)
     IN  IF NextCh(r) \in Separators
         THEN ring' = SkipCh(r) /\ at' = "again"
         ELSE ring' = r /\ at' = "parse"
  /\ UNCHANGED <<input, read, IsInteractive, edge, prompted, ran, failed, slips, overrun>>

Again ==
  /\ At("again")
  /\ ring' = SkipWhile(ring, Blanks)
  /\ at' = "parse"
  /\ UNCHANGED <<input, read, IsInteractive, edge, prompted, ran, failed, slips, overrun>>

(* At the end of the input dwdebug quits. *)
Quit ==
  /\ At("parse") /\ BufferTotalContent(ring) = 0
  /\ at' = "exit"
  /\ UNCHANGED <<ring, input, read, IsInteractive, edge, prompted, ran, failed, slips, overrun>>

(* The position of the character that was used up last. *)
LastUsed == IF BufferTotalContent(ring) <= read THEN read - BufferTotalContent(ring) ELSE 0

(* Fail jumps back in to UI, or ends a program that nobody is using.       *)
FailsAt(command) ==
  /\ failed' = failed \cup {command}
  /\ at' = IF IsInteractive THEN "failed" ELSE "exit"

(* The handlers: "f" stands for a command that fails, "p" for one that     *)
(* reads a number, "g" for GoCommand, "s" for GdbserverCommand, every      *)
(* other name for a command that reads nothing, and for the names that are *)
(* not recognised.                                                         *)
HandleCommand ==
  /\ At("parse") /\ BufferTotalContent(ring) > 0
  /\ LET n    == ReadLength(ring, Alpha, NameMax)
         name == [k \in 1..n |-> Nth(ring, k - 1).ch]
         here == Nth(ring, 0).pos
     IN  /\ ring' = Skip(ring, n)
         /\ ran' = ran \cup {[from |-> here, length |-> n]}
         /\ CASE name = <<"f">> -> FailsAt(here)
              [] name = <<"p">> -> at' = "number" /\ UNCHANGED failed
              [] name = <<"g">> -> at' = "go" /\ UNCHANGED failed
              [] name = <<"s">> -> at' = "serve" /\ UNCHANGED failed
              [] OTHER          -> at' = "rest" /\ UNCHANGED failed
  /\ prompted' = (prompted \/ (at' = "go" /\ Tty))
  /\ UNCHANGED <<input, read, IsInteractive, edge, slips, overrun>>

(* ReadNumber takes digits for as long as there are any, also beyond IIn.  *)
ReadNumber ==
  /\ At("number")
  /\ LET r == SkipWhile(ring, Blanks)
         n == RunLength(r, Numeric, ILimit - 1)
     IN  /\ ring' = Skip(r, n)
         /\ IF n = 0 THEN FailsAt(Nth(r, 0).pos) /\ UNCHANGED edge
            ELSE /\ edge' \in Edges
                 /\ at' = "rest"
                 /\ UNCHANGED failed
  /\ UNCHANGED <<input, read, IsInteractive, prompted, ran, slips, overrun>>

(* GoWaitLoop: the program stops by itself, or there is something to read. *)
DeviceBreak ==
  /\ At("go")
  /\ at' = "rest"
  /\ UNCHANGED <<ring, input, read, IsInteractive, edge, prompted, ran, failed, slips, overrun>>

KeyboardBreak ==
  /\ At("go")
  /\ ring' = SkipEoln(ring)
  /\ at' = "rest"
  /\ UNCHANGED <<input, read, IsInteractive, edge, prompted, ran, failed, slips, overrun>>

(* GoWaitLoop in target_continue: what arrives from gdb stops the program, *)
(* and KeyboardBreak skips an end of line in the input, the first time     *)
(* that of the gdbserver command; SkipEoln looks at IOut without a look    *)
(* whether anything is there.                                              *)
GdbBreak ==
  /\ At("serve")
  /\ ring' = SkipEoln(ring)
  /\ IF NextCh(ring) \in Eolns
     THEN /\ slips' = slips \cup {Nth(ring, 0).pos}
          /\ overrun' = (overrun \/ BufferTotalContent(ring) = 0)
     ELSE UNCHANGED <<slips, overrun>>
  /\ UNCHANGED <<input, read, at, IsInteractive, edge, prompted, ran, failed>>

(* GdbserverCommand ends: gdb has sent k, or it fails.                     *)
GdbEnds ==
  /\ At("serve")
  /\ \/ at' = "rest" /\ UNCHANGED failed
     \/ FailsAt(LastUsed)
  /\ UNCHANGED <<ring, input, read, IsInteractive, edge, prompted, ran, slips, overrun>>

\* A mutant: the other commands of the line are skipped too.
Rest_WholeLine ==
  /\ At("rest")
  /\ ring' = SkipWhile(ring, Chars \ Eolns)
  /\ at' = "ends"
  /\ UNCHANGED <<input, read, IsInteractive, edge, prompted, ran, failed, slips, overrun>>

(* What is left of the command, and what ends it. *)
Rest ==
  /\ At("rest")
  /\ ring' = SkipWhile(ring, Chars \ DwEolns)
  /\ at' = "ends"
  /\ UNCHANGED <<input, read, IsInteractive, edge, prompted, ran, failed, slips, overrun>>

\* A mutant: a character is skipped without a look at what it is, or whether it is there.
Ends_Unchecked ==
  /\ At("ends")
  /\ ring' = SkipCh(ring)
  /\ at' = "loop"
  /\ UNCHANGED <<input, read, IsInteractive, edge, prompted, ran, failed, slips, overrun>>

Ends ==
  /\ At("ends")
  /\ ring' = SkipWhile(ring, DwEolns)
  /\ at' = "loop"
  /\ UNCHANGED <<input, read, IsInteractive, edge, prompted, ran, failed, slips, overrun>>

(* After a failure: the rest of the line is skipped. *)
Recover ==
  /\ At("failed")
  /\ ring' = SkipEoln(SkipWhile(ring, Chars \ Eolns))
  /\ at' = "prompt"
  /\ UNCHANGED <<input, read, IsInteractive, edge, prompted, ran, failed, slips, overrun>>

Init ==
  /\ \E preload \in Preloads, typed \in Inputs :
       LET line == Line(preload)
       IN  /\ input = Numbered(line \o typed)
           /\ ring = PreloadInput(NewRing, Numbered(line))
           /\ read = Len(line)
  /\ at = "loop"
  /\ IsInteractive = FALSE
  /\ edge = FALSE /\ prompted = FALSE
  /\ ran = {} /\ failed = {} /\ slips = {} /\ overrun = FALSE

Next == Fill \/ Loop \/ Prompt \/ Start \/ Again \/ Quit \/ HandleCommand
        \/ ReadNumber \/ DeviceBreak \/ KeyboardBreak \/ GdbBreak \/ GdbEnds \/ Rest \/ Ends \/ Recover

Spec     == Init /\ [][Next]_vars
FairSpec == Spec /\ WF_vars(Next)
-----------------------------------------------------------------------------
(* The input as it was typed. *)
Ch(i) == input[i].ch
SameLine(i, j) == \A k \in i..j : Ch(k) \notin Eolns

(* A command begins with the first character after its separator that is   *)
(* not a blank.                                                            *)
CommandAt(i) ==
  /\ Ch(i) \in Alpha
  /\ \E j \in 0..(i - 1) :
       /\ j = 0 \/ Ch(j) \in DwEolns
       /\ \A k \in (j + 1)..(i - 1) : Ch(k) \in Blanks

NameLength(i) ==
  Min({NameMax, Max({n \in 1..(Len(input) - i + 1) : \A k \in i..(i + n - 1) : Ch(k) \in Alpha})})

TypedToBreak(i) ==
  \E c \in ran :
    /\ c.length = 1 /\ Ch(c.from) = "g" /\ c.from + 1 < i
    /\ Ch(c.from + 1) \in Eolns
    /\ \A k \in (c.from + 2)..i : Ch(k) \notin DwEolns

(* Behind a slip: the rest of a command, or after a failure the rest of    *)
(* the line.                                                               *)
SlippedOver(i) ==
  \E e \in slips : e < i /\ \A k \in (e + 1)..i : Ch(k) \notin (IF e \in failed THEN Eolns ELSE DwEolns)

(* Is the line that is read up to here one behind a slip? *)
Slipped(n) == \E e \in slips : e <= n /\ \A k \in (e + 1)..n : Ch(k) \notin Eolns

TypeOK ==
  /\ ring \in [buf : [0..(ILimit - 1) -> [ch : Chars \cup {""}, pos : 0..Len(input)]],
               in : 0..(ILimit - 1), out : 0..(ILimit - 1), eof : BOOLEAN, eoln : BOOLEAN]
  /\ input \in Seq([ch : Chars, pos : Nat])
  /\ read \in 0..Len(input)
  /\ at \in Places
  /\ {IsInteractive, edge, prompted, overrun} \subseteq BOOLEAN
  /\ ran \subseteq [from : 0..Len(input), length : 0..NameMax]
  /\ failed \subseteq 0..Len(input) /\ slips \subseteq 0..Len(input)

(* What the buffer holds, first in first out. *)
Content(r) == [k \in 1..BufferTotalContent(r) |-> Nth(r, k - 1)]

(* BufferContiguousFree, Fill, SkipCh: until the end of the input has been *)
(* reached, and unless an interrupt of gdb has run past IIn, the buffer is *)
(* a queue, wherever it wraps: what is read is added at its end, and all   *)
(* that is used is taken from its beginning.                               *)
IsQueue ==
  ~ring.eof /\ ~overrun' =>
    IF read' # read
    THEN Content(ring') = Content(ring) \o SubSeq(input, read + 1, read')
    ELSE \E k \in 0..BufferTotalContent(ring) :
           Content(ring') = SubSeq(Content(ring), k + 1, BufferTotalContent(ring))

(* ParseAndHandleCommand: every command that is handled is one of the      *)
(* input, with its whole name; no read ends in the middle of one, unless   *)
(* an interrupt of gdb has run past IIn.                                   *)
WholeNames ==
  ~ring.eof /\ ~overrun =>
    \A c \in ran : c.length > 0 => CommandAt(c.from) /\ c.length = NameLength(c.from)

(* ParseAndHandleCommand, UI: a command of the part of the input that is   *)
(* used up was handled, is on the line of a command that failed before, or *)
(* was typed to stop the program: what begins the line after a "g".  Lost  *)
(* is what is behind an end of line that an interrupt of gdb has skipped,  *)
(* up to the next separator, or behind a prompt that failed, and nothing   *)
(* else, until an interrupt of gdb runs past IIn.                          *)
NoneLost ==
  ~ring.eof /\ ~overrun /\ at = "start" =>
    \A i \in 1..(read - BufferTotalContent(ring)) :
      CommandAt(i) => \/ \E c \in ran : c.from = i
                      \/ \E j \in failed : j < i /\ SameLine(j, i)
                      \/ TypedToBreak(i)
                      \/ SlippedOver(i)

(* Fill: a terminal is asked for a new line only after a prompt, or after  *)
(* `Press return key to force break', but for the line behind an end of    *)
(* line that an interrupt of gdb has skipped, or behind a prompt that      *)
(* failed.                                                                 *)
AsksFirst ==
  read' # read /\ IsInteractive /\ Ch(read') \in Eolns /\ ~overrun => prompted \/ Slipped(read)

(* The comment of Fill: a prompt is displayed before the next line is read. *)
PromptsFirst == read' # read /\ IsInteractive /\ Ch(read') \in Eolns => prompted

(* UI: with the input at its end the loop comes to QuitRunningCommand.     *)
Quits == <>(at = "exit")

(* in==out => empty: once the input has ended and is used up, there is     *)
(* nothing more to read.                                                   *)
StaysEmpty == ring.eof /\ BufferTotalContent(ring) = 0 => BufferTotalContent(ring') = 0
=============================================================================
