--------------------------------- MODULE Text ---------------------------------
(***************************************************************************)
(* Numbers, searches, copies and formats (string.c, stdio.c, serial.c,     *)
(* kerror.c, the copies of memory.c), and the arguments of a command       *)
(* (main.c).  Each is a function of its arguments; a behaviour is a        *)
(* sequence of calls, of which `call` is the last.                         *)
(*                                                                         *)
(* A character is a string of length one, a text a sequence of them        *)
(* without the terminator.  Positions count from 1 and 0 is the null       *)
(* pointer.  An int has INT_MAX as its largest value, and -INT_MAX - 1 is  *)
(* not converted: the code negates it, which C leaves undefined.           *)
(***************************************************************************)
EXTENDS Integers, SequencesExt, FiniteSetsExt

CONSTANTS
  INT_MAX,
  HEX_DIGITS,     \* digits serial_print_hex has room for (8)
  OUT_SIZE,       \* buffer of printf, serial_print and printp (1024)
  TextWidths,     \* widths of a hexadecimal number
  TextWords,      \* texts that are searched and compared
  Code,           \* the codes of their characters
  TextNumerals,   \* texts atoi is given
  TextFormats,    \* formats, and what their directives print:
  TextInt, TextUnsigned, TextString, TextChar,
  TextMemory,     \* memory in which memmove copies
  ARGC_MAX,       \* arguments of a command (64)
  TextLines       \* lines the console reads

\* A word of the machine has at most HEX_DIGITS digits; the terminator is 0.
ASSUME TextAssumption ==
  /\ INT_MAX \in Nat /\ {HEX_DIGITS, OUT_SIZE, ARGC_MAX} \subseteq Nat \ {0}
  /\ 16^HEX_DIGITS \in Nat /\ INT_MAX < 16^HEX_DIGITS
  /\ TextWidths \subseteq Nat
  /\ TextWords \subseteq Seq(DOMAIN Code) /\ Code \in [DOMAIN Code -> Nat \ {0}]
  /\ \A c, d \in DOMAIN Code : Code[c] = Code[d] => c = d
  /\ TextNumerals \cup TextFormats \cup TextLines \subseteq Seq(STRING)
  /\ TextInt \in -INT_MAX .. INT_MAX /\ TextUnsigned \in Nat
  /\ TextString \in Seq(STRING) /\ TextChar \in STRING
  /\ TextMemory \in Seq(Range(TextMemory))

VARIABLE call     \* [op, in, out]

DigitChars == <<"0", "1", "2", "3", "4", "5", "6", "7", "8", "9", "a", "b", "c", "d", "e", "f">>
DigitChar(d) == DigitChars[d + 1]
Decimals == {DigitChar(d) : d \in 0 .. 9}
DigitValue == [c \in Range(DigitChars) |-> (CHOOSE i \in DOMAIN DigitChars : DigitChars[i] = c) - 1]

Space == " "

Zeros(n) == [i \in 1 .. n |-> "0"]

-----------------------------------------------------------------------------
(* Numbers to text                                                         *)

\* the digits of v, last one first, as they are produced; none for 0
LowDigits(v, base) ==
  LET low[n \in Nat] ==
        IF n = 0 THEN <<>> ELSE <<DigitChar(n % base)>> \o low[n \div base]
  IN  low[v]

Digits(v, base) == IF v = 0 THEN <<"0">> ELSE Reverse(LowDigits(v, base))

uint_to_str(v) == Digits(v, 10)
u64_to_str(v) == Digits(v, 10)

int_to_str(v) == IF v < 0 THEN <<"-">> \o Digits(-v, 10) ELSE Digits(v, 10)
i64_to_str(v) == int_to_str(v)

itoa(num, base) ==
  IF num < 0 /\ base = 10 THEN Reverse(Append(LowDigits(-num, base), "-"))
  ELSE IF num = 0 THEN <<"0">> ELSE Reverse(LowDigits(num, base))

Padded(digits, width) == Zeros(width - Len(digits)) \o digits

hex32_to_str(v, width) == Padded(Digits(v, 16), width)
hex64_to_str(v, width) == hex32_to_str(v, width)

\* 0 has no digits of its own here, only those of the width
write_hex(v, width) ==
  IF v = 0 /\ width = 0 THEN <<"0">> ELSE Padded(Reverse(LowDigits(v, 16)), width)

\* both the number and its width end at the buffer
serial_print_hex(v, width) ==
  Padded(Digits(v % 16^HEX_DIGITS, 16), Min({width, HEX_DIGITS}))

-----------------------------------------------------------------------------
(* Text to number                                                          *)

Overflows_late(result, d) == result > INT_MAX \div 10

Overflows(result, d) == result > (INT_MAX - d) \div 10

DigitStep(s, d) ==
  IF s.over \/ Overflows(s.result, d) THEN [s EXCEPT !.over = TRUE]
                                      ELSE [s EXCEPT !.result = 10 * s.result + d]

\* first place from i on that holds no digit, or the terminator
DigitsEnd(str, i) == Min({k \in i .. Len(str) : str[k] \notin Decimals} \cup {Len(str) + 1})

\* Spaces, a sign, digits up to the first other character.  A digit too many
\* returns at once.
atoi(str) ==
  LET first == Min({i \in DOMAIN str : str[i] # Space} \cup {Len(str) + 1})
      signed == first <= Len(str) /\ str[first] \in {"-", "+"}
      start == IF signed THEN first + 1 ELSE first
      sign == IF signed /\ str[first] = "-" THEN -1 ELSE 1
      digits == SubSeq(str, start, DigitsEnd(str, start) - 1)
      read[k \in 0 .. Len(digits)] ==
        IF k = 0 THEN [result |-> 0, over |-> FALSE]
        ELSE DigitStep(read[k - 1], DigitValue[digits[k]])
      last == read[Len(digits)]
  IN  IF ~last.over THEN sign * last.result
      ELSE IF sign = 1 THEN INT_MAX ELSE -INT_MAX - 1

-----------------------------------------------------------------------------
(* Searches                                                                *)

\* the byte at place k; the terminator, 0, stands behind the last character
ByteAt(str, k) == IF k \in DOMAIN str THEN Code[str[k]] ELSE 0

\* where the inner loop of strstr leaves needle, the haystack read from i on
MatchEnd(haystack, needle, i) ==
  LET match[n \in 1 .. Len(needle) + 1] ==
        LET h == ByteAt(haystack, i + n - 1)
        IN  IF h # 0 /\ ByteAt(needle, n) # 0 /\ h = ByteAt(needle, n)
            THEN match[n + 1] ELSE n
  IN  match[1]

strstr(haystack, needle) ==
  LET from[i \in 1 .. Len(haystack) + 1] ==
        IF ByteAt(haystack, i) = 0 THEN 0
        ELSE IF ByteAt(needle, MatchEnd(haystack, needle, i)) = 0 THEN i ELSE from[i + 1]
  IN  IF ByteAt(needle, 1) = 0 THEN 1 ELSE from[1]

strrchr_first(s, c) ==
  LET last[k \in 0 .. Len(s) + 1] ==
        IF k = 0 THEN 0
        ELSE IF ByteAt(s, k) = Code[c] /\ last[k - 1] = 0 THEN k ELSE last[k - 1]
  IN  last[Len(s) + 1]

\* what `last' points at after k turns, of which the terminator gets one too
strrchr(s, c) ==
  LET last[k \in 0 .. Len(s) + 1] ==
        IF k = 0 THEN 0 ELSE IF ByteAt(s, k) = Code[c] THEN k ELSE last[k - 1]
  IN  last[Len(s) + 1]

\* the difference of the bytes at which the loop stops
strcmp(s1, s2) ==
  LET stop[k \in 1 .. Len(s1) + 1] ==
        IF ByteAt(s1, k) # 0 /\ ByteAt(s1, k) = ByteAt(s2, k) THEN stop[k + 1] ELSE k
  IN  ByteAt(s1, stop[1]) - ByteAt(s2, stop[1])

-----------------------------------------------------------------------------
(* Copies, one unit of memory at a time                                    *)

CopyUnit(mem, dest, src, i) == [mem EXCEPT ![dest + i] = mem[src + i]]

\* the units whose offsets are in order, one after the other
CopyUnits(mem, dest, src, order) ==
  LET copied[k \in 0 .. Len(order)] ==
        IF k = 0 THEN mem ELSE CopyUnit(copied[k - 1], dest, src, order[k])
  IN  copied[Len(order)]

memcpy(mem, dest, src, n) == CopyUnits(mem, dest, src, [k \in 1 .. n |-> k - 1])

memmove_forward(mem, dest, src, n) == memcpy(mem, dest, src, n)

\* from the end when the destination is the later one
memmove(mem, dest, src, n) ==
  IF dest < src THEN memcpy(mem, dest, src, n)
  ELSE CopyUnits(mem, dest, src, [k \in 1 .. n |-> n - k])

-----------------------------------------------------------------------------
(* Formats                                                                 *)

\* the value of a row of digits, the first one first
ValueOf(digits, base) ==
  LET value[k \in 0 .. Len(digits)] ==
        IF k = 0 THEN 0 ELSE base * value[k - 1] + DigitValue[digits[k]]
  IN  value[Len(digits)]

\* The directive whose % stands at i: %[0width][ll]conv.  A format does not end
\* inside of a directive: the code would read past it.
Directive(fmt, i) ==
  LET at(k) == IF k \in DOMAIN fmt THEN fmt[k] ELSE ""
      pad == at(i + 1) = "0"
      start == IF pad THEN i + 2 ELSE i + 1
      stop == IF pad THEN DigitsEnd(fmt, start) ELSE start
      conv == IF at(stop) = "l" /\ at(stop + 1) = "l" THEN stop + 2 ELSE stop
  IN  [width |-> ValueOf(SubSeq(fmt, start, stop - 1), 10),
       is_ll |-> conv # stop, conv |-> at(conv), next |-> conv + 1]

\* What printf, serial_print and printp make of a directive
PrintDirective(d) ==
  CASE d.conv = "d" -> IF d.is_ll THEN i64_to_str(TextInt) ELSE int_to_str(TextInt)
    [] d.conv = "u" -> IF d.is_ll THEN u64_to_str(TextUnsigned)
                                  ELSE uint_to_str(TextUnsigned)
    [] d.conv = "x" -> IF d.is_ll THEN hex64_to_str(TextUnsigned, d.width)
                                  ELSE hex32_to_str(TextUnsigned, d.width)
    [] d.conv = "s" -> TextString
    [] d.conv = "c" -> <<TextChar>>
    [] d.conv = "%" -> <<"%">>
    [] OTHER -> <<"%", d.conv>>

write_int(v) == IF v < 0 THEN <<"-">> \o Digits(-v, 10) ELSE Digits(v, 10)

\* What strconcat makes of it: %u is not implemented.
ConcatDirective(d) ==
  CASE d.conv = "d" -> write_int(TextInt)
    [] d.conv = "u" -> <<>>
    [] d.conv = "x" -> write_hex(TextUnsigned, d.width)
    [] d.conv = "s" -> TextString
    [] d.conv = "c" -> <<TextChar>>
    [] d.conv = "%" -> <<"%">>
    [] OTHER -> <<"%", d.conv>>

Full_early(out) == Len(out) >= OUT_SIZE - 2

\* tested after each character or directive
Full(out) == Len(out) >= OUT_SIZE - 1

\* One turn of the loop of printf: a character or a directive at s.at
PrintStep(fmt, s) ==
  IF s.at > Len(fmt) \/ Full(s.out) THEN s
  ELSE IF fmt[s.at] # "%" THEN [at |-> s.at + 1, out |-> Append(s.out, fmt[s.at])]
  ELSE [at |-> Directive(fmt, s.at).next,
        out |-> s.out \o PrintDirective(Directive(fmt, s.at))]

printf(fmt) ==
  LET after[k \in 0 .. Len(fmt)] ==
        IF k = 0 THEN [at |-> 1, out |-> <<>>] ELSE PrintStep(fmt, after[k - 1])
  IN  after[Len(fmt)].out

ConcatStep(fmt, s) ==
  IF s.at > Len(fmt) THEN s
  ELSE IF fmt[s.at] # "%" THEN [at |-> s.at + 1, out |-> Append(s.out, fmt[s.at])]
  ELSE [at |-> Directive(fmt, s.at).next,
        out |-> s.out \o ConcatDirective(Directive(fmt, s.at))]

strconcat(fmt) ==
  LET after[k \in 0 .. Len(fmt)] ==
        IF k = 0 THEN [at |-> 1, out |-> <<>>] ELSE ConcatStep(fmt, after[k - 1])
  IN  after[Len(fmt)].out

\* serial.c 25-99 is stdio.c 21-95 line for line: one operator stands for both.
serial_print(fmt) == printf(fmt)

\* kerror.c 56-131 is those lines once more.  printp shows the text and hands
\* it to serial_print as a format.
printp(fmt) == LET out == printf(fmt) IN [screen |-> out, serial |-> serial_print(out)]

-----------------------------------------------------------------------------
(* Commands                                                                *)

\* the line up to its end
command_line(input) ==
  LET ends == {i \in DOMAIN input : input[i] \in {"\n", "\r"}}
  IN  IF ends = {} THEN input ELSE SubSeq(input, 1, Min(ends) - 1)

SpaceFrom_stops_short(p, i) == Min({k \in i .. Len(p) : p[k] = Space} \cup {Len(p)})

\* first place from i on that holds a space, or the terminator
SpaceFrom(p, i) == Min({k \in i .. Len(p) : p[k] = Space} \cup {Len(p) + 1})

\* One turn of the loop of console_task, or a space skipped: argv gets a word,
\* but the last one that fits runs to the end of the line.
ParseStep(p, s) ==
  IF s.at > Len(p) THEN s
  ELSE IF p[s.at] = Space THEN [at |-> s.at + 1, argv |-> s.argv]
  ELSE IF Len(s.argv) + 1 = ARGC_MAX
  THEN [at |-> Len(p) + 1, argv |-> Append(s.argv, SubSeq(p, s.at, Len(p)))]
  ELSE [at |-> SpaceFrom(p, s.at) + 1,
        argv |-> Append(s.argv, SubSeq(p, s.at, SpaceFrom(p, s.at) - 1))]

parse(input) ==
  LET p == command_line(input)
      after[k \in 0 .. Len(p)] ==
        IF k = 0 THEN [at |-> 1, argv |-> <<>>] ELSE ParseStep(p, after[k - 1])
  IN  after[Len(p)].argv

-----------------------------------------------------------------------------
(* Calls                                                                   *)

Idle == [op |-> "none"]

Call(op, in, out) == call' = [op |-> op, in |-> in, out |-> out]

CallNumber ==
  \/ \E v \in -INT_MAX .. INT_MAX : Call("int", v, [str |-> int_to_str(v), itoa |-> itoa(v, 10)])
  \/ \E v \in 0 .. INT_MAX, w \in TextWidths :
       Call("hex", [value |-> v, width |-> w],
            [hex32 |-> hex32_to_str(v, w), write |-> write_hex(v, w),
             serial |-> serial_print_hex(v, w), itoa |-> itoa(v, 16)])
  \/ \E str \in TextNumerals : Call("atoi", str, atoi(str))

CallSearch ==
  \E s \in TextWords, t \in TextWords :
    Call("search", <<s, t>>, [str |-> strstr(s, t), cmp |-> strcmp(s, t),
                              rchr |-> [c \in Range(t) |-> strrchr(s, c)]])

CallCopy ==
  \E d \in DOMAIN TextMemory, s \in DOMAIN TextMemory :
    \E n \in 0 .. Len(TextMemory) + 1 - Max({d, s}) :
      Call("move", <<d, s, n>>, memmove(TextMemory, d, s, n))

CallFormat ==
  \E fmt \in TextFormats :
    Call("format", fmt, [printp |-> printp(fmt), concat |-> strconcat(fmt)])

CallCommand == \E line \in TextLines : Call("command", line, parse(line))

Return == call # Idle /\ call' = Idle

TextInit == call = Idle
TextNext ==
  \/ call = Idle /\ (CallNumber \/ CallSearch \/ CallCopy \/ CallFormat \/ CallCommand)
  \/ Return

TextSpec == TextInit /\ [][TextNext]_call

-----------------------------------------------------------------------------
(* Properties                                                              *)

Signed10(str) ==
  IF str # <<>> /\ str[1] \in {"-", "+"}
  THEN (IF str[1] = "-" THEN -1 ELSE 1) * ValueOf(Tail(str), 10)
  ELSE ValueOf(str, 10)

\* int_to_str, itoa: the text denotes the number, has no zero in front, and
\* atoi gets the number back.
NumbersReadBack ==
  call.op = "int" =>
    LET str == call.out.str
    IN  /\ call.out.itoa = str
        /\ Signed10(str) = call.in /\ atoi(str) = call.in
        /\ Len(str) > 1 => str[1] # "0"

\* hex32_to_str, write_hex of strconcat, serial_print_hex and itoa: four ways
\* to write a number in base 16 agree where their widths do, and pad to the
\* width without losing a digit.
HexAgrees ==
  call.op = "hex" =>
    LET hex == call.out.hex32
        width == call.in.width
    IN  /\ ValueOf(hex, 16) = call.in.value
        /\ Len(hex) >= width /\ (Len(hex) > Max({width, 1}) => hex[1] # "0")
        /\ call.out.write = hex
        /\ width <= HEX_DIGITS => call.out.serial = hex
        /\ width <= 1 => call.out.itoa = hex

\* In str, spaces end at i, a sign at j and digits at k.
Numeral(str, i, j, k) ==
  /\ i <= j /\ j <= k
  /\ \A m \in 1 .. i : str[m] = Space
  /\ i < Len(str) => str[i + 1] # Space
  /\ j = IF i < Len(str) /\ str[i + 1] \in {"-", "+"} THEN i + 1 ELSE i
  /\ \A m \in j + 1 .. k : str[m] \in Decimals
  /\ k < Len(str) => str[k + 1] \notin Decimals

\* atoi: digits that denote more than an int can hold give the nearest int,
\* whatever is in front of them and after them.
AtoiSaturates ==
  call.op = "atoi" =>
    \A i, j, k \in 0 .. Len(call.in) : Numeral(call.in, i, j, k) =>
      call.out = Min({INT_MAX, Max({-INT_MAX - 1, Signed10(SubSeq(call.in, i + 1, k))})})

\* The conversions of numbers, in either direction and base.
NumbersCorrect == NumbersReadBack /\ HexAgrees /\ AtoiSaturates

\* s comes before t: at the first byte that differs it has the smaller one.
Before(s, t) ==
  \E k \in 1 .. Len(t) : /\ ByteAt(s, k) < ByteAt(t, k)
                         /\ \A j \in 1 .. k - 1 : ByteAt(s, j) = ByteAt(t, j)

\* The loops of strstr, strrchr and strcmp give what their names promise: the
\* first place at which a text stands in another, the last place of a
\* character, and the order of two texts, of which one may begin the other.
SearchesCorrect ==
  call.op = "search" =>
    LET s == call.in[1]
        t == call.in[2]
        places == {i \in 1 .. Len(s) + 1 : IsPrefix(t, SubSeq(s, i, Len(s)))}
    IN  /\ call.out.str = IF places = {} THEN 0 ELSE Min(places)
        /\ \A c \in Range(t) :
             call.out.rchr[c] = Max({0} \cup {i \in DOMAIN s : s[i] = c})
        /\ call.out.cmp = 0 <=> s = t
        /\ call.out.cmp < 0 <=> Before(s, t)
        /\ call.out.cmp > 0 <=> Before(t, s)

\* memmove: the destination holds what the source held before, however the two
\* overlap (compositor_scroll moves rows of one buffer), and the rest stays.
MoveKeepsSource ==
  call.op = "move" =>
    LET dest == call.in[1]
        src == call.in[2]
        n == call.in[3]
    IN  \A i \in DOMAIN TextMemory :
          call.out[i] = TextMemory[IF i \in dest .. dest + n - 1 THEN src + i - dest ELSE i]

\* printf and strconcat, written apart, give one text for the directives both
\* have, as long as the buffer of printf is not full.
DirectivesAgree ==
  call.op = "format" /\ "u" \notin Range(call.in) /\ ~Full(call.out.printp.screen) =>
    call.out.concat = call.out.printp.screen

\* printp: the serial line gets the text of the screen, unless there is a % in
\* it, which serial_print takes for a directive.
PanicLogged ==
  call.op = "format" =>
    LET out == call.out.printp
    IN  "%" \notin Range(out.screen) /\ Len(out.screen) < OUT_SIZE => out.serial = out.screen

\* Two loops over formats, that of printf and that of strconcat, and a panic
\* that goes through the first one twice: one text.
FormatsAgree == DirectivesAgree /\ PanicLogged

\* where the words of a line begin
WordStarts(line) == {i \in DOMAIN line : line[i] # Space /\ (i = 1 \/ line[i - 1] = Space)}

\* The parser of console_task: the arguments are the words of the line, none of
\* them empty, in order and with none left out; only where they are too many
\* does the last one run to the end of the line.
ArgumentsAreWords ==
  call.op = "command" =>
    LET argv == call.out
        line == command_line(call.in)
        n == Len(argv)
    IN  /\ n <= ARGC_MAX
        /\ \E at \in [1 .. n -> WordStarts(line)] :
             /\ \A i, j \in 1 .. n : i < j => at[i] < at[j]
             /\ \A w \in WordStarts(line) :
                  n < ARGC_MAX \/ (\E i \in 1 .. n : w <= at[i]) => \E i \in 1 .. n : w = at[i]
             /\ \A i \in 1 .. n :
                  LET end == at[i] + Len(argv[i])
                  IN  /\ argv[i] # <<>> /\ argv[i] = SubSeq(line, at[i], end - 1)
                      /\ i < ARGC_MAX => /\ Space \notin Range(argv[i])
                                         /\ end <= Len(line) => line[end] = Space
                      /\ i = ARGC_MAX => end = Len(line) + 1
=============================================================================
