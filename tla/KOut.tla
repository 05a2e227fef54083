--------------------------------- MODULE KOut ---------------------------------
(***************************************************************************)
(* KOut.c with TextWriter.c and the unlocked part of DisplayTextStream.c   *)
(* on top of the text of KernelDisplay_x86_Vga.c: formatted output, one    *)
(* character of the format a step, from the beginning of the call to what  *)
(* is on the screen.  The display is brought up first.  Who may interrupt  *)
(* this, and the lock, are the business of KShutdown.                      *)
(*                                                                         *)
(* The format is chosen character by character as the parser comes to it,  *)
(* and so are the arguments as they are taken from the list.               *)
(***************************************************************************)
EXTENDS TextWriter, KernelDisplay, KernelDisplayMode

CONSTANTS
  BufferSize,         \* BUFFER_SIZE of the stream
  FormatChars,        \* characters that formats are made of, besides '\0'
  Integers, Characters, Strings,    \* arguments
  Widths,             \* arguments, too, as the size_t that they are read as: a negative
                      \*   integer of the list is one of the highest of them
  Object,             \* what the writeTo() of an object hands to KOut_writeTo()
  LongTexts,          \* lengths of texts printed without the stream
  MaxFormat, MaxWork  \* bounds: characters of a format; calls, uses of the display, and
                      \*   characters of formats, together

ASSUME OutputAssumption ==
  /\ BufferSize \in Nat \ {0}
  /\ FormatChars \subseteq STRING \ {"NUL"} /\ Characters \subseteq STRING
  /\ Strings \cup {Object} \subseteq Seq(STRING)
  /\ Integers \cup Widths \subseteq 0 .. Wrap("intptr") - 1
  /\ LongTexts \subseteq Nat /\ MaxFormat \in Nat /\ MaxWork \in Nat

VARIABLES
  vga, saved, access,     \* the adapter, initFont()'s locals, accesses done
  display,                \* KernelDisplay, and the video memory
  buffer,                 \* of the stream
  paper,                  \* history: what was stored, as it would be on endless paper
  call,                   \* the call under way or the last one
  writer,                 \* the TextWriter of the call
  parserState, formatSpec,
  format, args,           \* history: read so far by the call
  output,                 \*   and written so far
  objectPadded,           \* history: an object of the call was given a width
  result,                 \* "running", "ok" or "malformed"
  work                    \* history: what MaxWork bounds

deviceVars == <<vga, saved, access>>
streamVars == <<display, buffer, paper>>
callVars   == <<call, writer, parserState, formatSpec, format, args, output, objectPadded, result,
                work>>
vars       == <<deviceVars, streamVars, callVars>>
-----------------------------------------------------------------------------
(* The format specifier parser                                             *)

Modifiers == {"b", "h", "l"}
TypeChars == {"c", "d", "i", "s", "u", "x", "p", "O"}

(* KOut_convertInputChar()                                                 *)
ConvertInputChar(c) ==
  CASE c \in {"%", "-", "*"} -> c
    [] c \in Modifiers       -> "mod"
    [] c \in TypeChars       -> "type"
    [] c = "NUL"             -> "null"
    [] OTHER                 -> "normal"

ConvertModifier(c) == CASE c = "b" -> "int8" [] c = "h" -> "int16" [] c = "l" -> "int32"

(* Bug: a width may follow a modifier as well.                             *)
TransitionLax(state, char) ==
  IF state = "nothing"
    THEN IF char = "%" THEN "percent" ELSE "nothing"
    ELSE CASE char = "type" -> "nothing"
           [] char = "mod"  -> "modifier"
           [] char = "*"    -> "width"
           [] char = "-"    -> "leftAlign"
           [] OTHER         -> IF state = "percent" /\ char = "%" THEN "nothing" ELSE "abort"

(* s_parserStates: the next state, where "abort" and "end" are FINAL_STATE *)
(* with ABORT_ACTION and with NO_ACTION.  The action is told by the states *)
(* on both sides of the transition.                                        *)
Transition(state, char) ==
  IF state = "nothing"
    THEN CASE char = "%"    -> "percent"
           [] char = "null" -> "end"
           [] OTHER         -> "nothing"
    ELSE CASE char = "type" -> "nothing"
           [] char = "mod"  -> IF state = "modifier" THEN "abort" ELSE "modifier"
           [] char = "*"    -> IF state \in {"percent", "leftAlign"} THEN "width" ELSE "abort"
           [] char = "-"    -> IF state = "percent" THEN "leftAlign" ELSE "abort"
           [] char = "%"    -> IF state = "percent" THEN "nothing" ELSE "abort"
           [] OTHER         -> "abort"

NewFormatSpec == [leftAlign |-> FALSE, modifier |-> "intptr", width |-> 0]
-----------------------------------------------------------------------------
(* The stream and the display below it, with the paper.                    *)

Stream == [buffer |-> buffer, display |-> display, paper |-> paper]

(* Text that is longer than the screen begins a page of its own.           *)
PageBreak(page, text) ==
  IF Len(text) <= MaxChars THEN page
                           ELSE SubSeq(page, Len(page) - MaxChars + 1, Len(page))

LineOnPaper(page) == page \o Spaces(Columns - (Len(page) % Columns))

TabOnPaper(page) ==
  (IF (Len(page) % Columns) + TabSize >= Columns THEN LineOnPaper(page) ELSE page)
    \o Spaces(TabSize)

(* DisplayTextStream_flush()                                               *)
Flush(s) ==
  [s EXCEPT !.display = PrintText(@, s.buffer), !.paper = PageBreak(@, s.buffer), !.buffer = << >>]

Store(s, c) == [s EXCEPT !.buffer = Append(@, c), !.paper = Append(@, c)]

(* DisplayTextStream_write()                                               *)
StreamWrite(s, c) ==
  CASE c = "TAB" -> LET f == Flush(s) IN
                    [f EXCEPT !.display = Tab(@), !.paper = TabOnPaper(@)]
    [] c = "LF"  -> LET f == Flush(s) IN
                    [f EXCEPT !.display = NewLine(@), !.paper = LineOnPaper(@)]
    [] c = "NUL" -> Flush(s)
    [] OTHER     -> Store(IF Len(s.buffer) = BufferSize THEN Flush(s) ELSE s, c)

(* What a TextWriter sends, one character after the other.                 *)
StreamWriteAll(s, chars) ==
  LET after[k \in 0 .. Len(chars)] ==
        IF k = 0 THEN s ELSE StreamWrite(after[k - 1], chars[k])
  IN  after[Len(chars)]

Send(chars) ==
  LET after == StreamWriteAll(Stream, chars) IN
  /\ buffer' = after.buffer /\ display' = after.display /\ paper' = after.paper
  /\ output' = output \o chars
-----------------------------------------------------------------------------
Init ==
  /\ vga \in LeftByBios
  /\ saved = [r \in {<<"seq", 2>>, <<"seq", 4>>, <<"gc", 4>>, <<"gc", 5>>, <<"gc", 6>>} |-> 0]
  /\ access = 0
  /\ display = [backgroundColor |-> "BLACK", foregroundColor |-> "BLACK", column |-> 0, row |-> 0,
                memory |-> [i \in VideoMemory |-> <<"?", << >> >>]]
  /\ buffer = << >> /\ paper = << >>
  /\ call = "none" /\ writer = NewWriter
  /\ parserState = "nothing" /\ formatSpec = NewFormatSpec
  /\ format = << >> /\ args = << >> /\ output = << >> /\ objectPadded = FALSE
  /\ result = "ok" /\ work = 0
-----------------------------------------------------------------------------
(* DisplayTextStream_init() and _reset(), access by access.                *)

DisplayIsUp == access = Len(Reset)

AccessAdapter ==
  LET after == Access([vga |-> vga, saved |-> saved], Reset[access + 1]) IN
  /\ ~ DisplayIsUp
  /\ vga' = after.vga /\ saved' = after.saved
  /\ access' = access + 1
  /\ IF Reset[access + 1] = Memory("cleared")[1]
       THEN /\ display' = Clear(SetColors(display, DefaultBackground, DefaultForeground))
            /\ paper' = buffer
       ELSE UNCHANGED <<display, paper>>
  /\ UNCHANGED <<buffer, callVars>>

Idle == DisplayIsUp /\ result # "running" /\ work < MaxWork

(* What a client may do to the display itself between two calls.           *)
UseDisplay ==
  /\ Idle
  /\ work' = work + 1
  /\ \/ display' = SetColors(display, "DARKRED", "YELLOW") /\ UNCHANGED paper
     \/ display' = Clear(display) /\ paper' = buffer
     \/ /\ buffer = << >>
        /\ \E length \in LongTexts :
             LET text == [k \in 1 .. length |-> Digits[(k % 16) + 1]] IN
             display' = PrintText(display, text) /\ paper' = PageBreak(paper \o text, text)
  /\ UNCHANGED <<deviceVars, buffer, call, writer, parserState, formatSpec, format, args, output,
                 objectPadded, result>>

(* KOut_vWrite() and KOut_vWriteLine(), up to the loop.                    *)
Call(which) ==
  /\ Idle
  /\ call' = which
  /\ writer' = NewWriter
  /\ parserState' = "nothing" /\ formatSpec' = NewFormatSpec
  /\ format' = << >> /\ args' = << >> /\ output' = << >> /\ objectPadded' = FALSE
  /\ result' = "running" /\ work' = work + 1
  /\ UNCHANGED <<deviceVars, streamVars>>
-----------------------------------------------------------------------------
(* An object writes itself by a call of KOut_writeTo() with the writer it  *)
(* is given.                                                               *)
WriteObject(w, text) ==
  FlattenSeq([k \in 1 .. Len(text) |-> WriteChar(w, text[k])]) \o WriteChar(w, "NUL")

Arguments(type) ==
  CASE type \in {"d", "i", "u", "x", "p"} -> Integers
    [] type = "c" -> Characters
    [] type = "s" -> Strings
    [] type = "O" -> {Object}

(* The switch of KOut_writeNextArg()                                       *)
Formatted(w, type, modifier, arg) ==
  CASE type = "c"         -> WriteChar(w, arg)
    [] type \in {"d", "i"} -> WriteInt(w, arg, modifier)
    [] type = "s"         -> WriteString(w, arg)
    [] type \in {"u", "x"} -> WriteUInt(w, arg, modifier)
    [] type = "p"         -> WritePointer(w, arg)
    [] type = "O"         -> WriteObject(w, arg)

(* KOut_writeNextArg() leaves the writer's settings as they were.          *)
WriteNextArg(type, arg) ==
  LET w == [hexMode |-> type = "x", leftAlign |-> formatSpec.leftAlign,
            width |-> formatSpec.width]
  IN  /\ Send(Formatted(w, type, formatSpec.modifier, arg))
      /\ args' = Append(args, arg)
      /\ formatSpec' = NewFormatSpec
      /\ objectPadded' = (objectPadded \/ (type = "O" /\ w.width # 0))

Return(how, rest) ==
  /\ result' = how
  /\ Send(rest \o (IF call = "writeLine" THEN WriteChar(writer, "LF") ELSE << >>))

Read(c) ==
  /\ result = "running"
  /\ format' = Append(format, c)
  /\ parserState' = Transition(parserState, ConvertInputChar(c))
  /\ work' = IF c = "NUL" THEN work ELSE work + 1
  /\ UNCHANGED <<deviceVars, call, writer>>

(* SET_LEFTALIGN_ACTION, SET_WIDTH_ACTION, SET_MODIFIER_ACTION, and the    *)
(* NO_ACTION of a percent sign.                                            *)
ReadSpecifier(c) ==
  /\ Read(c)
  /\ \/ parserState' = "percent" /\ UNCHANGED <<formatSpec, args>>
     \/ parserState' = "leftAlign" /\ UNCHANGED args
        /\ formatSpec' = [formatSpec EXCEPT !.leftAlign = TRUE]
     \/ parserState' = "width"
        /\ \E width \in Widths :
             args' = Append(args, width) /\ formatSpec' = [formatSpec EXCEPT !.width = width]
     \/ parserState' = "modifier" /\ UNCHANGED args
        /\ formatSpec' = [formatSpec EXCEPT !.modifier = ConvertModifier(c)]
  /\ UNCHANGED <<streamVars, output, objectPadded, result>>

(* WRITE_OUTPUT_ACTION                                                     *)
ReadType(c) ==
  /\ Read(c)
  /\ parserState # "nothing" /\ ConvertInputChar(c) = "type" /\ parserState' = "nothing"
  /\ \E arg \in Arguments(c) : WriteNextArg(c, arg)
  /\ UNCHANGED result

(* WRITE_FORMAT_CHAR_ACTION                                                *)
ReadText(c) ==
  /\ Read(c)
  /\ parserState = "nothing" \/ c = "%"
  /\ parserState' = "nothing"
  /\ Send(WriteChar(writer, c))
  /\ UNCHANGED <<formatSpec, args, objectPadded, result>>

(* The end of the format: flush.                                           *)
ReadEnd(c) ==
  /\ Read(c)
  /\ parserState' = "end"
  /\ Return("ok", WriteChar(writer, "NUL"))
  /\ UNCHANGED <<formatSpec, args, objectPadded>>

(* ABORT_ACTION                                                            *)
ReadMalformed(c) ==
  /\ Read(c)
  /\ parserState' = "abort"
  /\ Return("malformed", << >>)
  /\ UNCHANGED <<formatSpec, args, objectPadded>>

(* The characters of a format, whose end may come at any time.            *)
NextChars == IF Len(format) < MaxFormat /\ work < MaxWork THEN {"NUL"} \cup FormatChars ELSE {"NUL"}

Next ==
  \/ AccessAdapter
  \/ UseDisplay
  \/ \E which \in {"write", "writeLine"} : Call(which)
  \/ \E c \in NextChars :
       ReadSpecifier(c) \/ ReadType(c) \/ ReadText(c) \/ ReadEnd(c) \/ ReadMalformed(c)

Spec == Init /\ [][Next]_vars
-----------------------------------------------------------------------------
(* The printing of numbers that KOut.h promises, in its own words.         *)

DecimalDigits[n \in 0 .. Wrap("intptr")] ==
  IF n < 10 THEN <<Digits[n + 1]>> ELSE Append(DecimalDigits[n \div 10], Digits[(n % 10) + 1])

HexadecimalDigits[digits \in 0 .. 8] ==
  [n \in Nat |-> IF digits = 0 THEN << >>
                 ELSE Append(HexadecimalDigits[digits - 1][n \div 16], Digits[(n % 16) + 1])]

(* The argument is interpreted as a byte, a short, a long or a word.       *)
Interpreted(arg, type, modifier) ==
  CHOOSE v \in -Wrap("intptr") .. Wrap("intptr") :
    /\ (v - arg) % Wrap(modifier) = 0
    /\ IF type \in {"d", "i"} THEN -Wrap(modifier) <= 2 * v /\ 2 * v < Wrap(modifier)
                              ELSE 0 <= v /\ v < Wrap(modifier)

Plain(type, modifier, arg) ==
  CASE type = "c" -> <<arg>>
    [] type = "s" -> arg
    [] type = "O" -> arg
    [] type = "p" -> <<"0", "x">> \o HexadecimalDigits[HexDigits["intptr"]][arg]
    [] type = "x" -> <<"0", "x">> \o HexadecimalDigits[HexDigits[modifier]]
                                                         [Interpreted(arg, type, modifier)]
    [] OTHER      -> LET v == Interpreted(arg, type, modifier) IN
                     IF v < 0 THEN <<"-">> \o DecimalDigits[-v] ELSE DecimalDigits[v]

Padded(text, width, left) ==
  LET missing == Spaces(width - Len(text)) IN
  IF left THEN text \o missing ELSE missing \o text

(* Any argument is padded as a whole.  What an object writes is written by *)
(* a call of its own, which ends by flushing the stream.                   *)
Written(type, modifier, arg, width, left) ==
  LET text == Padded(Plain(type, modifier, arg), width, left) IN
  IF type = "O" THEN Append(text, "NUL") ELSE text

(* %[-][*][modifier]type                                                   *)
Specifiers ==
  { [text |-> <<"%">> \o left \o star \o modifier \o <<type>>,
     left |-> left # << >>, star |-> star # << >>, type |-> type,
     modifier |-> IF modifier = << >> THEN "intptr" ELSE ConvertModifier(modifier[1])]
    : left \in {<< >>, <<"-">>}, star \in {<< >>, <<"*">>},
      modifier \in {<< >>, <<"b">>, <<"h">>, <<"l">>}, type \in TypeChars }

BeginsAt(text, fmt, k) ==
  /\ k + Len(text) <= Len(fmt) + 1
  /\ \A j \in 1 .. Len(text) : fmt[k + j - 1] = text[j]

(* What begins at the k-th character, with the a-th argument as the next:  *)
(* the end of the format, something to be written, or something malformed. *)
Directive(fmt, arguments, k, a) ==
  CASE k > Len(fmt) \/ fmt[k] = "NUL" -> [kind |-> "end"]
    [] k <= Len(fmt) /\ fmt[k] \notin {"%", "NUL"} ->
         [kind |-> "writes", text |-> <<fmt[k]>>, next |-> k + 1, arg |-> a]
    [] BeginsAt(<<"%", "%">>, fmt, k) ->
         [kind |-> "writes", text |-> <<"%">>, next |-> k + 2, arg |-> a]
    [] \E spec \in Specifiers : BeginsAt(spec.text, fmt, k) ->
         LET spec  == CHOOSE s \in Specifiers : BeginsAt(s.text, fmt, k)
             first == IF spec.star THEN a + 1 ELSE a
         IN  [kind |-> "writes",
              text |-> Written(spec.type, spec.modifier, arguments[first],
                               IF spec.star THEN arguments[a] ELSE 0, spec.left),
              next |-> k + Len(spec.text), arg |-> first + 1]
    [] OTHER -> [kind |-> "malformed"]

(* What is written of a format, and whether it is well-formed.             *)
Documented(fmt, arguments) ==
  LET from[k \in 1 .. Len(fmt) + 1] ==
        [a \in Nat |->
           LET d == Directive(fmt, arguments, k, a) IN
           IF d.kind = "writes"
             THEN [text |-> d.text \o from[d.next][d.arg].text, ok |-> from[d.next][d.arg].ok]
             ELSE [text |-> << >>, ok |-> d.kind = "end"]]
  IN  from[1][1]

(* What KOut.h says of calls: what they write, that they stop at malformed *)
(* specifiers, append the new line in any case, and leave nothing in the   *)
(* buffer if they succeed, wherever the call before was stopped.  Not what *)
(* they write if an object was given a width: KOut.h:82-85 says it is to be*)
(* padded as a whole, but the code pads each of its characters.            *)
OutputAsDocumented ==
  LET documented == Documented(format, args) IN
  call # "none" /\ result # "running" =>
    /\ (result = "ok") = documented.ok
    /\ ~ objectPadded =>
         output = documented.text \o (IF documented.ok THEN <<"NUL">> ELSE << >>)
                                 \o (IF call = "writeLine" THEN <<"LF">> ELSE << >>)
    /\ result = "ok" => buffer = << >>

Shown == [k \in 1 .. Position(display) |-> display.memory[k - 1][1]]

(* The screen shows the end of the paper, every character in the column    *)
(* where it belongs, and nothing behind it; no more than one line of it is *)
(* given away.  What is not on the screen yet is in the buffer.            *)
ScreenShowsPaper ==
  DisplayIsUp =>
    /\ display.row \in 0 .. Rows - 1 /\ display.column \in 0 .. Columns - 1
    /\ IsSuffix(Shown \o buffer, paper)
    /\ LET gone == Len(paper) - Len(Shown) - Len(buffer) IN
       /\ gone % Columns = 0
       /\ gone > 0 => Position(display) >= MaxChars - Columns
    /\ \A i \in Cells : i >= Position(display) => display.memory[i][1] = "SP"

(* Only a text that fills the screen but for less than a line is ever      *)
(* written outside of it.  By KernelDisplay.h:99-103, none should be.      *)
OffScreenOnlyIfLong ==
  [][(\E i \in VideoMemory \ Cells : display.memory[i] # display'.memory[i]) =>
       \/ Len(buffer) + Len(output') - Len(output) > MaxChars - Columns
       \/ Len(paper') - Len(paper) > MaxChars - Columns]_vars

(* Whatever the BIOS left, the adapter ends up in the mode of the table,   *)
(* with the font in its plane and text in the others, and visible.         *)
ModeIsSet ==
  DisplayIsUp =>
    /\ vga.misc = Mode.misc
    /\ \A group \in Groups : \A r \in RegistersOf(group) :
         vga.registers[group][r] = Mode[group][r + 1]
    /\ vga.font = "8x8" /\ vga.text = "cleared" /\ vga.unblanked

(* The picture is off whenever a register changes, the screen not yet      *)
(* cleared, or the font not complete.                                      *)
BlankMeanwhile ==
  [][ /\ vga.registers # vga'.registers => ~ vga.unblanked
      /\ vga'.unblanked /\ access > 0 => vga.text = "cleared" /\ vga.font = "8x8" ]_vars
=============================================================================
