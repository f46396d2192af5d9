--------------------------- MODULE CodeConversion ---------------------------
(***************************************************************************)
(* Conversion between the text of a buffer and the bytes of a file         *)
(* (codeconv.c), a piece at a time: write-region gives the text to decode  *)
(* in pieces cut by the gap and by its own buffer, insert-file-contents    *)
(* and process output give what they read to encode.  What is known of a   *)
(* cut character, escape sequence or line end is kept between the pieces.  *)
(*                                                                         *)
(* A byte is a string.  "B" and "C" are graphic bytes, "B+" and "C+" the   *)
(* same with the high bit.  In a text a character is its charset's leading *)
(* byte and the positions; a composite character is LCCMP and characters   *)
(* with raised leading bytes, ASCII ones led by A0.                        *)
(*                                                                         *)
(* Left out: private charsets, charsets read in the other direction        *)
(* (rev_lc_table), Big5, CCL, selective display, and the detection of the  *)
(* coding system (that of line ends is here).                              *)
(***************************************************************************)
EXTENDS Naturals, Sequences, SequencesExt, FiniteSets

CONSTANTS Systems,    \* names of the coding systems used
          MaxChars,   \* characters in a text
          MaxPiece,   \* bytes in a piece
          CutLineEnd, \* a piece may end within the first line end, not yet known
          LastCR      \* a text may end in \r where lines end in \r\n

VARIABLES code, eol,       \* the coding system and the line ends of the file
          text, written,   \* the text, and how many bytes of it were written
          w,               \* coding_type of the writer
          file, readFrom, read,  \* the file, the start of reading, and how far
          r,               \* coding_type of the reader
          back,            \* the text read
          phase            \* "write", "read" or "end"

vars == <<code, eol, text, written, w, file, readFrom, read, r, back, phase>>

Inv == "invalid"

(* Charsets: bytes for each character, and on what graphic set they go.    *)
Charset(type, final, bytes, graphic, rtl, raised) ==
  [type |-> type, final |-> final, bytes |-> bytes, graphic |-> graphic, rtl |-> rtl,
   raised |-> raised]
Set == [ascii  |-> Charset("94",  "B", 1, 0, FALSE, "A0"),
        latin  |-> Charset("96",  "A", 1, 1, FALSE, "latin+"),
        hebrew |-> Charset("96",  "H", 1, 1, TRUE,  "hebrew+"),
        kana   |-> Charset("94",  "I", 1, 1, FALSE, "kana+"),
        jp     |-> Charset("94N", "B", 2, 0, FALSE, "jp+"),
        jp2    |-> Charset("94N", "D", 2, 0, FALSE, "jp2+"),
        kr     |-> Charset("94N", "C", 2, 0, FALSE, "kr+")]
Lead == DOMAIN Set \ {"ascii"}
RaisedLead == {Set[lc].raised : lc \in Lead}
Lowered(c) == CHOOSE lc \in Lead : Set[lc].raised = c

Low(c) == IF c = "B+" THEN "B" ELSE IF c = "C+" THEN "C" ELSE c
High(c) == IF c = "B" THEN "B+" ELSE IF c = "C" THEN "C+" ELSE c
Cntl == {"LF", "CR"}
Ascii == Cntl \union {"SP", "B", "C"}

(* Coding systems of mule.el: initial charsets, which of them is           *)
(* designated on output, flags, and the line ends there are.  ss3_7 is not *)
(* predefined, but make-coding-system accepts it.                          *)
Iso(g1, g2, g3, announced, flags, ends) ==
  [type |-> "iso", g |-> [i \in 0 .. 3 |-> <<"ascii", g1, g2, g3>>[i + 1]],
   announced |-> announced, flags |-> flags, ends |-> ends]
AnyEnd == {"LF", "CRLF", "CR"}
System ==
  [iso_2022_jp |-> Iso(Inv, Inv, Inv, {}, {"short", "ascii-eol", "ascii-cntl", "seven"}, AnyEnd),
   oldjis      |-> Iso(Inv, Inv, Inv, {},
                       {"short", "ascii-eol", "ascii-cntl", "seven", "use-roman", "use-oldjis"},
                       AnyEnd),
   ctext       |-> Iso("latin", Inv, Inv, {}, {"ascii-eol"}, {"LF"}),
   euc_japan   |-> Iso("jp", "kana", "jp2", {}, {"short", "ascii-eol", "ascii-cntl"}, AnyEnd),
   iso_2022_kr |-> Iso("kr", Inv, Inv, {1}, {"ascii-eol", "ascii-cntl", "seven", "lock-shift"},
                       {"LF"}),
   ss2_8       |-> Iso(Inv, "ascii", Inv, {}, {"ascii-eol", "ascii-cntl"}, AnyEnd),
   ss2_7       |-> Iso(Inv, "ascii", Inv, {}, {"short", "ascii-eol", "ascii-cntl", "seven"}, AnyEnd),
   lock        |-> Iso("ascii", Inv, Inv, {}, {"ascii-eol", "ascii-cntl", "seven", "lock-shift"},
                       AnyEnd),
   ss3_7       |-> Iso(Inv, Inv, "ascii", {}, {"ascii-eol", "ascii-cntl", "seven"}, AnyEnd),
   sjis        |-> [Iso(Inv, Inv, Inv, {}, {}, AnyEnd) EXCEPT !.type = "sjis"],
   autoconv    |-> [Iso(Inv, Inv, Inv, {}, {}, AnyEnd) EXCEPT !.type = "autoconv"]]
ASSUME SystemsAssumption == Systems \subseteq DOMAIN System
ASSUME BoundsAssumption == MaxChars \in Nat /\ MaxPiece \in Nat
ASSUME ChoicesAssumption == CutLineEnd \in BOOLEAN /\ LastCR \in BOOLEAN

Flag(s, f) == f \in System[s.code].flags

Plain == {<<"B">>, <<"SP">>, <<"LF">>, <<"CR">>}
Letter == [latin |-> <<"latin", "B+">>, hebrew |-> <<"hebrew", "B+">>, kana |-> <<"kana", "B+">>,
           jp |-> <<"jp", "B+", "C+">>, jp2 |-> <<"jp2", "B+", "C+">>, kr |-> <<"kr", "B+", "C+">>]
Composite == {<<"CMP", "latin+", "B+", "A0", "C+">>, <<"CMP", "A0", "B+", "jp+", "B+", "C+">>}
Characters(c) ==
  Plain \union CASE System[c].type = "iso" -> {Letter[lc] : lc \in Lead} \union Composite
                 [] System[c].type = "sjis" -> {Letter["kana"], Letter["jp"]}
                 [] OTHER -> {}

(* coding_type as encode_code sets it up, and what decode and encode keep  *)
(* of it from piece to piece.                                              *)
NewWriter(c, end) ==
  [code |-> c, eol |-> end, g |-> System[c].g, announce |-> System[c].announced, in |-> 0,
   shifted |-> FALSE, rtl |-> FALSE, cmp |-> "no", ch |-> <<>>, out |-> <<>>]
NewReader(c, end) ==
  [code |-> c, eol |-> end, g |-> System[c].g, esc |-> <<>>, single |-> 0, shifted |-> FALSE,
   rtl |-> FALSE, cmp |-> FALSE, cr |-> FALSE, ch |-> <<>>, out |-> <<>>]
(* Mutant of Kept: the first byte of a cut character is dropped. *)
KeptNoChar(s) == [s EXCEPT !.out = <<>>, !.ch = <<>>]

Kept(s) == [s EXCEPT !.out = <<>>]
Emit(s, bytes) == [s EXCEPT !.out = @ \o bytes]
When(cond, bytes) == IF cond THEN bytes ELSE <<>>
-----------------------------------------------------------------------------
(* Writing (g2i).  designate sends a charset to one of G0 to G3.           *)
Inter94 == <<"(", ")", "*", "+">>
Inter96 == <<",", "-", ".", "/">>
Designation(s, lc, g) ==
  <<"ESC">>
  \o (CASE Set[lc].type = "94" -> <<Inter94[g + 1]>>
        [] Set[lc].type = "96" -> <<Inter96[g + 1]>>
        [] OTHER -> IF g = 0 /\ Flag(s, "short") /\ lc = "jp" THEN <<"$">>
                    ELSE <<"$", Inter94[g + 1]>>)
  \o <<IF lc = "ascii" /\ Flag(s, "use-roman") THEN "J"
                  ELSE IF lc = "jp" /\ Flag(s, "use-oldjis") THEN "@" ELSE Set[lc].final>>

Designate(s, lc, g) == [Emit(s, When(s.g[g] # lc, Designation(s, lc, g))) EXCEPT !.g[g] = lc]
ShiftIn(s) == [Emit(s, When(s.shifted, <<"SI">>)) EXCEPT !.shifted = FALSE]
In(s, g) == [s EXCEPT !.in = g]

ToG0(s, lc) == In(Designate(ShiftIn(s), lc, 0), 0)
ToG1(s, lc) == In(Designate(ShiftIn(s), lc, 1), 1)
LockingShift(s, lc) ==
  [Emit(In(Designate(s, lc, 1), 1), When(~s.shifted, <<"SO">>)) EXCEPT !.shifted = TRUE]
SingleShift2(s, lc) ==
  In(Emit(Designate(s, lc, 2), IF Flag(s, "seven") THEN <<"ESC", "N">> ELSE <<"SS2">>), 2)
SingleShift3(s, lc) ==
  In(Emit(Designate(s, lc, 3), IF Flag(s, "seven") THEN <<"ESC", "N">> ELSE <<"SS3">>), 3)

Csi(s) == IF Flag(s, "seven") THEN <<"ESC", "[">> ELSE <<"CSI">>
LeftToRight(s) ==
  [Emit(s, When(s.rtl, Csi(s) \o (IF Flag(s, "seven") THEN <<"0", "]">> ELSE <<"]">>))) EXCEPT !.rtl = FALSE]
RightToLeft(s) == [Emit(s, When(~s.rtl, Csi(s) \o <<"2", "]">>)) EXCEPT !.rtl = TRUE]

(* A charset that is designated to, or initially was, goes there; others   *)
(* where there is room for them.  A charset with a minus sign in the       *)
(* definition of the coding system is designated before its first use.     *)
Announced(s, g) ==
  [s EXCEPT !.g[g] = IF g \in s.announce THEN Inv ELSE @, !.announce = @ \ {g}]
Home(s, lc, g) == lc \in {s.g[g], System[s.code].g[g]}
Graphic(s, lc) ==
  CASE Home(s, lc, 0) -> ToG0(Announced(s, 0), lc)
    [] ~Home(s, lc, 0) /\ Home(s, lc, 1) ->
         IF Flag(s, "seven") THEN LockingShift(Announced(s, 1), lc) ELSE ToG1(Announced(s, 1), lc)
    [] ~(\E g \in 0 .. 1 : Home(s, lc, g)) /\ Home(s, lc, 2) -> SingleShift2(Announced(s, 2), lc)
    [] ~(\E g \in 0 .. 2 : Home(s, lc, g)) /\ Home(s, lc, 3) -> SingleShift3(Announced(s, 3), lc)
    [] OTHER ->
         IF Set[lc].graphic = 0 THEN ToG0(s, lc)
         ELSE IF s.g[1] # Inv /\ ~Flag(s, "seven") THEN ToG1(s, lc)
         ELSE IF s.g[1] # Inv /\ Flag(s, "lock-shift") THEN LockingShift(s, lc)
         ELSE IF s.g[2] # Inv THEN SingleShift2(s, lc)
         ELSE IF s.g[3] # Inv THEN SingleShift3(s, lc)
         ELSE ToG0(s, lc)

EndComposite(s) == [Emit(s, When(s.cmp # "no", <<"ESC", "1">>)) EXCEPT !.cmp = "no"]

(* Mutant of Restored: only G0 is designated again. *)
RestoredG0(s, g) == IF g # 0 \/ System[s.code].g[g] = Inv THEN s ELSE Designate(s, System[s.code].g[g], g)

(* All as at the beginning: before a line end with ascii-eol, and at last. *)
Restored(s, g) ==
  IF System[s.code].g[g] = Inv THEN s ELSE Designate(s, System[s.code].g[g], g)
Reset(s) ==
  In(Restored(Restored(Restored(Restored(ShiftIn(EndComposite(LeftToRight(s))), 0), 1), 2), 3), 0)

LineEnd(end) == CASE end = "LF" -> <<"LF">> [] end = "CRLF" -> <<"CR", "LF">> [] end = "CR" -> <<"CR">>

PutAscii(s, c) ==
  LET ltr == LeftToRight([s EXCEPT !.ch = <<>>])
      in0 == IF c \in {"B", "C"} \/ Flag(s, "ascii-cntl") THEN Designate(ShiftIn(ltr), "ascii", 0) ELSE ltr
      set == IF c = "LF" /\ Flag(s, "ascii-eol") THEN Reset(in0) ELSE in0
      put == In(Emit(set, IF c = "LF" THEN LineEnd(s.eol) ELSE <<c>>), 0)
  IN  IF put.cmp = "ascii" THEN [put EXCEPT !.cmp = "lead"] ELSE put

PutLead(s, lc) ==
  LET directed == IF Set[lc].rtl THEN RightToLeft(s) ELSE LeftToRight(s)
      put == Graphic([directed EXCEPT !.ch = <<>>], lc)
  IN  IF put.cmp = "lead" THEN [put EXCEPT !.cmp = "nonascii"] ELSE put

PutPosition(s, c) ==
  LET Masked(b) == IF s.in = 0 \/ Flag(s, "seven") THEN Low(b) ELSE b
      whole == Set[s.g[s.in]].bytes = 1 \/ s.ch # <<>>
      put == Emit([s EXCEPT !.ch = <<>>], [i \in 1 .. Len(s.ch) |-> Masked(s.ch[i])] \o <<Masked(c)>>)
  IN  IF ~whole THEN [s EXCEPT !.ch = <<c>>]
      ELSE IF s.cmp = "nonascii" THEN [put EXCEPT !.cmp = "lead"] ELSE put

PutByte(s, c) ==
  IF c \in Ascii THEN PutAscii(s, c)
  ELSE IF c = "CMP" THEN [Emit(s, <<"ESC", "0">>) EXCEPT !.ch = <<>>, !.cmp = "lead"]
  ELSE IF c \in Lead THEN PutLead(s, c) ELSE PutPosition(s, c)

(* Within a composite character leading bytes are raised, ASCII follows A0. *)
Bare(s, c) == CASE s.cmp = "lead" /\ c \in RaisedLead -> Lowered(c)
                [] s.cmp = "ascii" -> Low(c)
                [] OTHER -> c
PutIso(s, c) ==
  IF s.cmp = "lead" /\ c = "A0" THEN [s EXCEPT !.cmp = "ascii"]
  ELSE PutByte(IF s.cmp = "lead" /\ c \notin RaisedLead THEN EndComposite(s) ELSE s, Bare(s, c))

(* Shift-JIS (g2s): a character of two bytes, the second one often ASCII.  *)
PutSjis(s, c) ==
  CASE c \in Ascii -> Emit([s EXCEPT !.ch = <<>>], IF c = "LF" THEN LineEnd(s.eol) ELSE <<c>>)
    [] c \in Lead -> [s EXCEPT !.ch = IF c \in {"kana", "jp"} THEN <<c>> ELSE <<>>]
    [] OTHER -> CASE s.ch = <<>> -> s
                  [] s.ch = <<"kana">> -> Emit([s EXCEPT !.ch = <<>>], <<c>>)
                  [] s.ch = <<"jp">> -> [s EXCEPT !.ch = <<c>>]
                  [] OTHER -> Emit([s EXCEPT !.ch = <<>>], <<"S", Low(c)>>)

(* After the last byte decode is called with CC_END: "END" stands for that. *)
PutEnd(s) == IF System[s.code].type = "iso" /\ s.ch = <<>> THEN Reset(s) ELSE s

Put(s, c) ==
  CASE c = "END" -> PutEnd(s)
    [] c # "END" /\ System[s.code].type = "iso" -> PutIso(s, c)
    [] c # "END" /\ System[s.code].type = "sjis" -> PutSjis(s, c)
    [] OTHER -> Emit(s, IF c = "LF" THEN LineEnd(s.eol) ELSE <<c>>)

PutAll(s, bytes) ==
  LET put[i \in 0 .. Len(bytes)] == IF i = 0 THEN s ELSE Put(put[i - 1], bytes[i])
  IN  put[Len(bytes)]

-----------------------------------------------------------------------------
(* Reading (i2g).  lookup knows the escape sequences.                      *)
Inter == {Inter94[i] : i \in 1 .. 4} \union {Inter96[i] : i \in 1 .. 4}
Unfinished == {<<"$">>, <<"[">>, <<"[", "0">>, <<"[", "1">>, <<"[", "2">>}
              \union {<<i>> : i \in Inter} \union {<<"$", i>> : i \in Inter}
InterType(e) ==
  IF Last(e) \in {Inter94[i] : i \in 1 .. 4} THEN IF Len(e) = 2 THEN "94N" ELSE "94"
  ELSE IF Len(e) = 2 THEN "96N" ELSE "96"
InterGraphic(e) ==
  IF e = <<"$">> THEN 0 ELSE CHOOSE g \in 0 .. 3 : Last(e) \in {Inter94[g + 1], Inter96[g + 1]}

(* The charset of a final byte: lc_table, with the old sets as the new.    *)
Final(type, c) ==
  IF type = "94" /\ c = "J" THEN "ascii"
  ELSE IF type = "94N" /\ c = "@" THEN "jp"
  ELSE IF \E lc \in DOMAIN Set : Set[lc].type = type /\ Set[lc].final = c
  THEN CHOOSE lc \in DOMAIN Set : Set[lc].type = type /\ Set[lc].final = c
  ELSE Inv
Named(e, c) ==
  IF e = <<"$">> THEN IF c \in {"@", "A", "B"} THEN Final("94N", c) ELSE Inv
  ELSE IF e # <<>> /\ Last(e) \in Inter THEN Final(InterType(e), c) ELSE Inv

Flush(s) == Emit([s EXCEPT !.ch = <<>>], [i \in 1 .. Len(s.ch) |-> Low(s.ch[i])])

GetControl(s, c) ==
  LET cut  == CASE s.single = 2 -> <<"SO">> [] s.single = 3 -> <<"SI">>
                [] s.single = 0 /\ s.cr /\ c # "LF" -> <<"CR">> [] OTHER -> <<>>
      rest == [Emit(Flush(s), cut) EXCEPT !.single = 0, !.cr = FALSE]
  IN  CASE c = "ESC" -> [rest EXCEPT !.esc = <<"ESC">>]
        [] c = "CSI" -> [rest EXCEPT !.esc = <<"ESC", "[">>]
        [] c \in {"SO", "SI"} /\ s.g[1] # Inv -> [rest EXCEPT !.shifted = (c = "SO")]
        [] c = "SS2" /\ s.g[2] # Inv -> [rest EXCEPT !.single = 2]
        [] c = "SS3" /\ s.g[3] # Inv -> [rest EXCEPT !.single = 3]
        [] c = "CR" /\ s.eol = "CR" -> Emit(rest, <<"LF">>)
        [] c = "CR" /\ s.eol = "CRLF" -> [rest EXCEPT !.cr = TRUE]
        [] OTHER -> Emit(rest, <<c>>)

GetGraphic(s, c) ==
  LET set  == s.g[IF s.single # 0 THEN s.single ELSE IF s.shifted \/ c \notin Ascii THEN 1 ELSE 0]
      lc   == IF set = Inv \/ (c = "SP" /\ Set[set].type \in {"94", "94N"}) THEN "ascii" ELSE set
      lead == <<IF s.cmp THEN Set[lc].raised ELSE lc>>
      rest == [IF s.cr THEN Emit(s, <<"CR">>) ELSE s EXCEPT !.cr = FALSE]
      done == [rest EXCEPT !.ch = <<>>, !.single = 0]
  IN  CASE lc = "ascii" -> Emit([Flush(rest) EXCEPT !.single = 0],
                                IF s.cmp THEN <<"A0", High(c)>> ELSE <<Low(c)>>)
        [] lc # "ascii" /\ Set[lc].bytes = 1 ->
             Emit([Flush(rest) EXCEPT !.single = 0], lead \o <<High(c)>>)
        [] lc # "ascii" /\ Set[lc].bytes = 2 /\ s.ch = <<>> -> [rest EXCEPT !.ch = <<c>>]
        [] OTHER -> Emit(done, lead \o <<High(s.ch[1]), High(c)>>)

Controls == Cntl \union {"ESC", "SO", "SI", "SS2", "SS3", "CSI"}
GetByte(s, c) == IF c \in Controls THEN GetControl(s, c) ELSE GetGraphic(s, c)

(* Within an escape sequence; what begins an invalid one is kept as text.  *)
GetEscape(s, c) ==
  LET e     == Tail(s.esc)
      ended == [s EXCEPT !.esc = <<>>]
  IN  CASE Append(e, c) \in Unfinished -> [s EXCEPT !.esc = Append(@, c)]
        [] Named(e, c) # Inv -> [ended EXCEPT !.g[InterGraphic(e)] = Named(e, c)]
        [] e = <<>> /\ c = "N" /\ s.g[2] # Inv -> [ended EXCEPT !.single = 2]
        [] e = <<>> /\ c = "O" /\ s.g[3] # Inv -> [ended EXCEPT !.single = 3]
        [] e = <<>> /\ c = "0" -> [Emit(ended, <<"CMP">>) EXCEPT !.cmp = TRUE]
        [] e = <<>> /\ c = "1" -> [ended EXCEPT !.cmp = FALSE]
        [] e # <<>> /\ e[1] = "[" /\ c = "]" -> [ended EXCEPT !.rtl = (e = <<"[", "2">>)]
        [] OTHER -> GetByte(Emit(ended, s.esc), c)

GetIso(s, c) == IF s.esc # <<>> THEN GetEscape(s, c) ELSE GetByte(s, c)

(* Line ends where the bytes are ASCII or Shift-JIS (a2g, s2g).            *)
GetLineEnd(s, c) ==
  LET rest == [IF s.cr /\ c # "LF" THEN Emit(s, <<"CR">>) ELSE s EXCEPT !.cr = FALSE]
  IN  CASE c = "CR" /\ s.eol = "CR" -> Emit(s, <<"LF">>)
        [] c = "CR" /\ s.eol = "CRLF" /\ s.cr -> Emit(s, <<c>>)
        [] c = "CR" /\ s.eol = "CRLF" /\ ~s.cr -> [s EXCEPT !.cr = TRUE]
        [] c = "CR" /\ s.eol \notin {"CR", "CRLF"} -> Emit(s, <<c>>)
        [] OTHER -> rest

GetPlain(s, c) == IF c = "CR" THEN GetLineEnd(s, c) ELSE Emit(GetLineEnd(s, c), <<c>>)
GetSjis(s, c) ==
  CASE s.ch # <<>> -> Emit([s EXCEPT !.ch = <<>>], <<"jp", "B+", High(c)>>)
    [] s.ch = <<>> /\ c = "CR" -> GetLineEnd(s, c)
    [] s.ch = <<>> /\ c = "S" -> [GetLineEnd(s, c) EXCEPT !.ch = <<c>>]
    [] OTHER -> Emit(GetLineEnd(s, c), IF c \in Ascii THEN <<c>> ELSE <<"kana", c>>)

Get(s, c) ==
  CASE System[s.code].type = "iso" -> GetIso(s, c)
    [] System[s.code].type = "sjis" -> GetSjis(s, c)
    [] OTHER -> GetPlain(s, c)

GetAll(s, bytes) ==
  LET got[i \in 0 .. Len(bytes)] == IF i = 0 THEN s ELSE Get(got[i - 1], bytes[i])
  IN  got[Len(bytes)]

(* eol_detect looks at each piece until it finds a line end.               *)
FirstEnd(piece) ==
  LET ends == {i \in 1 .. Len(piece) : piece[i] \in Cntl}
      i == CHOOSE j \in ends : \A k \in ends : j <= k
  IN  IF ends = {} THEN "auto"
      ELSE IF piece[i] = "LF" THEN "LF"
      ELSE IF i < Len(piece) /\ piece[i + 1] = "LF" THEN "CRLF" ELSE "CR"
Detected(s, piece) == IF s.eol = "auto" THEN [s EXCEPT !.eol = FirstEnd(piece)] ELSE s
-----------------------------------------------------------------------------
HasCR == \E i \in 1 .. Len(text) : text[i] = "CR"

(* A text that the line ends of the file can tell apart.                   *)
Init ==
  /\ code \in Systems /\ eol \in System[code].ends
  /\ \E n \in 0 .. MaxChars : \E s \in [1 .. n -> Characters(code)] : text = FlattenSeq(s)
  /\ eol = "CR" => ~HasCR
  /\ eol = "CRLF" /\ text # <<>> /\ ~LastCR => Last(text) # "CR"
  /\ written = 0 /\ w = NewWriter(code, eol) /\ file = <<>>
  /\ readFrom = 0 /\ read = 0 /\ r = NewReader(code, eol) /\ back = <<>>
  /\ phase = "write"

(* e_write decodes a piece; the last one with CC_END.                      *)
WritePiece(n) ==
  /\ phase = "write" /\ written + n <= Len(text)
  /\ LET end == When(written + n = Len(text), <<"END">>)
     IN  \E put \in {PutAll(w, SubSeq(text, written + 1, written + n) \o end)} :
           w' = Kept(put) /\ file' = file \o put.out
  /\ written' = written + n
  /\ UNCHANGED <<code, eol, text, readFrom, read, r, back, phase>>

(* The file is read as a whole, or by somebody who takes it from the       *)
(* beginning of a line.                                                    *)
LineStarts == {0} \union {i \in 1 .. Len(file) : file[i] = Last(LineEnd(eol))}
OpenFile(start, end) ==
  /\ phase # "read" /\ written = Len(text) /\ start \in LineStarts
  /\ end = "auto" => Cardinality(System[code].ends) > 1 /\ ~HasCR
  /\ readFrom' = start /\ read' = start /\ back' = <<>>
  /\ r' = NewReader(code, end) /\ phase' = "read"
  /\ UNCHANGED <<code, eol, text, written, w, file>>

CutsLineEnd(n) ==
  /\ r.eol = "auto" /\ file[read + n] = "CR" /\ read + n < Len(file) /\ file[read + n + 1] = "LF"
  /\ FirstEnd(SubSeq(file, read + 1, read + n)) = "CR"
ReadPiece(n) ==
  /\ phase = "read" /\ read + n <= Len(file) /\ (CutsLineEnd(n) => CutLineEnd)
  /\ LET piece == SubSeq(file, read + 1, read + n)
     IN  \E got \in {GetAll(Detected(r, piece), piece)} :
           r' = Kept(got) /\ back' = back \o got.out
  /\ read' = read + n
  /\ UNCHANGED <<code, eol, text, written, w, file, readFrom, phase>>

(* At the end of the file what is still kept is converted, but the loop of *)
(* insert-file-contents ends before it counts it.                          *)
ReadNothing ==
  /\ phase = "read" /\ read = Len(file) /\ phase' = "end"
  /\ UNCHANGED <<code, eol, text, written, w, file, readFrom, read, r, back>>

Next ==
  \/ \E n \in 1 .. MaxPiece : WritePiece(n)
  \/ \E start \in LineStarts, end \in {eol, "auto"} : OpenFile(start, end)
  \/ \E n \in 1 .. MaxPiece : ReadPiece(n)
  \/ ReadNothing

Spec == Init /\ [][Next]_vars
-----------------------------------------------------------------------------
(* The lines of the text from the one reading began at.                    *)
Count(s, c) == Cardinality({i \in 1 .. Len(s) : s[i] = c})
Asked ==
  LET before == Cardinality({i \in LineStarts : i # 0 /\ i <= readFrom})
  IN  IF before = 0 THEN text
      ELSE LET i == CHOOSE j \in 1 .. Len(text) :
                      text[j] = "LF" /\ Count(SubSeq(text, 1, j), "LF") = before
           IN  SubSeq(text, i + 1, Len(text))

(* What was read so far is the beginning of the text that was written, all *)
(* of it at the end of the file, however writing and reading were cut.     *)
Agrees == IF phase = "end" THEN back = Asked ELSE IsPrefix(back, Asked)
ReadsBack == readFrom = 0 /\ phase # "write" => Agrees

(* Each line can be read by itself: ascii-eol leaves no designation, shift *)
(* or direction from the lines before (documentation of                    *)
(* make-coding-system, mule.el 509).                                       *)
LinesStandAlone == readFrom # 0 => Agrees
=============================================================================
