-------------------------- MODULE TerminalTranslate --------------------------
(***************************************************************************)
(* The two translators between a Linux program on a PTY, which speaks      *)
(* xterm, and the ACE console, which speaks console.device (src/           *)
(* terminal_translate.c).  A program writes items: text, control           *)
(* sequences, titles.  Each is spelled in bytes, and the screen direction  *)
(* is fed one byte at a time, as long as its sink has room for whatever a  *)
(* byte may expand to.  Keys come the other way, spelled by the console.   *)
(* xterm's own reading of the same items is kept beside the translator's,  *)
(* as the reference for what the console should show.                      *)
(*                                                                         *)
(* Bytes are their numbers.  What is sent to the console is a sequence of  *)
(* commands [c, p, n]: its final byte, or "text", its numbers and its      *)
(* length in bytes.  What is sent to the program is a sequence of units:   *)
(* <<b>> is a byte as it came, <<0>> \o k is the xterm spelling of the     *)
(* console key k, and <<1>> \o k is its application spelling.              *)
(***************************************************************************)
EXTENDS Integers, Sequences, FiniteSets, SequencesExt

CONSTANTS
    Items,      \* what the program may write: [k, p, f]
    Typed,      \* what may be typed: the bytes of one key
    Room,       \* the size of the sink
    MaxSteps    \* how many items and keys there may be

VARIABLES
    todo,       \* the bytes of the item that have not been fed
    item,       \* the item they belong to
    st,         \* struct ace_xterm_to_amiga
    queued,     \* how many bytes the sink holds
    screen,     \* what the console shows
    xterm,      \* what an xterm would show
    typing,     \* the bytes of the key that have not been fed
    key,        \* the key they belong to
    ks,         \* struct ace_amiga_to_xterm
    read,       \* what the program has been sent
    meant,      \* what the typed keys mean to an xterm program
    written, keys,  \* how many items and keys there have been
    ended           \* the program has ended

display == <<todo, item, st, queued, screen, xterm, written, ended>>
keyboard == <<typing, key, ks, read, meant, keys>>
vars == <<display, keyboard>>

ESC == 27
CSI == 155
SequenceMax == 64       \* ACE_TERMINAL_SEQUENCE_MAX
RepeatMax == 255        \* ACE_TERMINAL_REPEAT_MAX
EmitMax == 1024         \* ACE_TERMINAL_EMIT_MAX
ParamMax == 24          \* ACE_TERMINAL_PARAM_MAX
SgrMax == 16            \* AMIGA_SGR_PARAM_MAX
ByteMax == 255          \* AMIGA_PARAM_MAX

-----------------------------------------------------------------------------
(* How items are spelled. *)

RECURSIVE Digits(_)
Digits(n) == IF n < 10 THEN <<48 + n>> ELSE Append(Digits(n \div 10), 48 + (n % 10))

Spelled(n) == IF n < 0 THEN <<>> ELSE Digits(n)

Joined(p) ==
    IF p = <<>> THEN <<>>
    ELSE Spelled(p[1]) \o FlattenSeq([i \in 1..Len(p) - 1 |-> <<59>> \o Spelled(p[i + 1])])

Utf8(c) ==
    CASE c < 128 -> <<c>>
      [] c >= 128 /\ c < 2048 -> <<192 + c \div 64, 128 + (c % 64)>>
      [] c >= 2048 -> <<224 + c \div 4096, 128 + ((c \div 64) % 64), 128 + (c % 64)>>

Bytes(i) ==
    CASE i.k = "text" -> Utf8(i.p[1])
      [] i.k = "csi" -> <<ESC, 91>> \o Joined(i.p) \o <<i.f>>
      [] i.k = "mode" -> <<ESC, 91, 63>> \o Joined(i.p) \o <<i.f>>
      [] i.k = "esc" -> <<ESC>> \o i.p
      [] i.k = "osc" -> <<ESC, 93>> \o i.p \o IF i.f = 7 THEN <<7>> ELSE <<ESC, 92>>
      [] i.k = "raw" -> i.p

-----------------------------------------------------------------------------
(* Commands for the console. *)

Cmd(c, p, n) == [c |-> c, p |-> p, n |-> n]

emit_csi(c, p) == Cmd(c, p, 2 + Len(Joined(p)))

\* Text is sent a byte at a time; a run of it is one command here.
put_text(t) == IF t = <<>> THEN <<>> ELSE <<Cmd("text", t, Len(t))>>

IsGraphic(b) == b \in 32..126 \/ b >= 160

fold_unicode(c) ==
    CASE c \in (8208..8213) \cup {9472, 9473} -> <<45>>
      [] c \in 8216..8218 -> <<39>>
      [] c \in 8220..8222 -> <<34>>
      [] c = 8226 -> <<42>>
      [] c = 8230 -> <<46, 46, 46>>
      [] c = 8240 -> <<37>>
      [] c \in {8249, 8592, 9664, 9665, 9668} -> <<60>>
      [] c \in {8250, 8594, 9654, 9655, 9658, 10148} -> <<62>>
      [] c \in {8260, 9585} -> <<47>>
      [] c = 8364 -> <<69>>
      [] c \in {8593, 9650, 9651} -> <<94>>
      [] c \in {8595, 9660, 9661, 10003, 10004} -> <<118>>
      [] c \in {9474, 9475} -> <<124>>
      [] c = 9586 -> <<92>>
      [] c \in {10007, 10008} -> <<120>>
      [] c \in (9476..9599) \ {9585, 9586} -> <<43>>
      [] c \in (9600..9616) \cup (9620..9631) -> <<35>>
      [] c \in 9617..9619 -> <<58>>
      [] c \in (9632..9727) \ {9650, 9651, 9654, 9655, 9658, 9660, 9661, 9664, 9665, 9668}
            -> <<42>>
      [] c \in 8596..8703 -> <<62>>
      [] OTHER -> <<63>>

\* Latin-1 is the console's own; the C1 controls never come from text.
Latin1(c) == IF c \in 160..255 \/ c < 128 THEN <<c>> ELSE fold_unicode(c)

-----------------------------------------------------------------------------
(* Colours.  Sixteen xterm colours and eight pens. *)

ansi_to_pen == <<0, 2, 3, 5, 4, 6, 7, 1>>

ansi_color_rgb ==
    <<<<0, 0, 0>>, <<170, 0, 0>>, <<0, 170, 0>>, <<170, 85, 0>>,
      <<0, 0, 170>>, <<170, 0, 170>>, <<0, 170, 170>>, <<170, 170, 170>>,
      <<85, 85, 85>>, <<255, 85, 85>>, <<85, 255, 85>>, <<255, 255, 85>>,
      <<85, 85, 255>>, <<255, 85, 255>>, <<85, 255, 255>>, <<255, 255, 255>>>>

xterm_index_rgb(n) ==
    LET level == <<0, 95, 135, 175, 215, 255>>
        v == n - 16
        grey == 8 + 10 * (n - 232)
    IN CASE n < 16 -> ansi_color_rgb[n + 1]
         [] n >= 16 /\ n < 232 ->
              <<level[((v \div 36) % 6) + 1], level[((v \div 6) % 6) + 1], level[(v % 6) + 1]>>
         [] n >= 232 -> <<grey, grey, grey>>

\* The closest of the neutral colours for a colour close to grey, the closest
\* of the others for any other; the first of equals.
nearest_ansi_color(rgb) ==
    LET values == {rgb[i] : i \in 1..3}
        high == CHOOSE v \in values : \A u \in values : u <= v
        low == CHOOSE v \in values : \A u \in values : u >= v
        neutral == (high - low) * 3 <= high
        Square(x) == x * x
        Distance(c) == Square(rgb[1] - ansi_color_rgb[c + 1][1])
                       + Square(rgb[2] - ansi_color_rgb[c + 1][2])
                       + Square(rgb[3] - ansi_color_rgb[c + 1][3])
        candidates == {c \in 0..15 : (c % 8 \in {0, 7}) <=> neutral}
    IN CHOOSE c \in candidates : \A d \in candidates :
          Distance(c) < Distance(d) \/ (Distance(c) = Distance(d) /\ c <= d)

\* The pen of a foreground colour; bright black would be the background.
Pen(c) == IF c = 8 THEN 1 ELSE ansi_to_pen[(c % 8) + 1]

-----------------------------------------------------------------------------
(* The screen direction: control sequences. *)

XtermInit == [seq |-> <<>>, kind |-> "none", utf8 |-> <<>>, need |-> 0, last |-> 0,
              requested |-> FALSE, bright |-> FALSE, emitted |-> FALSE, application |-> FALSE]

\* A reset that leaves the bold flag believed to be on.
StillBold(s) == [s EXCEPT !.requested = FALSE, !.bright = FALSE]

Plain(s) == [s EXCEPT !.requested = FALSE, !.bright = FALSE, !.emitted = FALSE]

\* The numbers of a sequence; an omitted one is -1.
RECURSIVE Numbers(_, _, _)
Numbers(b, done, value) ==
    IF Len(done) = ParamMax THEN done
    ELSE IF b = <<>> THEN Append(done, value)
    ELSE IF b[1] \in {58, 59} THEN Numbers(Tail(b), Append(done, value), -1)
    ELSE IF b[1] \in 48..57
         THEN LET v == (IF value < 0 THEN 0 ELSE value) * 10 + b[1] - 48
              IN Numbers(Tail(b), done, IF v > 65535 THEN 65535 ELSE v)
    ELSE Numbers(Tail(b), done, value)

parse_params(b) == Numbers(b, <<>>, -1)

param_or(p, i, fallback) == IF i > Len(p) \/ p[i] < 0 THEN fallback ELSE p[i]

\* The console counts in a byte and does not move for a count of zero.
movement_count(p, i) ==
    LET v == param_or(p, i, 1)
    IN IF v < 1 THEN 1 ELSE IF v > ByteMax THEN ByteMax ELSE v

Unclamped(p, i) == param_or(p, i, 1)

repeat_count(p, i) ==
    LET v == movement_count(p, i) IN IF v > RepeatMax THEN RepeatMax ELSE v

select_pen(s, c, background, next) ==
    IF background THEN [s |-> s, add |-> <<40 + ansi_to_pen[(c % 8) + 1]>>, next |-> next]
    ELSE [s |-> [s EXCEPT !.bright = c >= 8], add |-> <<30 + Pen(c)>>, next |-> next]

\* 38 and 48 take their colour from the numbers that follow.
ExtendedColour(s, p, i, background) ==
    LET first == IF i + 2 <= Len(p) /\ p[i + 2] < 0 THEN i + 3 ELSE i + 2
        index == param_or(p, i + 2, 0)
        Part(k) == param_or(p, first + k, 0) % 256
    IN CASE param_or(p, i + 1, 0) = 5 ->
              select_pen(s, nearest_ansi_color(xterm_index_rgb(IF index > 255 THEN 255 ELSE index)),
                         background, i + 3)
         [] param_or(p, i + 1, 0) = 2 ->
              select_pen(s, nearest_ansi_color(<<Part(0), Part(1), Part(2)>>), background, first + 3)
         [] OTHER -> [s |-> s, add |-> <<>>, next |-> i + 1]

\* Bold is left to the end: it is asked for in two ways.
SgrNumber(s, p, i) ==
    LET n == IF p[i] < 0 THEN 0 ELSE p[i]
        Took(t, add) == [s |-> t, add |-> add, next |-> i + 1]
    IN CASE n = 0 -> Took(Plain(s), <<0>>)
         [] n = 1 -> Took([s EXCEPT !.requested = TRUE], <<>>)
         [] n = 22 -> Took([s EXCEPT !.requested = FALSE], <<>>)
         [] n \in {3, 4, 7, 8, 23, 24, 27, 28, 49} -> Took(s, <<n>>)
         [] n = 39 -> Took([s EXCEPT !.bright = FALSE], <<39>>)
         [] n \in {38, 48} -> ExtendedColour(s, p, i, n = 48)
         [] n \in 30..37 -> select_pen(s, n - 30, FALSE, i + 1)
         [] n \in 40..47 -> select_pen(s, n - 40, TRUE, i + 1)
         [] n \in 90..97 -> select_pen(s, n - 82, FALSE, i + 1)
         [] n \in 100..107 -> select_pen(s, n - 92, TRUE, i + 1)
         [] OTHER -> Took(s, <<>>)

flush_sgr(out) == IF out = <<>> THEN <<>> ELSE <<emit_csi("m", out)>>

SgrEnd(s, out, done) ==
    LET bold == s.requested \/ s.bright
        full == Len(out) = SgrMax
    IN IF bold = s.emitted THEN [s |-> s, out |-> done \o flush_sgr(out)]
       ELSE [s |-> [s EXCEPT !.emitted = bold],
             out |-> IF full THEN done \o flush_sgr(out) \o flush_sgr(<<IF bold THEN 1 ELSE 22>>)
                     ELSE done \o flush_sgr(Append(out, IF bold THEN 1 ELSE 22))]

RECURSIVE Sgr(_, _, _, _, _)
Sgr(s, p, i, out, done) ==
    IF i > Len(p) THEN SgrEnd(s, out, done)
    ELSE LET full == Len(out) + 2 > SgrMax
             rest(r) == Sgr(r.s, p, r.next, (IF full THEN <<>> ELSE out) \o r.add,
                            IF full THEN done \o flush_sgr(out) ELSE done)
         IN rest(SgrNumber(s, p, i))

translate_sgr(s, p) == Sgr(s, p, 1, <<>>, <<>>)

Cleared == <<emit_csi("H", <<1, 1>>), emit_csi("J", <<>>)>>

PrivateMode(n, set) ==
    CASE n \in {47, 1047, 1049} -> Cleared
      [] n = 25 -> <<Cmd("p", <<IF set THEN 1 ELSE 0>>, 4)>>
      [] n = 7 -> <<Cmd(">", <<7>>, 4)>>
      [] OTHER -> <<>>

translate_private_mode(s, p, set) ==
    [s |-> IF \E i \in DOMAIN p : p[i] = 1 THEN [s EXCEPT !.application = set] ELSE s,
     out |-> FlattenSeq([i \in DOMAIN p |-> PrivateMode(p[i], set)])]

\* Blanks over the cells, and back.
translate_erase_chars(n) == <<Cmd("erase", <<n>>, n), emit_csi("D", <<n>>)>>

Moves == {65, 66, 67, 68, 69, 70, 73, 76, 77, 83, 84, 90}

\* What a sequence becomes; one that has no counterpart becomes nothing.
Translated(s, p, f) ==
    CASE f \in Moves -> <<emit_csi("move", <<movement_count(p, 1)>>)>>
      [] f \in {72, 102} -> <<emit_csi("H", <<movement_count(p, 1), movement_count(p, 2)>>)>>
      [] f = 100 -> <<emit_csi("H", <<movement_count(p, 1)>>)>>
      [] f \in {71, 96} ->
           <<Cmd("return", <<>>, 1)>>
           \o (IF movement_count(p, 1) < 2 THEN <<>>
               ELSE <<emit_csi("move", <<movement_count(p, 1) - 1>>)>>)
      [] f = 74 -> CASE param_or(p, 1, 0) = 2 -> Cleared
                     [] param_or(p, 1, 0) = 0 -> <<emit_csi("J", <<>>)>>
                     [] OTHER -> <<>>
      [] f = 75 -> CASE param_or(p, 1, 0) = 2 -> <<Cmd("return", <<>>, 1), emit_csi("K", <<>>)>>
                     [] param_or(p, 1, 0) = 0 -> <<emit_csi("K", <<>>)>>
                     [] OTHER -> <<>>
      [] f \in {80, 64} -> <<Cmd("shift", <<repeat_count(p, 1)>>, 2 * repeat_count(p, 1))>>
      [] f = 88 -> translate_erase_chars(repeat_count(p, 1))
      [] f = 98 -> IF s.last = 0 THEN <<>> ELSE put_text([i \in 1..repeat_count(p, 1) |-> s.last])
      [] f = 110 -> IF param_or(p, 1, 0) = 6 THEN <<emit_csi("n", <<6>>)>> ELSE <<>>
      [] OTHER -> <<>>

translate_csi(s) ==
    LET f == Last(s.seq)
        body == SubSeq(s.seq, 3, Len(s.seq) - 1)
        private == body # <<>> /\ body[1] \in 60..63
        p == parse_params(IF private THEN Tail(body) ELSE body)
    IN CASE private /\ body[1] = 63 /\ f \in {104, 108} -> translate_private_mode(s, p, f = 104)
         [] private /\ ~(body[1] = 63 /\ f \in {104, 108}) -> [s |-> s, out |-> <<>>]
         [] ~private /\ \E i \in DOMAIN body : body[i] \in 32..47 -> [s |-> s, out |-> <<>>]
         [] ~private /\ \A i \in DOMAIN body : body[i] \notin 32..47 ->
              IF f = 109 THEN translate_sgr(s, p) ELSE [s |-> s, out |-> Translated(s, p, f)]

\* ESC and one byte; a character set is chosen with two.
translate_escape(s) ==
    CASE Len(s.seq) = 2 /\ s.seq[2] \in {68, 69, 72, 77} ->
           [s |-> s, out |-> <<Cmd("control", <<s.seq[2]>>, 1)>>]
      [] Len(s.seq) = 2 /\ s.seq[2] = 99 ->
           [s |-> [Plain(s) EXCEPT !.application = FALSE],
            out |-> <<emit_csi("m", <<0>>)>> \o Cleared]
      [] OTHER -> [s |-> s, out |-> <<>>]

-----------------------------------------------------------------------------
(* The screen direction: bytes. *)

sequence_final(b) == b \in 64..126

utf8_continuations(b) ==
    CASE b \in 194..223 -> 1 [] b \in 224..239 -> 2 [] b \in 240..244 -> 3 [] OTHER -> 0

Forgotten(s) == [s EXCEPT !.seq = <<>>, !.kind = "none"]

Put(s, text) ==
    [s |-> IF \E i \in DOMAIN text : IsGraphic(text[i])
           THEN [s EXCEPT !.last = Last(SelectSeq(text, IsGraphic))] ELSE s,
     out |-> put_text(text)]

put_unicode(s, b) ==
    LET u == Append(s.utf8, b)
        code == CASE s.need = 1 -> (u[1] % 32) * 64 + (u[2] % 64)
                  [] s.need = 2 -> (u[1] % 16) * 4096 + (u[2] % 64) * 64 + (u[3] % 64)
                  [] s.need = 3 -> (u[1] % 8) * 262144 + (u[2] % 64) * 4096 + (u[3] % 64) * 64
                                   + (u[4] % 64)
    IN Put([s EXCEPT !.utf8 = <<>>, !.need = 0],
           IF code \in 160..255 THEN <<code>> ELSE fold_unicode(code))

OscByte(s, b) ==
    [s EXCEPT !.kind =
        CASE s.kind = "osc_escape" /\ b \in {92, 156} -> "none"
          [] s.kind = "osc_escape" /\ b \notin {92, 156, ESC} -> "osc"
          [] s.kind = "osc" /\ b \in {7, 156} -> "none"
          [] s.kind = "osc" /\ b = ESC -> "osc_escape"
          [] OTHER -> s.kind]

\* A byte of a sequence that has begun.
SequenceByte(s, b) ==
    LET t == [s EXCEPT !.seq = Append(@, b)]
        n == Len(t.seq)
        Done(r) == [s |-> Forgotten(r.s), out |-> r.out]
        Kept(u) == [s |-> u, out |-> <<>>]
    IN CASE t.kind = "escape" /\ n = 2 /\ b = 91 -> Kept([t EXCEPT !.kind = "csi"])
         [] t.kind = "escape" /\ n = 2 /\ b = 93 -> Kept([t EXCEPT !.seq = <<>>, !.kind = "osc"])
         [] t.kind = "escape" /\ n = 2 /\ b \in {40, 41, 35, 37} -> Kept(t)
         [] t.kind = "escape" /\ n = 2 /\ b \notin {91, 93, 40, 41, 35, 37} -> Done(translate_escape(t))
         [] t.kind = "escape" /\ n = 3 -> Done(translate_escape(t))
         [] t.kind = "csi" /\ n > 2 /\ sequence_final(b) -> Done(translate_csi(t))
         [] OTHER -> Kept(IF n = SequenceMax THEN Forgotten(t) ELSE t)

OtherByte(s, b) ==
    IF s.seq # <<>> THEN SequenceByte(s, b)
    ELSE IF b = ESC THEN [s |-> [s EXCEPT !.seq = <<b>>, !.kind = "escape"], out |-> <<>>]
    ELSE IF utf8_continuations(b) # 0
    THEN [s |-> [s EXCEPT !.utf8 = <<b>>, !.need = utf8_continuations(b)], out |-> <<>>]
    ELSE Put(s, <<b>>)

\* What turned out not to be a character is given back.
put_raw_utf8(s) == put_text(s.utf8)

feed_output_byte(s, b) ==
    IF s.kind \in {"osc", "osc_escape"} THEN [s |-> OscByte(s, b), out |-> <<>>]
    ELSE IF s.need = 0 THEN OtherByte(s, b)
    ELSE IF b \in 128..191
    THEN IF Len(s.utf8) = s.need THEN put_unicode(s, b)
         ELSE [s |-> [s EXCEPT !.utf8 = Append(@, b)], out |-> <<>>]
    ELSE LET r == OtherByte([s EXCEPT !.utf8 = <<>>, !.need = 0], b)
         IN [r EXCEPT !.out = put_raw_utf8(s) \o @]

-----------------------------------------------------------------------------
(* The console, and the xterm it stands in for. *)

BlankScreen == [text |-> <<>>, fg |-> -1, bg |-> -1, bold |-> FALSE, attr |-> {}]

Rendition(sc, n) ==
    CASE n = 0 -> [BlankScreen EXCEPT !.text = sc.text]
      [] n \in {1, 22} -> [sc EXCEPT !.bold = n = 1]
      [] n \in {3, 4, 7, 8} -> [sc EXCEPT !.attr = @ \cup {n}]
      [] n \in {23, 24, 27, 28} -> [sc EXCEPT !.attr = @ \ {n - 20}]
      [] n \in 30..37 -> [sc EXCEPT !.fg = n - 30]
      [] n = 39 -> [sc EXCEPT !.fg = -1]
      [] n \in 40..47 -> [sc EXCEPT !.bg = n - 40]
      [] n = 49 -> [sc EXCEPT !.bg = -1]

Shown(sc, cmd) ==
    CASE cmd.c = "text" -> [sc EXCEPT !.text = @ \o cmd.p]
      [] cmd.c = "m" -> FoldLeft(Rendition, sc, cmd.p)
      [] OTHER -> sc

\* xterm's colours are kept as they were asked for.
RECURSIVE XtermSgr(_, _)
XtermSgr(x, p) ==
    IF p = <<>> THEN x
    ELSE LET n == IF p[1] < 0 THEN 0 ELSE p[1]
             extended == n \in {38, 48} /\ Len(p) >= 3 /\ p[2] \in {2, 5}
             colour == IF p[2] = 5 THEN p[3]
                       ELSE CHOOSE c \in 0..15 : ansi_color_rgb[c + 1] = SubSeq(p, 3, 5)
         IN IF extended
            THEN XtermSgr(IF n = 38 THEN [x EXCEPT !.fg = colour] ELSE [x EXCEPT !.bg = colour],
                          SubSeq(p, IF p[2] = 5 THEN 4 ELSE 6, Len(p)))
            ELSE XtermSgr(CASE n \in 90..97 -> [x EXCEPT !.fg = n - 82]
                            [] n \in 100..107 -> [x EXCEPT !.bg = n - 92]
                            [] n = 0 -> [x EXCEPT !.fg = -1, !.bg = -1, !.bold = FALSE, !.attr = {}]
                            [] n \in {1, 22, 3, 4, 7, 8, 23, 24, 27, 28, 39, 49}
                                     \cup (30..37) \cup (40..47) -> Rendition(x, n)
                            [] OTHER -> x,
                          Tail(p))

Xterm(x, i) ==
    LET text == Latin1(i.p[1])
    IN CASE i.k = "text" -> [x EXCEPT !.text = @ \o text,
                                      !.last = IF IsGraphic(Last(text)) THEN Last(text) ELSE @]
         [] i.k = "raw" -> [x EXCEPT !.text = @ \o i.p]
         [] i.k = "csi" /\ i.f = 109 -> XtermSgr(x, IF i.p = <<>> THEN <<0>> ELSE i.p)
         [] i.k = "csi" /\ i.f = 98 /\ x.last # 0 ->
              [x EXCEPT !.text = @ \o [j \in 1..i.p[1] |-> x.last]]
         [] i.k = "mode" /\ \E j \in DOMAIN i.p : i.p[j] = 1 -> [x EXCEPT !.application = i.f = 104]
         [] i.k = "esc" /\ i.p = <<99>> ->
              [x EXCEPT !.fg = -1, !.bg = -1, !.bold = FALSE, !.attr = {}, !.application = FALSE]
         [] OTHER -> x

-----------------------------------------------------------------------------
(* The keyboard direction. *)

Arrows == {<<CSI, c>> : c \in 65..68}

\* The console's keys that have an xterm spelling.
KnownKeys ==
    Arrows \cup {<<CSI, c>> : c \in {83, 84, 90}} \cup {<<CSI, 32, c>> : c \in {64, 65}}
    \cup {<<CSI>> \o Digits(n) \o <<126>> : n \in (0..19) \cup {40, 41, 42, 44, 45, 50, 54, 55}}

IsResizeReport(q) ==
    /\ Len(q) >= 5
    /\ SubSeq(q, 1, 4) = <<CSI, 49, 50, 59>>
    /\ q[Len(q)] = 124
    /\ q[5] \in 48..57
    /\ \A i \in 5..Len(q) - 1 : q[i] \in 48..57 \cup {59}

Units(q) == [i \in DOMAIN q |-> <<q[i]>>]

amiga_emit_sequence(s) ==
    LET q == s.seq
        t == [s EXCEPT !.seq = <<>>]
    IN CASE s.application /\ q \in Arrows -> [s |-> t, out |-> <<<<1>> \o q>>]
         [] IsResizeReport(q) -> [s |-> [t EXCEPT !.resize = TRUE], out |-> <<>>]
         [] q \in KnownKeys /\ ~(s.application /\ q \in Arrows) -> [s |-> t, out |-> <<<<0>> \o q>>]
         [] OTHER -> [s |-> t, out |-> Units(q)]

\* A byte that belongs to no character and no sequence yet.
FirstKeyByte(s, b) ==
    LET t == [s EXCEPT !.cont = utf8_continuations(b)]
    IN CASE b = CSI -> [s |-> [s EXCEPT !.seq = <<b>>], out |-> <<>>]
         [] b = 8 -> [s |-> t, out |-> <<<<127>>>>]
         [] b = 127 -> [s |-> t, out |-> <<<<0, 127>>>>]
         [] OTHER -> [s |-> t, out |-> <<<<b>>>>]

SequenceKeyByte(s, b) ==
    LET t == [s EXCEPT !.seq = Append(@, b)]
    IN IF Len(t.seq) = SequenceMax \/ sequence_final(b) THEN amiga_emit_sequence(t)
       ELSE [s |-> t, out |-> <<>>]

\* Every byte 9B begins a sequence.
AnyIntroducer(s, b) == IF s.seq # <<>> THEN SequenceKeyByte(s, b) ELSE FirstKeyByte(s, b)

\* The bytes of a UTF-8 character are passed on as they are.
feed_key_byte(s, b) ==
    IF s.cont > 0
    THEN [s |-> [s EXCEPT !.cont = IF b \in 128..191 THEN @ - 1 ELSE utf8_continuations(b)],
          out |-> <<<<b>>>>]
    ELSE IF s.seq # <<>> THEN SequenceKeyByte(s, b)
    ELSE FirstKeyByte(s, b)

\* What a key means to an xterm program in the given cursor-key mode.
Meaning(k, application) ==
    CASE k = <<8>> -> <<<<127>>>>
      [] k = <<127>> -> <<<<0, 127>>>>
      [] k \in KnownKeys -> <<<<IF application /\ k \in Arrows THEN 1 ELSE 0>> \o k>>
      [] IsResizeReport(k) -> <<>>
      [] OTHER -> Units(k)

-----------------------------------------------------------------------------
(* The streams. *)

Init ==
    /\ todo = <<>> /\ item = [k |-> "text", p |-> <<32>>, f |-> 0]
    /\ st = XtermInit
    /\ queued = 0
    /\ screen = BlankScreen
    /\ xterm = [text |-> <<>>, fg |-> -1, bg |-> -1, bold |-> FALSE, attr |-> {},
                last |-> 0, application |-> FALSE]
    /\ written = 0 /\ ended = FALSE
    /\ typing = <<>> /\ key = <<>>
    /\ ks = [seq |-> <<>>, cont |-> 0, resize |-> FALSE, application |-> FALSE]
    /\ read = <<>> /\ meant = <<>> /\ keys = 0

Write(i) ==
    /\ ~ended /\ todo = <<>> /\ written + keys < MaxSteps
    /\ todo' = Bytes(i) /\ item' = i /\ written' = written + 1
    /\ UNCHANGED <<st, queued, screen, xterm, ended, keyboard>>

Size(out) == FoldLeft(LAMBDA a, c : a + c.n, 0, out)

\* A byte whose translation does not fit is left in the stream, and what of it
\* fitted has been sent.
ace_xterm_to_amiga_feed ==
    /\ ~ended /\ todo # <<>> /\ Room - queued >= EmitMax
    /\ \E r \in {feed_output_byte(st, Head(todo))} :
       LET fits == CHOOSE n \in 0..Len(r.out) :
                      /\ Size(SubSeq(r.out, 1, n)) <= Room - queued
                      /\ n = Len(r.out) \/ Size(SubSeq(r.out, 1, n + 1)) > Room - queued
           sent == SubSeq(r.out, 1, fits)
       IN /\ st' = r.s
          /\ screen' = FoldLeft(Shown, screen, sent)
          /\ queued' = queued + Size(sent)
          /\ todo' = IF fits = Len(r.out) THEN Tail(todo) ELSE todo
          /\ xterm' = IF todo' = <<>> THEN Xterm(xterm, item) ELSE xterm
    /\ UNCHANGED <<item, written, ended, keyboard>>

\* The console takes what the sink holds.
Drain ==
    /\ queued > 0
    /\ queued' = 0
    /\ UNCHANGED <<todo, item, st, screen, xterm, written, ended, keyboard>>

\* The program ends, perhaps in the middle of an item: what was held back is
\* given back, a title is not.
ace_xterm_to_amiga_flush ==
    /\ ~ended
    /\ ended' = TRUE
    /\ LET held == st.utf8 \o st.seq
           fed == SubSeq(Bytes(item), 1, Len(Bytes(item)) - Len(todo))
       IN /\ screen' = [screen EXCEPT !.text = @ \o held]
          /\ xterm' = IF todo = <<>> \/ (item.k = "osc" /\ Len(fed) > 1) THEN xterm
                      ELSE [xterm EXCEPT !.text = @ \o fed]
    /\ st' = [Forgotten(st) EXCEPT !.utf8 = <<>>, !.need = 0]
    /\ todo' = <<>>
    /\ UNCHANGED <<item, queued, written, keyboard>>

Press(k) ==
    /\ ~ended /\ typing = <<>> /\ written + keys < MaxSteps
    /\ typing' = k /\ key' = k /\ keys' = keys + 1
    /\ UNCHANGED <<display, ks, read, meant>>

\* The supervisor tells the keyboard side the cursor-key mode first.
ace_amiga_to_xterm_feed ==
    /\ typing # <<>>
    /\ \E r \in {feed_key_byte([ks EXCEPT !.application = st.application], Head(typing))} :
          ks' = r.s /\ read' = read \o r.out
    /\ typing' = Tail(typing)
    /\ meant' = IF typing' = <<>> THEN meant \o Meaning(key, xterm.application) ELSE meant
    /\ UNCHANGED <<display, key, keys>>

Next ==
    \/ \E i \in Items : Write(i)
    \/ ace_xterm_to_amiga_feed
    \/ Drain
    \/ ace_xterm_to_amiga_flush
    \/ \E k \in Typed : Press(k)
    \/ ace_amiga_to_xterm_feed

Spec == Init /\ [][Next]_vars

-----------------------------------------------------------------------------
TypeOK ==
    /\ st.kind \in {"none", "escape", "csi", "osc", "osc_escape"}
    /\ Len(st.seq) < SequenceMax /\ Len(ks.seq) < SequenceMax
    /\ queued \in 0..Room
    /\ st.need \in 0..3 /\ Len(st.utf8) <= st.need /\ ks.cont \in 0..3
    /\ written + keys \in 0..MaxSteps /\ ended \in BOOLEAN

\* The console prints the characters an xterm would print, and no byte of a
\* sequence or a title, wherever the stream is split, however full the sink is
\* and wherever it ends.
PrintsTheText == todo = <<>> => screen.text \o st.utf8 = xterm.text

\* The console draws in the pens that stand for xterm's colours, and bold is
\* on exactly when it was asked for or the foreground is a bright one, however
\* the two were switched on and off.
ShowsTheRendition ==
    todo = <<>> /\ ~ended =>
        /\ screen.fg = (IF xterm.fg < 0 THEN -1 ELSE Pen(xterm.fg))
        /\ screen.bg = (IF xterm.bg < 0 THEN -1 ELSE ansi_to_pen[(xterm.bg % 8) + 1])
        /\ screen.bold = (xterm.bold \/ xterm.fg >= 8)
        /\ screen.attr = xterm.attr

\* Every key reaches the program in order, in the spelling it has asked for,
\* and nothing else does: not the console's resize reports.
KeysReachTheProgram == typing = <<>> => read = meant

\* "An overlong sequence is malformed, not text: printing it would spray the
\* parameters across the window."
OverlongIsNotText == ~ended => PrintsTheText

=============================================================================
