---------------------------- MODULE TineDocument ----------------------------
(***************************************************************************)
(* TINE, the screen editor in tools/tine: its document (buffer.c), the     *)
(* commands that edit it (command.c) and the command lines that run them   *)
(* (parser.c).  The document is a sequence of lines with a journal beside  *)
(* it that U replays backwards; a view holds the cursor, the marked block, *)
(* the margins and the last deleted line.                                  *)
(*                                                                         *)
(* Lines are numbered from 1 here and from 0 in the code, so 0 is the      *)
(* code's NONE; columns count from 0 in both.  A line carries the identity *)
(* of the line of the loaded file it is (0 for a line made later), which   *)
(* the code does not have: it lets a property say which lines a block      *)
(* marks.  Characters are a letter in its two cases and a blank; every     *)
(* character is one column wide; a search target holds no blank, because   *)
(* one that does also matches across the end of a line, where the code's   *)
(* exchange would delete past the line.  A (insert after) is run only on a *)
(* document that has a line: the code's line table arithmetic wraps when   *)
(* it has none.                                                            *)
(***************************************************************************)
EXTENDS Integers, Sequences, FiniteSets, SequencesExt

CONSTANTS
    Start,      \* the lines of the loaded file
    Lines,      \* the command lines and key commands that may be given
    File,       \* the lines of the file that IF reads, or FB's command writes
    Size,       \* ed_size: the most bytes the document may hold
    LineLimit,  \* ED_LINE_LIMIT
    MaxSteps

VARIABLES
    e,      \* the document view: text, journal, cursor, block, margins
    did,    \* whether the command line just run was U
    steps

vars == <<e, did, steps>>

-----------------------------------------------------------------------------
(* The buffer. *)

Char == {"a", "A", " "}
Upper(c) == IF c = "a" THEN "A" ELSE c
Flip(c) == CASE c = "a" -> "A" [] c = "A" -> "a" [] OTHER -> c

pos(l, c) == [l |-> l, c |-> c]

N(d) == Len(d.lines)
Text(d, l) == d.lines[l].s

charat(d, l, c) ==
    IF l > N(d) THEN "eof" ELSE IF c >= Len(Text(d, l)) THEN " " ELSE Text(d, l)[c + 1]

ateol(d, l, c) == l > N(d) \/ c >= Len(Text(d, l))

trimlength(s) ==
    LET solid == {i \in 1..Len(s) : s[i] # " "}
    IN IF solid = {} THEN 0 ELSE CHOOSE i \in solid : \A k \in solid : k <= i

\* What writelines puts in a file: every line without its trailing blanks.
writelines(lines) == [i \in DOMAIN lines |-> SubSeq(lines[i].s, 1, trimlength(lines[i].s))]

\* The journal record of one change.  "was" is the document before it, kept
\* for the properties.
Record(d, a, l, c, s) == [a |-> a, l |-> l, c |-> c, s |-> s, was |-> writelines(d.lines)]

\* What a merge that only looks at the line would do.
MergesOnTheLine(d, a, l, c) ==
    d.j # <<>> /\ Last(d.j).a = a /\ (a = "MA" \/ (a = "IT" /\ Last(d.j).l = l))

\* Typing on from where the last insertion ended adds to its record; two marks
\* in a row are one.
merge(d, a, l, c) ==
    /\ d.j # <<>>
    /\ Last(d.j).a = a
    /\ \/ a = "MA"
       \/ a = "IT" /\ Last(d.j).l = l /\ c = Last(d.j).c + Len(Last(d.j).s)

push(d, a, l, c, s) ==
    IF merge(d, a, l, c)
    THEN [d EXCEPT !.j[Len(d.j)].s = @ \o s]
    ELSE [d EXCEPT !.j = Append(@, Record(d, a, l, c, s))]

mark(d) == IF d.inside THEN d ELSE push(d, "MA", 0, 0, <<>>)

doinsertline(d, l) ==
    [d EXCEPT !.lines = InsertAt(@, l, [id |-> 0, s |-> <<>>]),
              !.bytes = @ + 1, !.dirty = TRUE]

dodeleteline(d, l) ==
    [d EXCEPT !.lines = RemoveAt(@, l),
              !.bytes = @ - Len(Text(d, l)) - 1, !.dirty = TRUE]

Padded(s, c) == s \o [i \in 1..(IF c > Len(s) THEN c - Len(s) ELSE 0) |-> " "]

\* What an insertion that forgot to count its padding would do.
CountsTextOnly(d, l, c, s) ==
    LET old == Padded(Text(d, l), c)
    IN IF s = <<>>
       THEN d
       ELSE [d EXCEPT !.lines[l].s = SubSeq(old, 1, c) \o s \o SubSeq(old, c + 1, Len(old)),
                      !.bytes = @ + Len(s),
                      !.dirty = TRUE]

\* A text put past the end of its line pads the line with blanks.
doinserttext(d, l, c, s) ==
    LET old == Padded(Text(d, l), c)
    IN IF s = <<>>
       THEN d
       ELSE [d EXCEPT !.lines[l].s = SubSeq(old, 1, c) \o s \o SubSeq(old, c + 1, Len(old)),
                      !.bytes = @ + (Len(old) - Len(Text(d, l))) + Len(s),
                      !.dirty = TRUE]

\* What a deletion that left the buffer clean would do.
DeletesUnseen(d, l, c, n) ==
    [d EXCEPT !.lines[l].s = SubSeq(@, 1, c) \o SubSeq(@, c + n + 1, Len(@)), !.bytes = @ - n]

dodeletetext(d, l, c, n) ==
    IF n = 0
    THEN d
    ELSE [d EXCEPT !.lines[l].s = SubSeq(@, 1, c) \o SubSeq(@, c + n + 1, Len(@)),
                   !.bytes = @ - n, !.dirty = TRUE]

Done(d) == [d EXCEPT !.rc = TRUE]
Fail(d) == [d EXCEPT !.rc = FALSE]

insertline(d, l) == Done(doinsertline(push(d, "IL", l, 0, <<>>), l))
deleteline(d, l) == Done(dodeleteline(push(d, "DL", l, 0, Text(d, l)), l))
inserttext(d, l, c, s) == Done(doinserttext(push(d, "IT", l, c, s), l, c, s))
deletetext(d, l, c, n) ==
    Done(dodeletetext(push(d, "DT", l, c, SubSeq(Text(d, l), c + 1, c + n)), l, c, n))

insertline_checked(d, l) == IF d.bytes >= Size THEN Fail(d) ELSE insertline(d, l)

\* The code subtracts the bytes in use from the size as unsigned numbers; a
\* document already over its size has all the room there is.
inserttext_checked(d, l, c, s) ==
    LET end  == IF c > Len(Text(d, l)) THEN c ELSE Len(Text(d, l))
        more == end - Len(Text(d, l)) + Len(s)
    IN IF l > N(d) \/ end + Len(s) > LineLimit \/ (d.bytes <= Size /\ d.bytes + more > Size)
       THEN Fail(d)
       ELSE inserttext(d, l, c, s)

(* Undo: the text changes on the cursor's line since the last mark are taken  *)
(* back, newest first, up to the first change that is not one of them.  It is *)
(* refused when the changes on this line reach down to the mark and one of    *)
(* them inserted or deleted a line.                                           *)
Unmarked(j) == IF j # <<>> /\ Last(j).a = "MA" THEN Front(j) ELSE j

OnLine(r, l) == r.a # "MA" /\ r.l = l
IsText(r) == r.a \in {"IT", "DT"}
IsLine(r) == r.a \in {"IL", "DL"}

\* The length of the journal below its newest run of records of the set rs.
Below(j, rs) ==
    LET other == {i \in 1..Len(j) : j[i] \notin rs}
    IN IF other = {} THEN 0 ELSE CHOOSE i \in other : \A k \in other : k <= i

Refused(j, l) ==
    LET base == Below(j, {r \in Range(j) : OnLine(r, l)})
    IN /\ \E i \in (base + 1)..Len(j) : IsLine(j[i])
       /\ base > 0
       /\ j[base].a = "MA"

RevertOne(d, r) ==
    IF r.a = "IT" THEN dodeletetext(d, r.l, r.c, Len(r.s))
                  ELSE doinserttext(d, r.l, r.c, r.s)

undo(d, l) ==
    LET j    == Unmarked(d.j)
        base == Below(j, {r \in Range(j) : OnLine(r, l) /\ IsText(r)})
        back == SubSeq(j, base + 1, Len(j))
        done == FoldRight(LAMBDA r, x : RevertOne(x, r), back, d)
    IN IF j = <<>> \/ ~OnLine(Last(j), l) \/ IsLine(Last(j)) \/ Refused(j, l)
       THEN [d EXCEPT !.j = j, !.rc = FALSE]
       ELSE [done EXCEPT !.j = SubSeq(j, 1, base), !.p = pos(back[1].l, back[1].c), !.rc = TRUE]

-----------------------------------------------------------------------------
(* The commands.  Every one is a body between the same prologue and epilogue: *)
(* a mark for U, the block put in order, the cursor kept on a line, the block *)
(* forgotten by a command that moves lines.                                   *)

HasBlock(d) == d.bs # 0 /\ d.be # 0

fixblock(d) ==
    IF HasBlock(d) /\ d.bs > d.be THEN [d EXCEPT !.bs = d.be, !.be = d.bs] ELSE d

fixviewcursor(d) ==
    IF d.p.l > N(d) THEN [d EXCEPT !.p.l = IF N(d) = 0 THEN 1 ELSE N(d)] ELSE d

Cleared(d, flags) == IF "CLEARSBLOCK" \in flags THEN [d EXCEPT !.bs = 0, !.be = 0] ELSE d

Prologue(d, flags) == Done(IF "MARK" \in flags THEN mark(d) ELSE d)

Epilogue(d, flags, ran) ==
    [ran EXCEPT !.ex = @ /\ ran.p.l = d.p.l,
                !.gb = IF "NOLOCATOR" \in flags THEN @ ELSE ran.p]

COMMAND(d, flags, Body(_)) ==
    Epilogue(d, flags, Cleared(fixviewcursor(fixblock(
        IF "NEEDSBLOCK" \in flags /\ (~HasBlock(d) \/ N(d) = 0)
        THEN Fail(d) ELSE Body(Prologue(d, flags)))), flags))

\* first && second
AndThen(d, Second(_)) == IF d.rc THEN Second(d) ELSE d

InsertedLine(d, l, s) ==
    AndThen(insertline_checked(d, l), LAMBDA x : inserttext_checked(x, l, 0, s))

cmd_a(d, s) ==
    COMMAND(d, {"MARK", "CLEARSBLOCK"}, LAMBDA x : InsertedLine(x, x.p.l + 1, s))

cmd_i(d, s) ==
    COMMAND(d, {"MARK", "CLEARSBLOCK"}, LAMBDA x : InsertedLine(x, x.p.l, s))

cmd_rd(d) == IF d.dl = <<>> THEN COMMAND(d, {"CLEARSBLOCK"}, Fail) ELSE cmd_i(d, d.dl[1])

cmd_d(d) ==
    COMMAND(d, {"MARK", "CLEARSBLOCK"}, LAMBDA x :
        IF N(x) = 0
        THEN x
        ELSE deleteline([x EXCEPT !.dl = <<Text(x, x.p.l)>>], x.p.l))

RECURSIVE DeleteLines(_, _, _)
DeleteLines(d, l, n) == IF n = 0 \/ N(d) = 0 THEN d ELSE DeleteLines(deleteline(d, l), l, n - 1)

cmd_db(d) ==
    COMMAND(d, {"MARK", "NEEDSBLOCK", "CLEARSBLOCK"},
            LAMBDA x : Done(DeleteLines(x, x.bs, x.be - x.bs + 1)))

RECURSIVE InsertLines(_, _, _)
InsertLines(d, l, n) ==
    IF n = 0 \/ ~d.rc THEN d ELSE InsertLines(insertline_checked(d, l), l, n - 1)

RECURSIVE CopyLines(_, _, _, _)
CopyLines(d, from, to, n) ==
    IF n = 0 \/ ~d.rc
    THEN d
    ELSE CopyLines(inserttext_checked(d, to, 0, Text(d, from)), from + 1, to + 1, n - 1)

\* What a copy that put the cursor's own line in the count would use.
BlockAfterLess(d, l, n) == IF l < d.bs THEN d.bs + n - 1 ELSE d.bs

\* Where the block's first line is once n lines have been inserted at l.
BlockAfter(d, l, n) == IF l < d.bs THEN d.bs + n ELSE d.bs

\* A copy that runs out of room leaves the lines it made, and the block where
\* it was counted; "cut" remembers it for the properties.
cmd_ib(d) ==
    COMMAND(d, {"MARK", "NEEDSBLOCK"}, LAMBDA x :
        LET n      == x.be - x.bs + 1
            from   == BlockAfter(x, x.p.l, n)
            copied == CopyLines(InsertLines(x, x.p.l, n), from, x.p.l, n)
        IN CASE x.p.l \in x.bs..x.be -> Fail(x)
             [] copied.rc            -> [copied EXCEPT !.bs = from, !.be = from + n - 1]
             [] OTHER                -> [copied EXCEPT !.cut = TRUE])

\* readfile hands cmd_if_cb the file line by line until one does not fit.
RECURSIVE cmd_if_cb(_, _)
cmd_if_cb(d, file) ==
    IF file = <<>> \/ ~d.rc
    THEN d
    ELSE LET put == InsertedLine([d EXCEPT !.p.c = 0], d.p.l, Head(file))
         IN cmd_if_cb([put EXCEPT !.p.l = @ + 1], Tail(file))

cmd_if(d, file, opened) ==
    COMMAND(d, {"MARK", "CLEARSBLOCK"},
            LAMBDA x : IF opened THEN [cmd_if_cb(x, file) EXCEPT !.p = x.p] ELSE Fail(x))

\* The block goes through a command: its lines are deleted and the command's
\* output is inserted where the cursor is once they are gone.
cmd_fb(d, file, opened) ==
    COMMAND(d, {"MARK", "NEEDSBLOCK", "CLEARSBLOCK"}, LAMBDA x :
        IF ~opened
        THEN Fail(x)
        ELSE AndThen(cmd_db([x EXCEPT !.p = pos(x.bs, 0)]), LAMBDA y : cmd_if(y, file, TRUE)))

\* The blanks at (l, c) that a further blank follows.
squeezespace(d, l, c) ==
    LET t   == Text(d, l)
        run == {n \in 0..(Len(t) - c) : \A i \in 0..n : charat(d, l, c + i) = " "}
        n   == IF ateol(d, l, c) \/ run = {} THEN 0
               ELSE CHOOSE k \in run : \A i \in run : i <= k
    IN deletetext(d, l, c, n)

cmd_j(d) ==
    COMMAND(d, {"MARK", "CLEARSBLOCK"}, LAMBDA x :
        LET l == x.p.l
            c == Len(Text(x, l))
        IN IF N(x) < 2 \/ l >= N(x)
           THEN Fail(x)
           ELSE squeezespace(deleteline(inserttext(x, l, c, Text(x, l + 1)), l + 1), l, c))

\* The indentation of a split line: the left margin, or with autoindent the
\* first character of any line but the document's first.
Indent(d) ==
    LET t     == Text(d, d.p.l)
        solid == {i \in 1..Len(t) : t[i] # " "}
    IN IF d.ai /\ d.p.l > 1 /\ solid # {}
       THEN (CHOOSE i \in solid : \A k \in solid : i <= k) - 1
       ELSE d.lm

SplitAt(d, l, c, lm) ==
    LET tail == SubSeq(Text(d, l), c + 1, Len(Text(d, l)))
    IN AndThen(insertline_checked(d, l + 1), LAMBDA x :
         AndThen(inserttext_checked(x, l + 1, lm, tail), LAMBDA y :
           [deletetext(y, l, c, Len(tail)) EXCEPT !.p = pos(l + 1, lm)]))

cmd_s(d) ==
    COMMAND(d, {"MARK", "CLEARSBLOCK"}, LAMBDA x :
        AndThen(IF N(x) = 0 THEN insertline_checked(x, x.p.l) ELSE x,
                LAMBDA y : SplitAt(y, y.p.l, y.p.c, Indent(y))))

cmd_ce(d) ==
    COMMAND(d, {}, LAMBDA x : [x EXCEPT !.p.c = IF N(x) = 0 THEN 0 ELSE Len(Text(x, x.p.l))])

cmd_se(d) == COMMAND(d, {"MARK", "CLEARSBLOCK"}, LAMBDA x : AndThen(cmd_ce(x), cmd_s))

(* Typing and deleting characters. *)

\* A word that crosses the right margin moves to the next line with its start.
wordwrap(d) ==
    LET blank == {c \in 0..(d.p.c - 1) : charat(d, d.p.l, c) = " " \/ c = 0 \/ c <= d.lm}
        c     == CHOOSE c \in blank : \A k \in blank : k <= c
        within(split) == [split EXCEPT !.p.c = IF @ < split.lm THEN split.lm ELSE @]
    IN IF c > d.lm THEN within(cmd_ce(cmd_s([d EXCEPT !.p.c = c + 1]))) ELSE d

AtMargin(d) == d.p.c # 0 /\ d.p.c = d.rm /\ ~d.ex

RECURSIVE TypeIn(_, _)
TypeIn(d, s) ==
    IF s = <<>> \/ ~d.rc
    THEN d
    ELSE IF AtMargin(d) /\ Head(s) = " "
         THEN TypeIn(Done(cmd_s(d)), Tail(s))
         ELSE LET put(room)  == inserttext_checked(room, room.p.l, room.p.c, <<Head(s)>>)
                  next(typed) == IF typed.rc THEN TypeIn([typed EXCEPT !.p.c = @ + 1], Tail(s))
                                             ELSE typed
              IN next(put(IF AtMargin(d) THEN wordwrap(d) ELSE d))

cmd_ty(d, s) ==
    COMMAND(d, {}, LAMBDA x :
        AndThen(IF N(x) = 0 THEN insertline_checked(x, x.p.l) ELSE x, LAMBDA y : TypeIn(y, s)))

cmd_dc(d) ==
    COMMAND(d, {}, LAMBDA x :
        IF ateol(x, x.p.l, x.p.c) THEN x ELSE deletetext(x, x.p.l, x.p.c, 1))

cmd_dl(d) ==
    COMMAND(d, {}, LAMBDA x :
        LET left == [x EXCEPT !.p.c = @ - 1]
        IN IF x.p.c = 0
           THEN Fail(x)
           ELSE IF ateol(x, left.p.l, left.p.c)
                THEN left
                ELSE deletetext(left, left.p.l, left.p.c, 1))

RECURSIVE DeleteLeftWhile(_, _)
DeleteLeftWhile(d, blank) ==
    IF d.p.c > 0 /\ (charat(d, d.p.l, d.p.c - 1) = " ") = blank
    THEN DeleteLeftWhile(cmd_dl(d), blank)
    ELSE d

\* Delete the word before the cursor and the blanks after it.
cmd_dp(d) ==
    COMMAND(d, {"MARK"}, LAMBDA x :
        IF x.p.c = 0 THEN Fail(x) ELSE DeleteLeftWhile(DeleteLeftWhile(x, TRUE), FALSE))

\* Delete the word, or the blanks, that start at the cursor.
cmd_dw(d) ==
    COMMAND(d, {"MARK"}, LAMBDA x :
        LET l   == x.p.l
            c   == x.p.c
            run == {n \in 1..(Len(Text(x, l)) - c) :
                       \A i \in 0..(n - 1) : (charat(x, l, c + i) = " ") = (charat(x, l, c) = " ")}
        IN IF ateol(x, l, c)
           THEN x
           ELSE deletetext(x, l, c, CHOOSE n \in run : \A k \in run : k <= n))

cmd_el(d) ==
    COMMAND(d, {"MARK"}, LAMBDA x :
        IF ateol(x, x.p.l, x.p.c) THEN x
        ELSE deletetext(x, x.p.l, x.p.c, Len(Text(x, x.p.l)) - x.p.c))

cmd_cr(d) ==
    COMMAND(d, {}, LAMBDA x :
        [(IF N(x) = 0 THEN insertline(x, 1) ELSE x) EXCEPT !.p.c = @ + 1])

cmd_fc(d) ==
    COMMAND(d, {}, LAMBDA x :
        LET l == x.p.l
            c == x.p.c
            w == Flip(charat(x, l, c))
        IN AndThen(IF ateol(x, l, c) THEN x
                   ELSE inserttext_checked(deletetext(x, l, c, 1), l, c, <<w>>), cmd_cr))

-----------------------------------------------------------------------------
(* Searching. *)

Before(p, q) == p.l < q.l \/ (p.l = q.l /\ p.c < q.c)

\* Where the target stands; upper case only when the view says so.
Found(d) ==
    {p \in [l : 1..N(d), c : 0..LineLimit] :
        /\ p.c + Len(d.find) <= Len(Text(d, p.l))
        /\ \A i \in 1..Len(d.find) :
              LET t == Text(d, p.l)[p.c + i]
              IN IF d.uc THEN Upper(t) = Upper(d.find[i]) ELSE t = d.find[i]}

\* The nearest place after the cursor, or before it when searching backwards.
find(d, back) ==
    LET there == {p \in Found(d) : IF back THEN Before(p, d.p) ELSE Before(d.p, p)}
    IN IF d.find = <<>> \/ there = {}
       THEN Fail(d)
       ELSE [Done(d) EXCEPT !.p = CHOOSE p \in there : \A q \in there \ {p} :
                                     IF back THEN Before(q, p) ELSE Before(p, q)]

setfind(d, s) == IF s = <<>> THEN d ELSE [d EXCEPT !.find = s]

cmd_f(d, s) == COMMAND(d, {"MARK", "NOLOCATOR"}, LAMBDA x : find(setfind(x, s), FALSE))
cmd_bf(d, s) == COMMAND(d, {"MARK", "NOLOCATOR"}, LAMBDA x : find(setfind(x, s), TRUE))

\* An exchange whose new text does not fit has already deleted the old one.
exchange(d, s, t, agreed) ==
    LET swapped(x, p) == inserttext_checked(deletetext(x, p.l, p.c, Len(s)), p.l, p.c, t)
    IN AndThen(AndThen(find(setfind(d, s), FALSE),
                       LAMBDA x : IF agreed THEN swapped(x, x.p) ELSE x),
               LAMBDA y : [y EXCEPT !.p.c = @ + Len(t)])

cmd_e(d, s, t) == COMMAND(d, {"MARK", "NOLOCATOR"}, LAMBDA x : exchange(x, s, t, TRUE))
cmd_eq(d, s, t, ok) == COMMAND(d, {"MARK", "NOLOCATOR"}, LAMBDA x : exchange(x, s, t, ok))

-----------------------------------------------------------------------------
(* Moving the cursor. *)

MoveLine(d, flags, possible, p) ==
    COMMAND(d, flags, LAMBDA x : IF possible THEN [x EXCEPT !.p = p] ELSE Fail(x))

cmd_cd(d) == MoveLine(d, {"MARK"}, d.p.l < N(d), pos(d.p.l + 1, d.p.c))
cmd_cu(d) == MoveLine(d, {"MARK"}, N(d) > 0 /\ d.p.l > 1, pos(d.p.l - 1, d.p.c))
cmd_n(d) == MoveLine(d, {"MARK"}, d.p.l < N(d), pos(d.p.l + 1, 0))
cmd_p(d) == MoveLine(d, {"MARK"}, N(d) > 0 /\ d.p.l > 1, pos(d.p.l - 1, 0))
cmd_m(d, l) == MoveLine(d, {"MARK", "NOLOCATOR"}, l \in 1..N(d), pos(l, d.p.c))
cmd_t(d) == MoveLine(d, {"MARK", "NOLOCATOR"}, TRUE, pos(1, 0))
cmd_b(d) == MoveLine(d, {"MARK", "NOLOCATOR"}, TRUE, pos(IF N(d) = 0 THEN 1 ELSE N(d), 0))
cmd_cs(d) == MoveLine(d, {}, TRUE, pos(d.p.l, 0))
cmd_cl(d) == MoveLine(d, {}, d.p.c > 0, pos(d.p.l, d.p.c - 1))
cmd_sb(d) == MoveLine(d, {"MARK", "NOLOCATOR"}, d.bs # 0, pos(d.bs, d.p.c))
cmd_gb(d) == MoveLine(d, {"MARK", "NOLOCATOR"}, d.gb.l \in 1..N(d), d.gb)
cmd_gm(d) == MoveLine(d, {"MARK", "NOLOCATOR"}, d.bm.l \in 1..N(d), d.bm)

cmd_cj(d) ==
    COMMAND(d, {}, LAMBDA x :
        IF N(x) = 0 THEN x
        ELSE [x EXCEPT !.p.c = IF @ = Len(Text(x, x.p.l)) THEN 0 ELSE Len(Text(x, x.p.l))])

\* The cursor's line and column as one number, to walk over words with.
Places(d) == {p \in [l : 1..N(d), c : 0..LineLimit] : p.c <= Len(Text(d, p.l))}
Blank(d, p) == charat(d, p.l, p.c) = " "
First(S) == CHOOSE p \in S : \A q \in S \ {p} : Before(p, q)
Final(S) == CHOOSE p \in S : \A q \in S \ {p} : Before(q, p)

\* From p on to the nearest of some places, or to the bottom.
Onward(d, p, places) ==
    LET ahead == {q \in Places(d) : /\ q = p \/ Before(p, q)
                                    /\ q \in places \/ q = Final(Places(d))}
    IN IF ahead = {} THEN p ELSE First(ahead)

\* The next word; at the bottom one column to the right, as ED does.
cmd_wn(d) ==
    COMMAND(d, {"MARK"}, LAMBDA x :
        LET blanks == {q \in Places(x) : Blank(x, q)}
            gap  == IF x.p \in Places(x) THEN Onward(x, x.p, blanks) ELSE x.p
            word == Onward(x, gap, Places(x) \ blanks)
            last == \A q \in Places(x) : ~Before(word, q)
        IN IF last THEN cmd_cr([x EXCEPT !.p = word]) ELSE [x EXCEPT !.p = word])

(* Marking the block, the place to come back to, and the settings. *)

\* The lines from bs to be, whichever comes first; "held" remembers them for
\* the properties.
Ids(d) ==
    LET lo == IF d.bs <= d.be THEN d.bs ELSE d.be
        hi == IF d.bs <= d.be THEN d.be ELSE d.bs
    IN [i \in lo..hi |-> IF i > N(d) THEN 0 ELSE d.lines[i].id]
Held(d) == LET ids == Ids(d) IN {ids[i] : i \in DOMAIN ids}
Marked(d) == [d EXCEPT !.held = IF HasBlock(d) THEN Held(d) ELSE {}, !.cut = FALSE]

cmd_bs(d) == COMMAND(d, {"NOLOCATOR"}, LAMBDA x : Marked([x EXCEPT !.bs = x.p.l]))
cmd_be(d) == COMMAND(d, {"NOLOCATOR"}, LAMBDA x : Marked([x EXCEPT !.be = x.p.l]))
cmd_bb(d) ==
    COMMAND(d, {"NOLOCATOR"}, LAMBDA x :
        Marked(CASE x.bs = 0 -> [x EXCEPT !.bs = x.p.l]
                 [] x.bs # 0 /\ x.be = 0 -> [x EXCEPT !.be = x.p.l]
                 [] OTHER -> [x EXCEPT !.bs = x.p.l, !.be = 0]))
cmd_cb(d) == COMMAND(d, {"NEEDSBLOCK", "CLEARSBLOCK", "NOLOCATOR"}, LAMBDA x : x)
cmd_bm(d) == COMMAND(d, {"NOLOCATOR"}, LAMBDA x : [x EXCEPT !.bm = x.p])
cmd_ai(d) == COMMAND(d, {"NOLOCATOR"}, LAMBDA x : [x EXCEPT !.ai = TRUE])
cmd_ex(d) == COMMAND(d, {"NOLOCATOR"}, LAMBDA x : [x EXCEPT !.ex = TRUE])
cmd_uc(d) == COMMAND(d, {"NOLOCATOR"}, LAMBDA x : [x EXCEPT !.uc = TRUE])

\* A margin of 0 is set at the cursor; the two may not cross.
cmd_sl(d, n) ==
    COMMAND(d, {"NOLOCATOR"}, LAMBDA x :
        IF n >= x.rm THEN Fail(x) ELSE [x EXCEPT !.lm = IF n > 0 THEN n - 1 ELSE x.p.c])
cmd_sr(d, n) ==
    COMMAND(d, {"NOLOCATOR"}, LAMBDA x :
        IF n <= x.lm THEN Fail(x) ELSE [x EXCEPT !.rm = IF n > 0 THEN n - 1 ELSE x.p.c])

-----------------------------------------------------------------------------
(* Undo, saving and leaving.  "disk" is what was last saved whole, "failed"   *)
(* that a save has failed since, "confirmed" that the user was asked.         *)

\* Nothing to undo is reported, but a command line goes on.
cmd_u(d) ==
    COMMAND(d, {"CLEARSBLOCK"}, LAMBDA x : IF x.j = <<>> THEN x ELSE Done(undo(x, x.p.l)))

\* The file is emptied when it is opened, and the buffer is taken for saved
\* whatever became of the writing.
cmd_sa(d, ok) ==
    COMMAND(d, {"NOLOCATOR"}, LAMBDA x :
        CASE ok = "yes"  -> [x EXCEPT !.disk = writelines(x.lines), !.dirty = FALSE, !.failed = FALSE]
          [] ok = "full" -> [Fail(x) EXCEPT !.disk = <<>>, !.dirty = FALSE, !.failed = TRUE]
          [] OTHER       -> Fail(x))

cmd_q(d, ok) ==
    COMMAND(d, {"NOLOCATOR"}, LAMBDA x :
        IF x.dirty /\ ok # "yes"
        THEN Fail(x)
        ELSE [x EXCEPT !.running = FALSE, !.confirmed = x.dirty])

cmd_qy(d) == COMMAND(d, {}, LAMBDA x : [x EXCEPT !.running = FALSE, !.confirmed = TRUE])
cmd_x(d, ok) == COMMAND(d, {}, LAMBDA x : AndThen(cmd_sa(x, ok), LAMBDA y : cmd_q(y, ok)))
cmd_xq(d, ok) ==
    COMMAND(d, {"NOLOCATOR"}, LAMBDA x :
        IF ~x.dirty THEN cmd_q(x, ok) ELSE IF ok = "no" THEN Fail(x) ELSE cmd_x(x, ok))

-----------------------------------------------------------------------------
(* Command lines.  A command is [n: its name, s, t: its texts, l: its number, *)
(* ok: what the world answers, "yes", "no", or "full" for a disk that is      *)
(* full].  A command line is a chain of items [c: a command, in: the chain in *)
(* brackets that stands in its place, k: how often, stop: the repetition      *)
(* after which a key is pressed].                                             *)

call(d, c) ==
    CASE c.n = "a"  -> IF N(d) = 0 THEN Fail(d) ELSE cmd_a(d, c.s)
      [] c.n = "i"  -> cmd_i(d, c.s)
      [] c.n = "rd" -> cmd_rd(d)
      [] c.n = "d"  -> cmd_d(d)
      [] c.n = "db" -> cmd_db(d)
      [] c.n = "ib" -> cmd_ib(d)
      [] c.n = "if" -> cmd_if(d, File, c.ok = "yes")
      [] c.n = "fb" -> cmd_fb(d, File, c.ok = "yes")
      [] c.n = "j"  -> cmd_j(d)
      [] c.n = "s"  -> cmd_s(d)
      [] c.n = "se" -> cmd_se(d)
      [] c.n = "ty" -> cmd_ty(d, c.s)
      [] c.n = "dc" -> cmd_dc(d)
      [] c.n = "dl" -> cmd_dl(d)
      [] c.n = "dp" -> cmd_dp(d)
      [] c.n = "dw" -> cmd_dw(d)
      [] c.n = "el" -> cmd_el(d)
      [] c.n = "fc" -> cmd_fc(d)
      [] c.n = "f"  -> cmd_f(d, c.s)
      [] c.n = "bf" -> cmd_bf(d, c.s)
      [] c.n = "e"  -> cmd_e(d, c.s, c.t)
      [] c.n = "eq" -> cmd_eq(d, c.s, c.t, c.ok = "yes")
      [] c.n = "cr" -> cmd_cr(d)
      [] c.n = "cd" -> cmd_cd(d)
      [] c.n = "cu" -> cmd_cu(d)
      [] c.n = "n"  -> cmd_n(d)
      [] c.n = "p"  -> cmd_p(d)
      [] c.n = "m"  -> cmd_m(d, c.l)
      [] c.n = "t"  -> cmd_t(d)
      [] c.n = "b"  -> cmd_b(d)
      [] c.n = "cs" -> cmd_cs(d)
      [] c.n = "ce" -> cmd_ce(d)
      [] c.n = "cl" -> cmd_cl(d)
      [] c.n = "cj" -> cmd_cj(d)
      [] c.n = "wn" -> cmd_wn(d)
      [] c.n = "sb" -> cmd_sb(d)
      [] c.n = "gb" -> cmd_gb(d)
      [] c.n = "gm" -> cmd_gm(d)
      [] c.n = "bs" -> cmd_bs(d)
      [] c.n = "be" -> cmd_be(d)
      [] c.n = "bb" -> cmd_bb(d)
      [] c.n = "cb" -> cmd_cb(d)
      [] c.n = "bm" -> cmd_bm(d)
      [] c.n = "ai" -> cmd_ai(d)
      [] c.n = "ex" -> cmd_ex(d)
      [] c.n = "uc" -> cmd_uc(d)
      [] c.n = "sl" -> cmd_sl(d, c.l)
      [] c.n = "sr" -> cmd_sr(d, c.l)
      [] c.n = "u"  -> cmd_u(d)
      [] c.n = "sa" -> cmd_sa(d, c.ok)
      [] c.n = "q"  -> cmd_q(d, c.ok)
      [] c.n = "qy" -> cmd_qy(d)
      [] c.n = "x"  -> cmd_x(d, c.ok)
      [] c.n = "xq" -> cmd_xq(d, c.ok)
      [] OTHER      -> Fail(d)

RECURSIVE chain(_, _), command(_, _, _)

\* One item, for the i-th time: the first failure ends it, and a key pressed
\* between two repetitions abandons the line.
command(d, item, i) ==
    IF i > item.k
    THEN d
    ELSE LET again(once) ==
                 CASE ~once.rc                               -> once
                   [] once.rc /\ item.k > 1 /\ item.stop = i -> Fail(once)
                   [] OTHER                                  -> command(once, item, i + 1)
         IN again(IF item.in = <<>> THEN call(d, item.c) ELSE chain(d, item.in))

chain(d, items) ==
    IF items = <<>> THEN d ELSE AndThen(command(d, Head(items), 1), LAMBDA x : chain(x, Tail(items)))

\* A command line is one group for U: it is marked before it runs, and the
\* commands' own marks do nothing until it is over.
runextended(d, items) ==
    [chain([mark(Done(d)) EXCEPT !.inside = TRUE], items) EXCEPT !.inside = FALSE]

-----------------------------------------------------------------------------
(* The editor. *)

Init ==
    /\ e = [lines |-> Start, bytes |-> FoldLeft(LAMBDA n, x : n + Len(x.s) + 1, 0, Start),
            j |-> <<>>, inside |-> FALSE, dirty |-> FALSE, p |-> pos(1, 0),
            bs |-> 0, be |-> 0, held |-> {}, cut |-> FALSE, dl |-> <<>>,
            gb |-> pos(0, 0), bm |-> pos(0, 0), find |-> <<>>, uc |-> FALSE,
            ai |-> FALSE, ex |-> FALSE, lm |-> 0, rm |-> LineLimit, rc |-> TRUE,
            running |-> TRUE, confirmed |-> FALSE, disk |-> writelines(Start),
            failed |-> FALSE]
    /\ did = FALSE
    /\ steps = 0

\* A key runs one command with a mark of its own, if it makes one.
dispatch(line) ==
    /\ Len(line) = 1
    /\ line[1].key
    /\ e' = call(e, line[1].c)

\* Return on the command line runs it.
runcommand(line) ==
    /\ ~line[1].key
    /\ e' = runextended(e, line)

Run(line) ==
    /\ e.running
    /\ steps < MaxSteps
    /\ dispatch(line) \/ runcommand(line)
    /\ did' = (Len(line) = 1 /\ line[1].c.n = "u")
    /\ steps' = steps + 1

Next == \E line \in Lines : Run(line)

Spec == Init /\ [][Next]_vars

-----------------------------------------------------------------------------
(* Properties. *)

\* Every line is text within the line limit unless it was joined, the cursor
\* stands on a line (column free), and a block is in order.
TypeOK ==
    /\ \A i \in 1..N(e) : e.lines[i].id \in 0..Len(Start) /\ e.lines[i].s \in Seq(Char)
    /\ e.p.l \in 1..(IF N(e) = 0 THEN 1 ELSE N(e))
    /\ e.p.c \in Nat
    /\ HasBlock(e) => e.bs <= e.be
    /\ e.dirty \in BOOLEAN /\ e.rc \in BOOLEAN /\ e.running \in BOOLEAN
    /\ steps \in 0..MaxSteps

\* The newest changes of the journal down to the last inserted or deleted
\* line, taken back one after another, give the document as it was before each
\* of them, trailing blanks aside.  U relies on it: a record that covered text
\* of another place, or text it did not insert, would make U destroy text.
JournalReplays ==
    LET base == Below(e.j, {r \in Range(e.j) : ~IsLine(r)})
        back(i) == FoldRight(LAMBDA r, x : IF IsText(r) THEN RevertOne(x, r) ELSE x,
                             SubSeq(e.j, i, Len(e.j)), e)
    IN \A i \in (base + 1)..Len(e.j) :
          IsText(e.j[i]) => writelines(back(i).lines) = e.j[i].was

\* The marked block is the lines the user marked, however many lines have come
\* or gone around it since: DB, WB and FB act on nothing else.  The one
\* exception is a copy (IB) that ran out of room half way.
BlockMarksItsLines == HasBlock(e) /\ ~e.cut => Held(e) = e.held

\* The byte count that "Buffer full" is decided by is the size of the text,
\* through padding, joins, splits and undo.
BytesAreCounted == e.bytes = FoldLeft(LAMBDA n, x : n + Len(x.s) + 1, 0, e.lines)

\* A buffer that is not marked as changed is the one on disk, unless a save
\* has failed: Q asks nothing before it drops it.
CleanIsSaved == ~e.dirty /\ ~e.failed => e.disk = writelines(e.lines)

\* The editor never ends with text that is saved nowhere unless the user said
\* so, as Q's question promises.
EditsLostOnlyIfConfirmed == ~e.running /\ ~e.confirmed => e.disk = writelines(e.lines)

\* U leaves the document alone when the edit group it would undo holds a line
\* operation.
Group(j) ==
    LET top == Unmarked(j)
    IN SubSeq(top, Below(top, {r \in Range(top) : r.a # "MA"}) + 1, Len(top))
UndoIsWhole ==
    [][(did' /\ \E i \in DOMAIN Group(e.j) : IsLine(Group(e.j)[i]))
          => writelines(e'.lines) = writelines(e.lines)]_vars
=============================================================================
