------------------------------ MODULE IffClip ------------------------------
(***************************************************************************)
(* The IFF stream a clip is written and read as.  src/iffparse_clipboard.c *)
(* writes it chunk by chunk, going back to fill in the length of a chunk   *)
(* pushed with IFFSIZE_UNKNOWN, and parses it whole when it is opened for  *)
(* reading; src/clipboard_bridge.c takes the text out of it for the host   *)
(* with a scanner of its own; src/acepaste.c and the console's paste       *)
(* (src/amiga_console.c) read the chunks through a fixed buffer.           *)
(*                                                                         *)
(* A stream is a sequence of numbers.  An id or a length takes two cells   *)
(* here instead of four bytes: what counts is that both are even.          *)
(***************************************************************************)
EXTENDS Integers, Sequences, SequencesExt

CONSTANTS MaxCalls, MaxDepth, Buffer

FORM == 1
LIST == 2
CHRS == 3
MISC == 4      \* any other chunk
FTXT == 5
PICT == 6       \* any other type
Unknown == -1
is_composite(id) == id \in {FORM, LIST}
ID(id) == <<id, 0>>
Length(n) == <<0, n>>

VARIABLES
    stream, stack,     \* what CMD_WRITE has stored; the chunks still open
    closed, calls,
    events, text,      \* history: chunks entered and left; text written
    full, flat         \* every sized chunk was filled; nothing nested

vars == <<stream, stack, closed, calls, events, text, full, flat>>

Init == /\ stream = <<>> /\ stack = <<>> /\ closed = FALSE /\ calls = 0
        /\ events = <<>> /\ text = <<>> /\ full = TRUE /\ flat = TRUE

Top == stack[Len(stack)]
TypeOf(id, type) == IF is_composite(id) THEN type
                    ELSE IF stack = <<>> THEN 0 ELSE Top.type

\* PushChunk writes the header.  Its callers write one outermost chunk, and
\* containers only inside containers; the code itself refuses the rest.
PushChunk(id, type, size) ==
    /\ ~closed /\ calls < MaxCalls /\ calls' = calls + 1
    /\ Len(stack) < MaxDepth
    /\ stack = <<>> => is_composite(id) /\ stream = <<>>
    /\ stack # <<>> => is_composite(Top.id)
    /\ stack # <<>> /\ ~is_composite(id) => Top.id = FORM
    /\ stream' = stream \o ID(id)
                        \o Length(IF size = Unknown THEN 0 ELSE size)
                        \o (IF is_composite(id) THEN ID(type) ELSE <<>>)
    /\ stack' = Append(stack, [id |-> id, type |-> TypeOf(id, type),
                               size |-> size, header |-> Len(stream),
                               scan |-> IF is_composite(id) THEN 2 ELSE 0])
    /\ events' = Append(events, <<id, TypeOf(id, type), 1>>)
    /\ flat' = (flat /\ (stack = <<>> \/ ~is_composite(id)))
    /\ UNCHANGED <<closed, text, full>>

\* WriteChunkBytes, cut short by the size the chunk was announced with.
WriteChunkBytes(n) ==
    /\ ~closed /\ stack # <<>> /\ ~is_composite(Top.id)
    /\ calls < MaxCalls /\ calls' = calls + 1
    /\ LET amount == IF Top.size = Unknown \/ n <= Top.size - Top.scan THEN n
                     ELSE Top.size - Top.scan
           data == [i \in 1..amount |-> calls'] IN
       /\ stream' = stream \o data
       /\ stack' = [stack EXCEPT ![Len(stack)].scan = @ + amount]
       /\ text' = IF Top.id = CHRS /\ Top.type = FTXT THEN text \o data ELSE text
    /\ UNCHANGED <<closed, events, full, flat>>

ContentsOnly(size) == 4 + size
Occupied(size) == 4 + size + (size % 2)    \* a child in its parent's length

Patched(s, header, size) ==
    [i \in DOMAIN s |-> IF i = header + 3 THEN Length(size)[1]
                        ELSE IF i = header + 4 THEN Length(size)[2] ELSE s[i]]

\* PopChunk: fill in an unknown length, pad to even, count for the parent.
Popped(w) ==
    LET top == w.stack[Len(w.stack)]
        size == IF top.size = Unknown THEN top.scan ELSE top.size
        s == IF top.size = Unknown THEN Patched(w.stream, top.header, size)
             ELSE w.stream
        rest == Front(w.stack)
    IN [stream |-> IF size % 2 = 1 THEN Append(s, 0) ELSE s,
        stack |-> IF rest = <<>> THEN rest
                  ELSE [rest EXCEPT ![Len(rest)].scan = @ + Occupied(size)],
        full |-> w.full /\ top.scan = size,
        events |-> Append(w.events, <<top.id, top.type, 0>>)]
RECURSIVE PoppedAll(_)
PoppedAll(w) == IF w.stack = <<>> THEN w ELSE PoppedAll(Popped(w))

Writer == [stream |-> stream, stack |-> stack, full |-> full, events |-> events]
Becomes(w) == /\ stream' = w.stream /\ stack' = w.stack
              /\ full' = w.full /\ events' = w.events

PopChunk ==
    /\ ~closed /\ stack # <<>>
    /\ Becomes(Popped(Writer))
    /\ UNCHANGED <<closed, calls, text, flat>>

\* CloseIFF pops what is still open, then updates the clipboard.
CloseIFF ==
    /\ ~closed /\ stream # <<>> /\ closed' = TRUE
    /\ Becomes(PoppedAll(Writer))
    /\ UNCHANGED <<calls, text, flat>>

Next ==
    \/ \E id \in {FORM, LIST, CHRS, MISC}, size \in {Unknown, 1} :
         \E type \in IF is_composite(id) THEN {FTXT, PICT} ELSE {0} :
           (is_composite(id) => size = Unknown) /\ PushChunk(id, type, size)
    \/ \E n \in 1..2 : WriteChunkBytes(n)
    \/ PopChunk \/ CloseIFF
Spec == Init /\ [][Next]_vars

\* ---- Reading

Mangled == [ok |-> FALSE, next |-> 0, events |-> <<>>, chunks |-> <<>>]

\* parse_chunk(offset, limit, parent_type); offsets count from 0.
RECURSIVE parse_chunk(_, _, _, _), parse_children(_, _, _, _)
parse_chunk(s, offset, limit, parent) ==
    IF limit - offset < 4 THEN Mangled ELSE
    LET id == s[offset + 1]
        size == s[offset + 4]
        payload == offset + 4
        end == payload + size
        aligned == end + (size % 2)
        type == s[payload + 1]
    IN IF size > limit - payload \/ aligned > limit THEN Mangled
       ELSE IF ~is_composite(id)
       THEN [ok |-> TRUE, next |-> aligned,
             events |-> <<<<id, parent, 1>>, <<id, parent, 0>>>>,
             chunks |-> <<[id |-> id, type |-> parent,
                           data |-> SubSeq(s, payload + 1, end)]>>]
       ELSE IF size < 2 THEN Mangled
       ELSE LET body == parse_children(s, payload + 2, end, type)
            IN IF ~body.ok THEN Mangled
               ELSE [ok |-> TRUE, next |-> aligned,
                     events |-> <<<<id, type, 1>>>> \o body.events
                                  \o <<<<id, type, 0>>>>,
                     chunks |-> body.chunks]
parse_children(s, offset, end, type) ==
    IF offset >= end
    THEN [Mangled EXCEPT !.ok = (offset = end)]
    ELSE LET first == parse_chunk(s, offset, end, type)
             rest == parse_children(s, first.next, end, type)
         IN IF ~first.ok \/ ~rest.ok THEN Mangled
            ELSE [ok |-> TRUE, next |-> rest.next,
                  events |-> first.events \o rest.events,
                  chunks |-> first.chunks \o rest.chunks]
load_clipboard(s) ==
    LET p == parse_chunk(s, 0, Len(s), 0)
    IN IF is_composite(s[1]) /\ p.ok /\ p.next = Len(s) THEN p ELSE Mangled

\* ReadChunkBytes answers at most what size - scan leaves.
ReadChunkBytes(size, scan, wanted) ==
    IF scan > size THEN -1
    ELSE IF wanted < size - scan THEN wanted ELSE size - scan

\* The read loop of get_clip and read_clipboard_text, over one chunk: they
\* count the chunk's own size down as they go.
RECURSIVE get_chunk(_, _, _)
get_chunk(data, size, scan) ==
    IF size = 0 THEN [ok |-> TRUE, text |-> <<>>]
    ELSE LET wanted == IF size > Buffer THEN Buffer ELSE size
             actual == ReadChunkBytes(size, scan, wanted)
             rest == get_chunk(data, size - actual, scan + actual)
         IN IF actual # wanted THEN [ok |-> FALSE, text |-> <<>>]
            ELSE [ok |-> rest.ok,
                  text |-> SubSeq(data, scan + 1, scan + actual) \o rest.text]
RECURSIVE get_chunks(_)
get_chunks(chunks) ==
    IF chunks = <<>> THEN [ok |-> TRUE, text |-> <<>>]
    ELSE LET one == get_chunk(Head(chunks).data, Len(Head(chunks).data), 0)
             rest == get_chunks(Tail(chunks))
         IN [ok |-> one.ok /\ rest.ok, text |-> one.text \o rest.text]

IsTextChunk(chunk) == chunk.type = FTXT /\ chunk.id = CHRS   \* is_stopped
get_clip(s) == get_chunks(SelectSeq(load_clipboard(s).chunks, IsTextChunk))

\* clipboard_bridge.c: the host's text, by its own walk over the top level.
Unpadded(end, size) == end
Aligned(end, size) == end + (size % 2)
RECURSIVE Walk(_, _)
Walk(s, position) ==
    IF position >= Len(s)
    THEN [ok |-> position = Len(s), found |-> FALSE, text |-> <<>>]
    ELSE IF Len(s) - position < 4 \/ s[position + 4] > Len(s) - position - 4
    THEN [ok |-> FALSE, found |-> FALSE, text |-> <<>>]
    ELSE LET end == position + 4 + s[position + 4]
             rest == Walk(s, Aligned(end, s[position + 4]))
             here == s[position + 1] = CHRS
         IN [ok |-> rest.ok, found |-> here \/ rest.found,
             text |-> (IF here THEN SubSeq(s, position + 5, end) ELSE <<>>)
                      \o rest.text]
extract_text(s) ==
    LET body == Walk(s, 6)
        ok == /\ s[1] = FORM /\ s[4] >= 2 /\ s[4] + 4 <= Len(s) /\ s[5] = FTXT
              /\ body.ok /\ body.found
    IN [ok |-> ok, text |-> IF ok THEN body.text ELSE <<>>]

\* The clip the bridge stores for text copied on the host.
make_text_clip(t) ==
    LET padding == Len(t) % 2
    IN ID(FORM) \o Length(6 + Len(t) + padding) \o ID(FTXT)
         \o ID(CHRS) \o Length(Len(t)) \o t \o [i \in 1..padding |-> 0]

TypeOK ==
    /\ \A i \in DOMAIN stream : stream[i] \in Nat
    /\ Len(stack) <= MaxDepth /\ calls \in 0..MaxCalls
    /\ {closed, full, flat} \subseteq BOOLEAN

\* What PushChunk, WriteChunkBytes and PopChunk wrote parses, to the same
\* chunks nested the same way: every patched length, every pad byte and every
\* parent's count of its children agrees with what parse_chunk expects.
WrittenParses ==
    closed /\ full => /\ load_clipboard(stream).ok
                      /\ load_clipboard(stream).events = events

\* The host is given the text an Amiga reader would see: the bridge's walk
\* over a flat FORM FTXT collects the very bytes that were written to CHRS.
\* Text the host copied is read back by every one of the three.
HostTextIsTheText ==
    /\ closed /\ full /\ flat /\ stream[1] = FORM /\ stream[5] = FTXT =>
           LET found == \E i \in DOMAIN events : events[i][1] = CHRS
           IN extract_text(stream) = [ok |-> found, text |-> text]
    /\ closed => LET clip == make_text_clip(text)
                 IN /\ extract_text(clip) = [ok |-> TRUE, text |-> text]
                    /\ load_clipboard(clip).chunks
                         = <<[id |-> CHRS, type |-> FTXT, data |-> text]>>

\* Reading a text clip gives its text, however long its chunks are: what
\* acepaste and the console's paste collect is what was written to CHRS.
ReadsWholeText ==
    closed /\ full => get_clip(stream) = [ok |-> TRUE, text |-> text]
=============================================================================
