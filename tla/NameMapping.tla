---------------------------- MODULE NameMapping -----------------------------
(***************************************************************************)
(* The AmigaDOS names of host files (src/src/broker.c): map_component()    *)
(* gives a host file an AmigaDOS name, unmap_component() finds the host    *)
(* file from it, name_from_host_with_mappings() and                        *)
(* normalize_mapped_path_beneath() do so for whole paths.  Nothing is      *)
(* stored: a name depends on the host name and on its siblings only.       *)
(*                                                                         *)
(* Soft links, which hold a host path as text: what MakeLink() of          *)
(* src/src/native_dos.c writes into one, what ReadLink() reports of it,    *)
(* and where normalize_amiga_path() takes a path relative to a directory.  *)
(*                                                                         *)
(* A name is a sequence whose elements are characters, <<"a">>, and texts  *)
(* that encode a tail, <<engine, tail>>: "base32" is the literal form, the *)
(* other engines the compressed ones.  That such a text decodes to its     *)
(* tail and to nothing else is what PayloadCodec checks.                   *)
(***************************************************************************)
EXTENDS Naturals, FiniteSets, Sequences, SequencesExt

CONSTANTS
    Paths,                \* the host paths files may have, prefix closed
    Drawer,               \* the drawer a filesystem may be mounted on
    View,                 \* the volume's root in the private device view
    LinkTargets,          \* the paths soft links are made to
    Code(_),              \* a character's byte value
    Fold(_),              \* AmigaDOS's case folding of a character
    PackLength(_),        \* bytes pack39_encode() makes of a tail, 0 if none
    DeflateLength(_),     \* bytes deflate_compress() makes of a tail
    Limit,                \* AMIGA_COMPONENT_LIMIT
    MaxBeside             \* bound: files beside a soft link

VARIABLES
    tree,                 \* host paths that exist
    mounted,              \* another filesystem is mounted on the drawer
    link                  \* the last soft link: its path, where it was to
                          \* lead, and the text MakeLink() wrote

vars == <<tree, mounted, link>>

Entries(d) == {p[Len(p)] : p \in {q \in tree : Len(q) = Len(d) + 1
                                               /\ IsPrefix(d, q)}}

caret == <<"^">>
colon == <<":">>
dot == <<".">>
zero == <<"0">>
IsPayload(c) == Len(c) = 2

(* base32_encoded_length() and dense128_encoded_length(): what a payload   *)
(* of n bytes takes.                                                       *)
base32_encoded_length(n) == (n * 8 + 4) \div 5
dense128_encoded_length(n) == (n * 8 + 6) \div 7

EngineLength(e, t) == IF e = "pack39" THEN PackLength(t) ELSE DeflateLength(t)

(* The width in characters, a payload counted as the text it stands for.   *)
Width(s) ==
    FoldLeft(LAMBDA n, c :
        n + IF ~ IsPayload(c) THEN 1
            ELSE IF c[1] = "base32" THEN base32_encoded_length(Len(c[2]) + 1)
            ELSE dense128_encoded_length(EngineLength(c[1], c[2]) + 1),
        0, s)

Folded(s) == [i \in DOMAIN s |-> IF IsPayload(s[i]) THEN s[i] ELSE Fold(s[i])]

SameName(s, t) == Folded(s) = Folded(t)

(* strcmp(): the lexical order match_existing_case() picks the first by.   *)
Byte(c) == IF IsPayload(c) THEN 0 ELSE Code(c)
Before(s, t) ==
    \E i \in 1 .. Len(t) :
       /\ Len(s) >= i - 1 /\ SubSeq(s, 1, i - 1) = SubSeq(t, 1, i - 1)
       /\ i > Len(s) \/ Byte(s[i]) < Byte(t[i])

FirstOf(S) == CHOOSE s \in S : \A t \in S \ {s} : Before(s, t)

Tail_(s, i) == SubSeq(s, i, Len(s))

(* escape_payload_valid(): the text after a caret spells a payload.        *)
escape_payload_valid(s) ==
    \/ Len(s) = 1 /\ IsPayload(s[1]) /\ s[1][1] = "base32"
    \/ Len(s) = 2 /\ s[1] = zero /\ IsPayload(s[2]) /\ s[2][1] # "base32"

Carets(s) == {i \in DOMAIN s : s[i] = caret /\ escape_payload_valid(Tail_(s, i + 1))}

Least(S) == CHOOSE i \in S : \A j \in S : i <= j

(* first_unspellable_index(), counted from 0; the length when there is     *)
(* none.                                                                   *)
Colons(s) == {i \in DOMAIN s : s[i] = colon}
ColonsOnly(s) == Colons(s)
Unspellable(s) == Colons(s) \cup Carets(s)

first_unspellable_index(s) ==
    IF Unspellable(s) = {} THEN Len(s) ELSE Least(Unspellable(s)) - 1

component_needs_mapping(s) == Width(s) > Limit \/ Unspellable(s) # {}

(* host_case_variant_needs_mapping(): of several spellings of one name     *)
(* only the lexical first keeps it.                                        *)
Variants(d, s) == {t \in Entries(d) : SameName(t, s)}

host_case_variant_needs_mapping(d, s) ==
    Variants(d, s) \ {s} # {} /\ s # FirstOf(Variants(d, s))

(* component_split_point(): up to the first character without a spelling,  *)
(* or the first in which a case variant differs.                           *)
Common(s, t) == CHOOSE n \in 0 .. Len(s) :
                   /\ SubSeq(s, 1, n) = SubSeq(t, 1, n)
                   /\ n = Len(s) \/ n = Len(t) \/ s[n+1] # t[n+1]

SplitAtUnspellable(d, s) == first_unspellable_index(s)
component_split_point(d, s) ==
    Least({first_unspellable_index(s)}
            \cup {Common(s, t) : t \in Variants(d, s) \ {s}})

(***************************************************************************)
(* map_component(): the fixed names, the name itself, the literal escape,  *)
(* the shorter of the compressed ones, or ENAMETOOLONG.                    *)
(***************************************************************************)
TooLong == <<>>

Escape(s, n) == SubSeq(s, 1, n) \o <<caret, <<"base32", Tail_(s, n + 1)>> >>

Squeezed(s, split) ==
    LET n == IF split = Len(s) THEN 0 ELSE split
        t == Tail_(s, n + 1)
        pack == PackLength(t) > 0 /\ ~ DeflateLength(t) < PackLength(t)
        e == IF pack THEN "pack39" ELSE "deflate"
    IN  SubSeq(s, 1, n) \o <<caret, zero, <<e, t>> >>

map_component(d, s) ==
    LET split == component_split_point(d, s)
        literal == Escape(s, split)
        squeezed == Squeezed(s, split)
    IN  CASE s = <<colon>> -> <<dot>>
          [] s = <<colon, colon>> -> <<dot, dot>>
          [] s \notin {<<colon>>, <<colon, colon>>} ->
             IF ~ component_needs_mapping(s)
                  /\ ~ host_case_variant_needs_mapping(d, s) THEN s
             ELSE IF Width(literal) <= Limit THEN literal
             ELSE IF Width(squeezed) <= Limit THEN squeezed
             ELSE TooLong

(* match_existing_case(): the lexical first entry of that name, whatever   *)
(* its case; a name that exists in no spelling stays as it is.             *)
match_existing_case(d, s) ==
    IF Variants(d, s) = {} THEN s ELSE FirstOf(Variants(d, s))

(* unmap_component(): the first caret that opens an escape ends the        *)
(* header.                                                                 *)
unmap_component(d, a) ==
    CASE a = <<dot>> -> <<colon>>
      [] a = <<dot, dot>> -> <<colon, colon>>
      [] a \notin {<<dot>>, <<dot, dot>>} /\ Carets(a) = {} ->
           match_existing_case(d, a)
      [] OTHER -> LET i == Least(Carets(a))
                  IN  SubSeq(a, 1, i - 1) \o a[Len(a)][2]

(***************************************************************************)
(* Paths from the volume's root.                                           *)
(***************************************************************************)
(* name_from_host_with_mappings(): each component against its host parent. *)
name_from_host_with_mappings(p) ==
    LET a == [i \in DOMAIN p |-> map_component(SubSeq(p, 1, i - 1), p[i])]
    IN  IF \E i \in DOMAIN a : a[i] = TooLong THEN TooLong ELSE a

(* normalize_mapped_path(): unmaps each component in the host directory    *)
(* reached so far.                                                         *)
normalize_mapped_path(a) ==
    FoldLeft(LAMBDA d, c : Append(d, unmap_component(d, c)), <<>>, a)

(* within_base_filesystem(): the nearest ancestor that exists must be on   *)
(* the volume's own filesystem.                                            *)
Existing(p) == {n \in 0 .. Len(p) : SubSeq(p, 1, n) \in tree \cup {<<>>}}
Nearest(p) == SubSeq(p, 1, CHOOSE n \in Existing(p) : \A m \in Existing(p) : m <= n)

OnMount(p) == mounted /\ IsPrefix(<<Drawer>>, p)

OnlyIfPresent(p) == ~ (p \in tree /\ OnMount(p))
within_base_filesystem(p) == ~ OnMount(Nearest(p))

Absent == <<>>

normalize_mapped_path_beneath(a) ==
    LET p == normalize_mapped_path(a)
    IN  IF within_base_filesystem(p) THEN p ELSE Absent

(***************************************************************************)
(* Host paths as text.  A host path here is absolute; the ones beneath     *)
(* View are the volume's own objects that a mount covers, which only the   *)
(* device view reaches.  Buffers are taken to be large enough.             *)
(***************************************************************************)
slash == <<"/">>
dotdot == <<dot, dot>>

PathText(p) ==
    IF p = <<>> THEN <<slash>>
    ELSE FlattenSeq([i \in DOMAIN p |-> <<slash>> \o p[i]])

(* What stands between the slashes of a text, nothing included.            *)
Pieces(t) ==
    FoldLeft(LAMBDA ps, c : IF c = slash THEN Append(ps, <<>>)
                            ELSE [ps EXCEPT ![Len(ps)] = Append(@, c)],
             << <<>> >>, t)

IsAbsolute(t) == t # <<>> /\ t[1] = slash

Slashes(n) == [i \in 1 .. n |-> slash]

pop_host_component(d) == IF d = <<>> THEN d ELSE Front(d)

(* normalize_path(): a host path as Linux reads it, from base if relative. *)
normalize_path(base, t) ==
    FoldLeft(LAMBDA d, c : CASE c \in {<<>>, <<dot>>} -> d
                             [] c = dotdot -> pop_host_component(d)
                             [] OTHER -> Append(d, c),
             IF IsAbsolute(t) THEN <<>> ELSE base, Pieces(t))

InView(h) == IsPrefix(View, h)
OnVolume(h) == IF InView(h) THEN SubSeq(h, Len(View) + 1, Len(h)) ELSE h

HostPath(S) == S \cup {View \o p : p \in S}

(* The host paths a broker gives for names in S: the covered ones are      *)
(* looked up a second time, in the device view.                            *)
ResolvedOf(S) == S \cup {View \o p : p \in {q \in S : ~ within_base_filesystem(q)}}

(* ace_dos_devices_volume_root_for_path().                                 *)
ace_dos_devices_volume_root_for_path(h) ==
    IF InView(h) THEN View ELSE IF OnMount(h) THEN <<Drawer>> ELSE <<>>

(***************************************************************************)
(* normalize_amiga_path(): a slash that does not end a component goes up.  *)
(* The host path so reached is walked once more, from the root and as if   *)
(* its components were AmigaDOS names, to see that it is beneath the       *)
(* volume of the current directory; if that volume lost it to a mount, a   *)
(* third time in the device view.                                          *)
(***************************************************************************)
Remapped(h) ==
    IF InView(h) THEN View \o normalize_mapped_path(OnVolume(h))
    ELSE normalize_mapped_path(h)

AmigaPieces(t) ==
    LET ps == Pieces(t) IN IF Last(ps) = <<>> THEN Front(ps) ELSE ps

normalize_amiga_path(cwd, t) ==
    LET first == FoldLeft(LAMBDA d, c :
                    IF c = <<>> THEN pop_host_component(d)
                    ELSE Append(d, unmap_component(OnVolume(d), c)),
                    cwd, AmigaPieces(t))
        floor == ace_dos_devices_volume_root_for_path(cwd)
        second == Remapped(first)
    IN  IF ~ IsPrefix(floor, second) THEN Absent
        ELSE IF floor = <<>> /\ ~ within_base_filesystem(second)
        THEN View \o normalize_mapped_path(second)
        ELSE second

(***************************************************************************)
(* MakeLink() and ReadLink().                                              *)
(***************************************************************************)
(* native_common_directory(): the characters two paths share, back to the  *)
(* end of a component.                                                     *)
CommonText(s, t) == Common(s, t)
native_common_directory(s, t) ==
    LET n == Common(s, t)
        ends(x) == n = Len(x) \/ x[n+1] = slash
        cuts == {i \in 1 .. n : s[i] = slash}
    IN  IF ends(s) /\ ends(t) THEN n
        ELSE IF cuts = {} THEN 0
        ELSE (CHOOSE i \in cuts : \A j \in cuts : j <= i) - 1

(* native_relative_target_for_link(): up once for each component of the    *)
(* link's directory below the shared part, then down the rest of the       *)
(* target; a dot when there is neither.                                    *)
native_relative_target_for_link(l, t) ==
    LET dir == PathText(Front(l))
        common == native_common_directory(dir, PathText(t))
        below == {i \in common + 1 .. Len(dir) : dir[i] = slash}
        ups == [i \in 1 .. Cardinality(below) |-> dotdot]
        downs == SelectSeq(Pieces(Tail_(PathText(t), common + 1)),
                           LAMBDA c : c # <<>>)
        steps == ups \o downs
    IN  IF steps = <<>> THEN <<dot>>
        ELSE steps[1] \o FlattenSeq([i \in 1 .. Len(steps) - 1 |->
                                        <<slash>> \o steps[i+1]])

native_path_is_device_view(h) == IsPrefix(Front(View), h)

(* native_volume_of(): the volume in the path's name, none without a name. *)
Nameless(p) ==
    \E i \in DOMAIN p : map_component(SubSeq(p, 1, i - 1), p[i]) = TooLong

native_volume_of(h) ==
    IF Nameless(OnVolume(h)) THEN {}
    ELSE IF OnMount(h) THEN {"mounted"} ELSE {"volume"}

(* What MakeLink() writes: a relative path within one volume, the absolute *)
(* one between two, nothing where that would name the device view or start *)
(* from it.  A link in the host's root directory has no relative path.     *)
Refused == <<>>
TextForLink(l, t) ==
    IF /\ native_volume_of(l) # {} /\ native_volume_of(l) = native_volume_of(t)
       /\ Len(l) > 1
    THEN native_relative_target_for_link(l, t)
    ELSE IF native_path_is_device_view(l) \/ native_path_is_device_view(t)
    THEN Refused
    ELSE PathText(t)

NoLink == [path |-> <<>>, dest |-> <<>>, text |-> <<>>]

Free(l) == /\ OnVolume(l) \notin tree
           /\ Front(OnVolume(l)) \in tree \cup {<<>>}

Room == Cardinality(tree) <= MaxBeside

MakeLink(l, t) ==
    /\ LET text == TextForLink(l, t)
       IN  IF text = Refused THEN UNCHANGED <<tree, link>>
           ELSE /\ link' = [path |-> l, dest |-> t, text |-> text]
                /\ tree' = tree \cup {OnVolume(l)}
    /\ mounted' = mounted

(* A hard link: within one mount, and never to a directory.                *)
MountOf(h) == <<InView(h), OnMount(h)>>
IsDirectory(p) == \E q \in Paths : q # p /\ IsPrefix(p, q)

MakeHardLink(l, s) ==
    /\ OnVolume(s) \in tree
    /\ IF MountOf(l) # MountOf(s) \/ IsDirectory(OnVolume(s))
       THEN UNCHANGED tree
       ELSE tree' = tree \cup {OnVolume(l)}
    /\ UNCHANGED <<mounted, link>>

(* native_relative_link_target(): dots dropped, each step up a slash of    *)
(* its own, besides the one that ends a component.                         *)
native_relative_link_target(t) ==
    LET Ended(acc) == Slashes(acc.parents + (IF acc.out = <<>> THEN 0 ELSE 1))
        all == FoldLeft(LAMBDA acc, c :
                 CASE c \in {<<>>, <<dot>>} -> acc
                   [] c = dotdot -> [acc EXCEPT !.parents = @ + 1]
                   [] OTHER -> [out |-> acc.out \o Ended(acc) \o c, parents |-> 0],
                 [out |-> <<>>, parents |-> 0], Pieces(t))
    IN  IF all.parents = 0 THEN all.out ELSE all.out \o Ended(all)

(* ReadLink(): the volume and the path the text names; within a volume the *)
(* path is relative to the link's directory.                               *)
ReadLink(t) ==
    IF IsAbsolute(t)
    THEN [volume |-> native_volume_of(normalize_path(<<>>, t)),
          path |-> name_from_host_with_mappings(normalize_path(<<>>, t))]
    ELSE [volume |-> {}, path |-> native_relative_link_target(t)]

(***************************************************************************)
(* PathPart(), FilePart() and AddPart(): how a program takes an AmigaDOS   *)
(* path apart and joins two.                                               *)
(***************************************************************************)
Seams(t) == {i \in DOMAIN t : t[i] \in {slash, colon}}
LastSeam(t) == IF Seams(t) = {} THEN 0 ELSE CHOOSE i \in Seams(t) : \A j \in Seams(t) : j <= i
Leading(t) == CHOOSE n \in 0 .. Len(t) :
                 /\ \A i \in 1 .. n : t[i] = slash
                 /\ n < Len(t) => t[n+1] # slash

FilePart(t) == Tail_(t, LastSeam(t) + 1)

PathPart(t) ==
    LET i == LastSeam(t)
    IN  IF i <= Leading(t) THEN SubSeq(t, 1, Leading(t))
        ELSE SubSeq(t, 1, IF t[i] = slash THEN i - 1 ELSE i)

AddPart(d, f) ==
    IF Colons(f) = {}
    THEN d \o (IF d = <<>> \/ Last(d) \in {slash, colon} THEN <<>> ELSE <<slash>>) \o f
    ELSE IF f[1] = colon /\ Colons(d) # {} THEN SubSeq(d, 1, Least(Colons(d)) - 1) \o f
    ELSE f

-----------------------------------------------------------------------------
(* The host side: files come and go, a filesystem is mounted and taken     *)
(* off again.  A link beneath the drawer goes out of sight with that; the  *)
(* files beneath it have the same names on both filesystems.               *)
Create(p) ==
    /\ p \notin tree
    /\ SubSeq(p, 1, Len(p) - 1) \in tree \cup {<<>>}
    /\ link # NoLink => Room
    /\ tree' = tree \cup {p}
    /\ UNCHANGED <<mounted, link>>

Delete(p) ==
    /\ p \in tree
    /\ \A q \in tree : q # p => ~ IsPrefix(p, q)
    /\ p = <<Drawer>> => ~ mounted
    /\ tree' = tree \ {p}
    /\ link' = IF OnVolume(link.path) = p THEN NoLink ELSE link
    /\ mounted' = mounted

Mount ==
    /\ <<Drawer>> \in tree
    /\ mounted' = ~ mounted
    /\ link' = IF IsPrefix(<<Drawer>>, OnVolume(link.path)) THEN NoLink ELSE link
    /\ tree' = tree

Init == tree = {} /\ mounted = FALSE /\ link = NoLink
Next ==
    \/ \E p \in Paths : Create(p) \/ Delete(p)
    \/ Mount
    \/ /\ Room /\ link = NoLink
       /\ \E l \in {h \in ResolvedOf(Paths) : Free(h)} :
          \/ \E t \in ResolvedOf(LinkTargets) : MakeLink(l, t)
          \/ \E s \in ResolvedOf(Paths) : MakeHardLink(l, s)
Spec == Init /\ [][Next]_vars

-----------------------------------------------------------------------------
TypeOK ==
    /\ tree \subseteq Paths /\ mounted \in BOOLEAN
    /\ link # NoLink => /\ link.path \in ResolvedOf(Paths)
                       /\ link.dest \in HostPath(LinkTargets)

(* Every file that has an AmigaDOS name is found again by that name, in    *)
(* every directory and beside any siblings: case variants of it, names     *)
(* that spell the escape of another, names over the limit.  Across a mount *)
(* the name is absent from this volume, whether the file is there or not.  *)
FoundByItsName ==
    \A p \in {q \in Paths : q \in tree \/ OnMount(q)} :
       LET a == name_from_host_with_mappings(p)
       IN  /\ p \in tree /\ a # TooLong =>
                normalize_mapped_path_beneath(a) = IF OnMount(p) THEN Absent ELSE p
           /\ OnMount(p) /\ a # TooLong => normalize_mapped_path_beneath(a) = Absent

(* No two files of a directory share an AmigaDOS name, upper and lower     *)
(* case being one, and no name is wider than a FileInfoBlock component.    *)
NamesTellFilesApart ==
    \A d \in {<<>>} \cup tree :
       LET shown == [n \in Entries(d) |-> map_component(d, n)]
           named == {n \in Entries(d) : shown[n] # TooLong}
       IN  \A n \in named :
             /\ Width(shown[n]) <= Limit
             /\ \A m \in named \ {n} : ~ SameName(shown[m], shown[n])

(* A soft link leads where it was made to lead: for Linux, which follows   *)
(* the text MakeLink() wrote from the link's directory, and for a program  *)
(* that has ReadLink()'s answer resolved in that directory, or joined to   *)
(* the path part of the link's name by AddPart() and resolved in the root. *)
(* The second is of links and targets whose host names are their AmigaDOS  *)
(* names, since neither ReadLink() nor the second walk of                  *)
(* normalize_amiga_path() maps them, and while both have one volume root:  *)
(* a mount that covers one of the two leaves them one volume with two      *)
(* roots, which MakeLink() does not tell from one.                         *)
OneRoot(h, k) ==
    ace_dos_devices_volume_root_for_path(h) = ace_dos_devices_volume_root_for_path(k)
InsideVolume(h) == SubSeq(h, Len(ace_dos_devices_volume_root_for_path(h)) + 1, Len(h))
SelfNamed(h) ==
    Remapped(h) = h /\ name_from_host_with_mappings(OnVolume(h)) = OnVolume(h)

LinkLeadsToItsTarget ==
    link # NoLink =>
       LET dir == Front(link.path)
           root == ace_dos_devices_volume_root_for_path(dir)
           name == Tail(PathText(InsideVolume(link.path)))
           answer == ReadLink(link.text)
       IN  /\ normalize_path(dir, link.text) = link.dest
           /\ IsAbsolute(link.text) /\ answer.volume = {"volume"}
                => normalize_mapped_path_beneath(answer.path) = link.dest
           /\ /\ ~ IsAbsolute(link.text)
              /\ SelfNamed(link.dest) /\ SelfNamed(link.path)
              /\ OneRoot(dir, link.dest)
              => /\ normalize_amiga_path(dir, answer.path) = link.dest
                 /\ AddPart(PathPart(name), FilePart(name)) = name
                 /\ normalize_amiga_path(root, AddPart(PathPart(name), answer.path))
                      = link.dest

(* What a link says stays true when its volume is mounted elsewhere: an    *)
(* absolute text never names the session's device view, and a relative one *)
(* between two objects of one root is a route from any place that root may *)
(* have.                                                                   *)
LinksMoveWithTheirVolume ==
    link # NoLink =>
       LET dir == Front(link.path)
       IN  /\ IsAbsolute(link.text) =>
                ~ native_path_is_device_view(link.path) /\ ~ native_path_is_device_view(link.dest)
           /\ /\ ~ IsAbsolute(link.text)
              /\ OneRoot(dir, link.dest)
              => normalize_path(View \o InsideVolume(dir), link.text)
                   = View \o InsideVolume(link.dest)
=============================================================================
