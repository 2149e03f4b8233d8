----------------------------- MODULE MCSessions -----------------------------
(***************************************************************************)
(* BrokerSessions and what a session holds, one component per behaviour,   *)
(* for TLC: its assigns and paths (SessionAssigns), the names of its files *)
(* (NameMapping, PayloadCodec), and DOS's lookup through an assign         *)
(* (DosLookup). There are fewer slots than session names, so the table     *)
(* fills and sessions are reclaimed.                                       *)
(***************************************************************************)
EXTENDS BrokerSessions, Sequences, TLC

VARIABLES
    part,       \* the component this behaviour is of
    x1, x2, x3, x4, x5, x6, x7, x8

\* The variables a component of fewer than k leaves unused.
Unused(k) ==
    /\ (IF k < 1 THEN x1 = 0 ELSE TRUE)
    /\ (IF k < 2 THEN x2 = 0 ELSE TRUE)
    /\ (IF k < 3 THEN x3 = 0 ELSE TRUE)
    /\ (IF k < 4 THEN x4 = 0 ELSE TRUE)
    /\ (IF k < 5 THEN x5 = 0 ELSE TRUE)
    /\ (IF k < 6 THEN x6 = 0 ELSE TRUE)
    /\ (IF k < 7 THEN x7 = 0 ELSE TRUE)
    /\ (IF k < 8 THEN x8 = 0 ELSE TRUE)
Still(k) ==
    /\ (IF k < 1 THEN UNCHANGED x1 ELSE TRUE)
    /\ (IF k < 2 THEN UNCHANGED x2 ELSE TRUE)
    /\ (IF k < 3 THEN UNCHANGED x3 ELSE TRUE)
    /\ (IF k < 4 THEN UNCHANGED x4 ELSE TRUE)
    /\ (IF k < 5 THEN UNCHANGED x5 ELSE TRUE)
    /\ (IF k < 6 THEN UNCHANGED x6 ELSE TRUE)
    /\ (IF k < 7 THEN UNCHANGED x7 ELSE TRUE)
    /\ (IF k < 8 THEN UNCHANGED x8 ELSE TRUE)

pool == <<x1, x2, x3, x4, x5, x6, x7, x8>>
allvars == <<part, vars, pool>>

\* A drawer of the volume is the sequence of its names; a target's text is a
\* volume or assign name, the parents it climbs, and a relative path.
Text(v, u, r) == [vol |-> v, up |-> u, rel |-> r]
MCTexts ==
    {Text("", 0, <<>>), Text("", 0, <<"d">>), Text("", 1, <<>>),
     Text(":", 0, <<"w">>), Text("Vol", 0, <<"w">>), Text("X", 0, <<>>),
     Text("C", 0, <<>>), Text("CLIPS", 0, <<>>)}

\* Names that fold together, that DOS cannot spell, that already look encoded,
\* and one too long to keep, which compresses.
Bytes == <<"0", ":", "A", "B", "^", "a", "b">>
Word(t) == [i \in DOMAIN t |-> <<t[i]>>]
Word2(c, d) == <<Word(<<c, d>>)>>
Long(c) == [i \in 1..13 |-> <<c>>]
MCCode(c) == CHOOSE i \in DOMAIN Bytes : Bytes[i] = c[1]
MCFold(c) == CASE c = <<"a">> -> <<"A">> [] c = <<"b">> -> <<"B">> [] OTHER -> c
MCHostNames ==
    {Word(<<"a", "b">>), Word(<<"A", "b">>), Word(<<"A", "B">>),
     Word(<<"a", ":">>), Word(<<"A", ":">>),
     <<<<"a">>, <<"^">>, <<"base32", <<<<":">>>>>>>>, Word(<<"a", "^", "a">>),
     Long("a")}
\* Two drawers whose names are one to DOS; soft links to what is in them, to
\* the root, to files whose paths begin like a drawer's, and to one whose name
\* is too long even compressed.
MCPaths ==
    {<<n>> : n \in MCHostNames}
      \cup {Word2("a", "b") \o <<n>> : n \in {Word(<<"a", ":">>), Word(<<"A">>)}}
      \cup {Word2("A", "b") \o n : n \in {<<Word(<<"A">>)>>, <<Word(<<"A">>), Word(<<"a">>)>>}}
MCLinkTargets ==
    {<<>>, <<Word(<<"A">>)>>, <<Word(<<"A", "b", "b">>)>>,
     Word2("a", "b"), Word2("a", "b") \o <<Word(<<"A">>)>>,
     Word2("A", "b"), Word2("A", "b") \o <<Word(<<"A">>)>>,
     Word2("A", "b") \o <<Word(<<"A">>), Word(<<"a">>)>>,
     Word2("A", "b") \o <<Word(<<"A", ":">>)>>, <<Long("b")>>}
MCPack(t) ==
    IF \E i \in DOMAIN t : Len(t[i]) = 2 \/ t[i][1] \notin {"a", "b", "0"}
    THEN 0 ELSE Len(t) + 1
MCDeflate(t) == IF t = Long("a") THEN 4 ELSE 14

MCSymbols == [b \in {5, 7} |-> {0, 1, 2^(b - 1), 2^b - 1}]

\* A volume with two drawers, one nested; two assigns of two targets.
Assigns == INSTANCE SessionAssigns WITH
    Universe <- {<<>>, <<"c">>, <<"w">>, <<"w", "d">>}, ClipsDir <- <<"w">>,
    Boot <- [n \in {"C"} |-> <<"c">>], Names <- {"C", "X", "Vol"},
    Texts <- MCTexts, Volume <- "Vol", Clips <- "CLIPS", MaxAssigns <- 2,
    MaxTargets <- 2, MaxPaths <- 1, MaxOps <- 3, dirs <- x1, cwd <- x2,
    assigns <- x3, paths <- x4, up <- x5, ops <- x6

\* Names of at most twelve characters; soft links beside up to two files.
Names == INSTANCE NameMapping WITH
    Paths <- MCPaths, LinkTargets <- MCLinkTargets, MaxBeside <- 2,
    Drawer <- Word(<<"a", "b">>), View <- <<Word(<<"0">>), Word(<<"a">>)>>,
    Code <- MCCode, Fold <- MCFold,
    PackLength <- MCPack, DeflateLength <- MCDeflate, Limit <- 12,
    tree <- x1, mounted <- x2, link <- x3

\* Payloads of up to four bytes, five symbols, six characters.
Codec == INSTANCE PayloadCodec WITH
    SampleSymbol <- MCSymbols, SampleByte <- {0, 1, 2, 39, 128, 255},
    SampleChar <- {0, 1, 38}, MaxBytes <- 4, MaxSymbols <- 5, MaxChars <- 6,
    bits <- x1, data <- x2, text <- x3, chars <- x4

\* An assign of up to three targets, changed by another process.
Found == INSTANCE DosLookup WITH
    Target <- {"a", "b", "c"}, MaxTargets <- 3, MaxChanges <- 4,
    targets <- x1, present <- x2, obj <- x3, loaded <- x4, head <- x5,
    rest <- x6, fresh <- x7, changes <- x8

\* The components share no state here, so each behaviour is of one of them.
MCInit ==
    /\ Init
    /\ \/ part = "sessions" /\ Unused(0)
       \/ part = "assigns" /\ Assigns!Init /\ Unused(6)
       \/ part = "names" /\ Names!Init /\ Unused(3)
       \/ part = "codec" /\ Codec!Init /\ Unused(4)
       \/ part = "lookup" /\ Found!Init /\ Unused(8)

MCNext ==
    /\ UNCHANGED part
    /\ \/ part = "sessions" /\ Next /\ Still(0)
       \/ part = "assigns" /\ Assigns!Next /\ UNCHANGED vars /\ Still(6)
       \/ part = "names" /\ Names!Next /\ UNCHANGED vars /\ Still(3)
       \/ part = "codec" /\ Codec!Next /\ UNCHANGED vars /\ Still(4)
       \/ part = "lookup" /\ Found!Next /\ UNCHANGED vars /\ Still(8)

MCSpec == MCInit /\ [][MCNext]_allvars

\* Every component keeps to its types.
TypesOK ==
    /\ TypeOK
    /\ part = "assigns" => Assigns!TypeOK
    /\ part = "names" => Names!TypeOK
    /\ part = "lookup" => Found!TypeOK


\* A name that is asked for is resolved.  A session's name finds a slot while
\* one is unclaimed (get_session()); an assign leads on for ever only through
\* one that was deferred (EndlessOnlyByDeferral of SessionAssigns); and Lock
\* and Open, which walk the targets of an assign by different code, find what
\* any of the targets has (LockSeesEveryTarget, OpenFindsWhatLockFinds of
\* DosLookup).
NamesResolve ==
    /\ part = "sessions" => RoomWhileUnclaimed
    /\ part = "assigns" => Assigns!EndlessOnlyByDeferral
    /\ part = "lookup" => Found!LockSeesEveryTarget /\ Found!OpenFindsWhatLockFinds

\* An assign bound to a directory leads to the same place while the assigns and
\* the directories are what they were, whatever else the session does: changing
\* its current directory, its boot assigns or its paths (BoundAssignsStandStill
\* of SessionAssigns).
BoundAssignsStandStill == [][part = "assigns" => Assigns!StandsStill]_allvars
=============================================================================
