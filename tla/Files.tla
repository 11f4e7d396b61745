------------------------------- MODULE Files -------------------------------
(***************************************************************************)
(* The file tools (tools/files.py): edit with its matching pipeline, write, *)
(* read with its window, over the three transports - the host's own files, *)
(* the bind mount of docker and the remote file system of modal - and the  *)
(* output of a command as bash shows it (tools/bash.py).                   *)
(*                                                                         *)
(* One approved call on one file.  A text is a sequence of characters: "N" *)
(* is a line feed, "R" a carriage return, " " any other white space.       *)
(***************************************************************************)
EXTENDS Truncate, Integers, FiniteSets

CONSTANTS Bodies, Olds, News,   \* texts of a file, of old_string and new_string
          Windows,              \* what read is asked for: [offset, limit]
          Caps                  \* max_output_lines and max_output_bytes: <<lines, bytes>>

ASSUME FilesAssumption ==
    /\ Bodies \subseteq Seq(STRING) /\ Olds \subseteq Seq(STRING) /\ News \subseteq Seq(STRING)
    /\ Windows \subseteq [offset : Int, limit : Int]
    /\ Caps \subseteq Nat \X Nat

NoLimit == 9999

Blank(c) == c \in {" ", "N", "R"}

\* The numbers of S in order: the k-th is the one that k of them do not exceed.
Ascending(S) == [k \in 1 .. Cardinality(S) |-> CHOOSE i \in S : Cardinality({j \in S : j <= i}) = k]

\* The elements of t at the positions in S, in order.
Pick(t, S) == [k \in 1 .. Cardinality(S) |-> t[Ascending(S)[k]]]

\* _to_lf: CRLF and a lone CR become LF, so that the LF behind a CR adds none of its own.
ToLf(t) ==
    FlattenSeq([i \in DOMAIN t |-> IF i > 1 /\ t[i - 1] = "R" /\ t[i] = "N" THEN <<>>
                                   ELSE IF t[i] = "R" THEN <<"N">> ELSE <<t[i]>>])

\* Where n occurs in t, overlaps included.
At(n, t) == {i \in 1 .. Len(t) - Len(n) + 1 : SubSeq(t, i, i + Len(n) - 1) = n}

\* _detect_eol: CRLF first, then CR.
DetectEol(t) ==
    CASE At(<<"R", "N">>, t) # {}                            -> <<"R", "N">>
      [] At(<<"R", "N">>, t) = {} /\ At(<<"R">>, t) # {}     -> <<"R">>
      [] OTHER                                               -> <<"N">>

\* Every line feed written as eol.
WithEol(t, eol) == FlattenSeq([i \in DOMAIN t |-> IF t[i] = "N" THEN eol ELSE <<t[i]>>])

\* str.count is more than one: it counts an occurrence that begins behind another, never
\* one that overlaps it.
Several(n, t) == \E i, j \in At(n, t) : i + Len(n) <= j

\* _normalize_ws: runs of white space become one, the ends lose theirs.
Normalize(t) ==
    LET kept == {i \in DOMAIN t : \/ ~Blank(t[i])
                                  \/ /\ i > 1 /\ ~Blank(t[i - 1])
                                     /\ \E j \in i .. Len(t) : ~Blank(t[j])}
    IN  [k \in DOMAIN Pick(t, kept) |-> IF Blank(Pick(t, kept)[k]) THEN " " ELSE Pick(t, kept)[k]]

\* The spans of t between two characters that are n up to white space.
FuzzySpans(n, t) ==
    LET solid == {i \in DOMAIN t : ~Blank(t[i])}
    IN  IF Normalize(n) = <<>> THEN {}
        ELSE {s \in solid \X solid : s[1] <= s[2] /\ Normalize(SubSeq(t, s[1], s[2])) = Normalize(n)}

\* _minimal_spans: the shortest of those that start together.
MinimalSpans(spans) == {s \in spans : \A r \in spans : r[1] = s[1] => s[2] <= r[2]}

\* _replace_unique: the span edit replaces, or none when it refuses: the one
\* occurrence, and without any the one fuzzy span.
Span(n, t) ==
    LET exact == At(n, t)
        fuzzy == MinimalSpans(FuzzySpans(n, t))
    IN  CASE exact = {} -> IF Cardinality(fuzzy) = 1 THEN fuzzy ELSE {}
          [] Several(n, t) -> {}
          [] OTHER -> {<<Min(exact), Min(exact) + Len(n) - 1>>}

Splice(t, s, new) == SubSeq(t, 1, s[1] - 1) \o new \o SubSeq(t, s[2] + 1, Len(t))

\* Fault: the text goes back with the line feeds it was matched with.
ApplyEditLf(t, s, new) == Splice(ToLf(t), s, ToLf(new))

\* _apply_edit, once the span is found: the line ends of the file come back.
ApplyEdit(t, s, new) == WithEol(Splice(ToLf(t), s, ToLf(new)), DetectEol(t))

\* The lines of t without their ends, as splitlines() gives them.
LinesOf(t) ==
    LET u    == ToLf(t)
        ends == {i \in DOMAIN u : u[i] = "N" \/ i = Len(u)}
        from(i) == Max({0} \union {j \in ends : j < i}) + 1
    IN  [k \in 1 .. Cardinality(ends) |->
            LET e == Ascending(ends)[k]
            IN  SubSeq(u, from(e), IF u[e] = "N" THEN e - 1 ELSE e)]

\* _number_lines: the lines from start on, at most limit, each behind its number
\* and a tab, joined by line feeds.
Numbered(t, start, limit) ==
    LET size == Min({limit, Len(LinesOf(t)) - start + 1})
    IN  [k \in 1 .. size |-> [size |-> 2 + Len(LinesOf(t)[start + k - 1]) + (IF k < size THEN 1 ELSE 0),
                              feed |-> k < size]]

\* What a command wrote, cut where splitlines cuts: at a lone CR too.
Streamed(t) ==
    LET ends == {i \in DOMAIN t : \/ t[i] = "N" \/ i = Len(t)
                                  \/ t[i] = "R" /\ t[i + 1] # "N"}
        from(i) == Max({0} \union {j \in ends : j < i}) + 1
    IN  [k \in 1 .. Cardinality(ends) |->
            LET e == Ascending(ends)[k] IN [size |-> e - from(e) + 1, feed |-> t[e] = "N"]]

-----------------------------------------------------------------------------
VARIABLES
    op,     \* the tool and its arguments
    via,    \* "host", "docker" or "modal"
    file,   \* the file when the tool starts: [bom, body], or Missing
    disk,   \* the file now; Torn while its bytes are being put there
    temp,   \* the sibling temporary file: None, Torn or the new file
    final,  \* what is to be saved
    shown,  \* the text of the answer and how many of its lines are kept
    stage

filesVars == <<op, via, file, disk, temp, final, shown, stage>>

Missing == [bom |-> FALSE, body |-> <<"missing">>]
Torn    == [bom |-> FALSE, body |-> <<"torn">>]
None    == [bom |-> FALSE, body |-> <<"none">>]

FileCalls ==
    [tool : {"edit"}, old : Olds, new : News]
      \union [tool : {"write"}, new : News]
      \union [tool : {"read"}, window : Windows, caps : Caps]
      \union [tool : {"bash"}, caps : Caps]

FilesInit ==
    /\ op \in FileCalls
    /\ via \in {"host", "docker", "modal"}
    /\ file \in {Missing} \union [bom : BOOLEAN, body : Bodies]
    /\ op.tool \in {"read", "bash"} => via = "host" /\ ~file.bom
    /\ op.tool = "bash" => file # Missing
    /\ disk = file /\ temp = None /\ final = None
    /\ shown = [text |-> <<>>, kept |-> 0] /\ stage = "start"

Edited == Span(ToLf(op.old), ToLf(file.body))

\* edit: read, match, and have the text to save; or refuse and leave it alone.
Edit ==
    /\ stage = "start" /\ op.tool = "edit"
    /\ \/ /\ op.old = <<>> \/ file = Missing \/ Edited = {}
          /\ stage' = "refused" /\ UNCHANGED final
       \/ /\ op.old # <<>> /\ file # Missing
          /\ \E s \in Edited :
               final' = [bom |-> file.bom, body |-> ApplyEdit(file.body, s, op.new)]
          /\ stage' = "save"
    /\ UNCHANGED <<op, via, file, disk, temp, shown>>

\* write: the content as it is given.
Write ==
    /\ stage = "start" /\ op.tool = "write"
    /\ final' = [bom |-> FALSE, body |-> op.new] /\ stage' = "save"
    /\ UNCHANGED <<op, via, file, disk, temp, shown>>

\* The text is capped; nothing else happens to it on its way to the model.
Show(text) ==
    /\ shown' = [text |-> text, kept |-> Kept(text, op.caps[1], op.caps[2])]
    /\ stage' = "done"

\* read: a window that starts behind the last line is refused.
Read ==
    /\ stage = "start" /\ op.tool = "read"
    /\ LET start == Max({1, op.window.offset}) IN
       \/ /\ file = Missing \/ start > Len(LinesOf(file.body))
          /\ stage' = "refused" /\ UNCHANGED shown
       \/ /\ file # Missing /\ start <= Len(LinesOf(file.body))
          /\ Show(Numbered(file.body, start, op.window.limit))
    /\ UNCHANGED <<op, via, file, disk, temp, final>>

\* _stream_section of what a command printed.
Stream ==
    /\ stage = "start" /\ op.tool = "bash"
    /\ Show(Streamed(file.body))
    /\ UNCHANGED <<op, via, file, disk, temp, final>>

\* Fault: the new bytes go straight into the file.
OpenTarget ==
    /\ stage = "save" /\ via = "host" /\ stage' = "fill"
    /\ disk' = Torn /\ temp' = Torn
    /\ UNCHANGED <<op, via, file, final, shown>>

\* _atomic_write_bytes: a sibling file, ...
OpenTemp ==
    /\ stage = "save" /\ via = "host" /\ stage' = "fill"
    /\ temp' = Torn
    /\ UNCHANGED <<op, via, file, disk, final, shown>>

\* ... the bytes, ...
FillTemp ==
    /\ stage = "fill" /\ stage' = "replace"
    /\ temp' = final
    /\ UNCHANGED <<op, via, file, disk, final, shown>>

\* ... and os.replace.
Replace ==
    /\ stage = "replace" /\ stage' = "done"
    /\ disk' = temp /\ temp' = None
    /\ UNCHANGED <<op, via, file, final, shown>>

\* A step of it fails: the sibling is unlinked and the error raised.
SaveFails ==
    /\ stage \in {"fill", "replace"} /\ stage' = "failed"
    /\ temp' = None
    /\ UNCHANGED <<op, via, file, disk, final, shown>>

\* write_bytes of docker truncates the file on the mount and writes it; the call
\* of modal is one.
OpenMount ==
    /\ stage = "save" /\ via = "docker" /\ stage' = "put"
    /\ disk' = Torn
    /\ UNCHANGED <<op, via, file, temp, final, shown>>

Put ==
    /\ \/ stage = "save" /\ via = "modal"
       \/ stage = "put"
    /\ stage' = "done" /\ disk' = final
    /\ UNCHANGED <<op, via, file, temp, final, shown>>

\* The transport fails before or while the bytes go: rendered as a retry.
PutFails ==
    /\ \/ stage = "save" /\ via # "host"
       \/ stage = "put"
    /\ stage' = "failed"
    /\ UNCHANGED <<op, via, file, disk, temp, final, shown>>

\* The process ends in the middle of a save.
ProcessEnds ==
    /\ stage \in {"save", "fill", "replace", "put"} /\ stage' = "crashed"
    /\ UNCHANGED <<op, via, file, disk, temp, final, shown>>

FilesNext ==
    \/ Edit \/ Write \/ Read \/ Stream
    \/ OpenTemp \/ FillTemp \/ Replace \/ SaveFails
    \/ OpenMount \/ Put \/ PutFails \/ ProcessEnds

FilesSpec == FilesInit /\ [][FilesNext]_filesVars

-----------------------------------------------------------------------------
\* Every variable has its type.
FilesTypeOK ==
    /\ op \in FileCalls /\ via \in {"host", "docker", "modal"}
    /\ \A f \in {file, disk, temp, final} : f.bom \in BOOLEAN
    /\ shown.kept \in 0 .. Len(shown.text)
    /\ stage \in {"start", "save", "fill", "replace", "put", "done", "refused", "failed", "crashed"}

EditDone == stage = "done" /\ op.tool = "edit"

\* One style of line ends in the whole file.
Uniform(t) == WithEol(ToLf(t), DetectEol(t)) = t

\* An edit replaces one stretch of the file, which is old_string up to line ends
\* and, where it does not occur as it is, white space; the stretch becomes
\* new_string with the line ends of the file, and what is before and behind it
\* stays as it was to the byte, the mark at its head included.
Local ==
    LET m(i, j) == ToLf(SubSeq(file.body, i, j))
        tail(j) == SubSeq(file.body, j + 1, Len(file.body))
    IN  /\ disk.bom = file.bom
        /\ \E i \in 1 .. Len(file.body), j \in 1 .. Len(file.body) :
             /\ \/ m(i, j) = ToLf(op.old)
                \/ At(ToLf(op.old), ToLf(file.body)) = {} /\ Normalize(m(i, j)) = Normalize(ToLf(op.old))
             /\ disk.body = SubSeq(file.body, 1, i - 1)
                              \o WithEol(ToLf(op.new), DetectEol(file.body)) \o tail(j)

\* Such is every edit of a file with one style of line ends.
EditIsLocal == EditDone /\ Uniform(file.body) => Local

\* On the host a save is all or nothing at every moment, a crash included, and
\* one that ends leaves no sibling behind.
NeverTorn ==
    /\ via = "host" => disk \in {file, final}
    /\ stage = "done" => temp = None /\ (op.tool \in {"edit", "write"} => disk = final)
    /\ stage \in {"refused", "failed"} => temp = None /\ (via = "host" => disk = file)

\* The numbers of lines of the answer both caps allow.
Allowed == {k \in 0 .. Len(shown.text) :
              k <= op.caps[1] /\ Bytes(shown.text, k) <= op.caps[2]}

Longest == shown.kept = Max(Allowed \union {Min({1, Len(shown.text)})})

Shows == stage = "done" /\ op.tool \in {"read", "bash"}

\* What the model is shown is the longest head of whole lines within both caps,
\* and the first line when not even that one fits (tools/truncate.py), where the
\* lines of the text end in line feeds.
LongestHead ==
    Shows /\ (\A k \in 1 .. Len(shown.text) - 1 : shown.text[k].feed) => Longest

\* What is cut is cut exactly where it is said to be: the stretch of a file an edit
\* replaces, and the tail of a text that is not shown.
CutsAreExact == EditIsLocal /\ LongestHead

\* The same of every text: tools/truncate.py:1.
LongestHeadAlways == Shows => Longest

\* "Replace a unique occurrence", "require a unique match": tools/files.py:561.
EditIsUnique == EditDone => Cardinality(At(ToLf(op.old), ToLf(file.body))) <= 1

\* "The original BOM and line-ending style are restored": tools/files.py:565.
EditKeepsRest == EditDone => Local
=============================================================================
