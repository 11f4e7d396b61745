------------------------------ MODULE Truncate ------------------------------
(* Tool-output truncation (tools/truncate.py).                              *)
(*                                                                          *)
(* A text is the sequence of its lines, as str.splitlines(keepends=True)    *)
(* cuts it.  Of a line the algorithm sees its size in bytes and whether it  *)
(* ends in a line feed: splitlines also ends a line at a carriage return, a *)
(* form feed and other separators, while the byte cap looks for line feeds  *)
(* only.  Every cut falls between two of these lines, so what is kept is    *)
(* given by the number of lines kept.                                       *)
EXTENDS Naturals, Sequences, FiniteSetsExt, SequencesExt

Line == [size : Nat \ {0}, feed : BOOLEAN]

\* Bytes(t, k): the size of the first k lines of t.
Bytes(t, k) == FoldLeft(LAMBDA n, l : n + l.size, 0, SubSeq(t, 1, k))

\* _line_offsets: the lines of t, as numbers, after which the byte cap may cut:
\* those that end in a line feed, and the last one.
LineEnds(t) == {k \in 1 .. Len(t) : t[k].feed \/ k = Len(t)}

\* _truncate_text: the line cap first; then, if the bytes still overflow, the
\* last cut point that fits, and the first one when none does.
TruncateText(t, maxLines, maxBytes) ==
    LET head == SubSeq(t, 1, Min({maxLines, Len(t)}))
        fits == {k \in LineEnds(head) : Bytes(head, k) <= maxBytes}
    IN  IF Bytes(head, Len(head)) <= maxBytes THEN Len(head)
        ELSE IF fits # {} THEN Max(fits) ELSE Min(LineEnds(head))

\* truncate: how many lines of t are kept.
Kept(t, maxLines, maxBytes) ==
    IF Len(t) <= maxLines /\ Bytes(t, Len(t)) <= maxBytes THEN Len(t)
    ELSE TruncateText(t, maxLines, maxBytes)
=============================================================================
