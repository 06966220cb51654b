------------------------------- MODULE WebPages -------------------------------
(***************************************************************************)
(* What the web tools make of an answer: the text of a page, cut to a      *)
(* length, and the results of a search, cut to a number.                   *)
(*                                                                         *)
(* A page is a sequence of lines, a line a sequence of characters; a       *)
(* character is a letter, a space, or "wide", one that takes two bytes.    *)
(***************************************************************************)
EXTENDS Naturals, Sequences, SequencesExt

Solid(line) == {i \in DOMAIN line : line[i] # " "}

\* str::trim of a line.
Trimmed(line) == IF Solid(line) = {} THEN <<>> ELSE SubSeq(line, Min(Solid(line)), Max(Solid(line)))

\* normalize_whitespace: lines are trimmed, blank lines that follow a blank line
\* or nothing are left out, and so is one at the end.
Normalise(page) ==
    LET Add(text, line) ==
            IF Trimmed(line) # <<>> THEN [lines |-> Append(text.lines, Trimmed(line)), blank |-> FALSE]
            ELSE IF text.blank THEN text
            ELSE [lines |-> Append(text.lines, <<>>), blank |-> TRUE]
        all == FoldLeft(Add, [lines |-> <<>>, blank |-> TRUE], page)
    IN  IF all.lines # <<>> /\ all.blank THEN Front(all.lines) ELSE all.lines

\* The lines as one string.
Joined(page) == FlattenSeq([i \in DOMAIN page |-> IF i = 1 THEN page[i] ELSE <<"newline">> \o page[i]])

\* String::len.
Bytes(text) == FoldLeft(LAMBDA n, c : n + (IF c = "wide" THEN 2 ELSE 1), 0, text)

\* Mutant of truncate_text: no length is unlimited.
TruncateAlways(text, max_length) ==
    IF Bytes(text) <= max_length
    THEN [chars |-> text, marked |-> FALSE]
    ELSE [chars |-> SubSeq(text, 1, Min({max_length, Len(text)})), marked |-> TRUE]

\* The bytes are compared, the characters taken; what is cut is marked as such.
truncate_text(text, max_length) ==
    IF max_length = 0 \/ Bytes(text) <= max_length
    THEN [chars |-> text, marked |-> FALSE]
    ELSE [chars |-> SubSeq(text, 1, Min({max_length, Len(text)})), marked |-> TRUE]

\* The mark is two newlines and "[content truncated]".
MarkLength == 21

\* web_fetch: raw is the format "html", isHtml what headers and bytes say.
Fetched(page, raw, isHtml, max_length) ==
    LET text == IF ~raw /\ isHtml THEN Joined(Normalise(page)) ELSE Joined(page)
        content == truncate_text(text, max_length)
    IN  [content |-> content,
         length |-> Bytes(content.chars) + (IF content.marked THEN MarkLength ELSE 0)]

\* web_search: a result is its URL, which may be missing or empty; those that have
\* one are taken until there are enough.
Found(results, limit) ==
    FoldLeft(LAMBDA found, r : IF r = "" \/ Len(found) >= limit THEN found ELSE Append(found, r),
             <<>>, results)

=============================================================================
