---------------------------------- MODULE SqlText ----------------------------------
(***************************************************************************)
(* pyxle_db.sql: the scanner that tells SQL from literal text, and what    *)
(* stands on it, translate and split_statements.  A text is a sequence of  *)
(* characters, written here one piece at a time; each dialect has its own  *)
(* parameter style.                                                        *)
(***************************************************************************)
EXTENDS SequencesExt, Integers

CONSTANTS Alphabet,   \* for each dialect, the sets of pieces texts are made of
          MaxPieces   \* bound: pieces in a text

VARIABLES dialect, pieces, text, length

vars == <<dialect, pieces, text, length>>

Letter == {"a", "s"}
Space == {" ", "\n"}
Digit == <<"1", "2", "3", "4", "5", "6", "7", "8", "9">>
\* What each dialect reads as literal text besides quotes, -- and /* */.
Flags(d) == CASE d = "sqlite" -> {}
              [] d = "postgresql" -> {"dollar_quotes"}
              [] d = "mysql" -> {"hash_comments", "backtick_identifiers"}
AllFlags == UNION {Flags(d) : d \in {"sqlite", "postgresql", "mysql"}}
Quotes(f) == {"'", "\""} \cup (IF "backtick_identifiers" \in f THEN {"backtick"} ELSE {})
-----------------------------------------------------------------------------
StartsWith(s, what, i) ==
    i + Len(what) - 1 <= Len(s) /\ SubSeq(s, i, i + Len(what) - 1) = what

\* After the first occurrence of what from i on, if there is one.
AfterNext(s, what, i) ==
    LET found == {k \in i .. Len(s) : StartsWith(s, what, k)}
    IN  IF found = {} THEN Len(s) + 1 ELSE Min(found) + Len(what)

\* A line comment ends before its newline.
EndOfLine(s, i) == Min({k \in i .. Len(s) : s[k] = "\n"} \cup {Len(s) + 1})

\* After the quote that closes the one at i: in a run of quotes, they escape
\* each other in pairs.
AfterQuote(s, i) ==
    LET q == s[i]
        RunFrom(k) == CHOOSE j \in i + 1 .. k :
                        /\ \A l \in j .. k : s[l] = q
                        /\ j = i + 1 \/ s[j - 1] # q
        closing == {k \in i + 1 .. Len(s) :
                      s[k] = q /\ ~StartsWith(s, <<q>>, k + 1) /\ (k - RunFrom(k)) % 2 = 0}
    IN  Min({k + 1 : k \in closing} \cup {Len(s) + 1})

\* $tag$, if there is one at i; else the empty sequence.
Tag(s, i) ==
    LET ends == {k \in i + 1 .. Len(s) : s[k] = "$" /\ \A j \in i + 1 .. k - 1 : s[j] \in Letter}
    IN  IF ends = {} THEN <<>> ELSE SubSeq(s, i, Min(ends))

\* Mutant: the search for the end of a block comment begins inside its opener.
AfterComment_Overlap(s, i) == AfterNext(s, <<"*", "/">>, i + 1)
AfterComment(s, i) == AfterNext(s, <<"*", "/">>, i + 2)

\* Where the literal region that begins at i ends (i itself when none begins).
RegionEnd(s, i, f) ==
    CASE StartsWith(s, <<"-", "-">>, i) \/ ("hash_comments" \in f /\ s[i] = "#") -> EndOfLine(s, i)
      [] StartsWith(s, <<"/", "*">>, i) -> AfterComment(s, i)
      [] s[i] \in Quotes(f) -> AfterQuote(s, i)
      [] "dollar_quotes" \in f /\ s[i] = "$" /\ Tag(s, i) # <<>> ->
           AfterNext(s, Tag(s, i), i + Len(Tag(s, i)))
      [] OTHER -> i

\* The positions in literal regions: a region's characters are not looked at again.
Literal(s, f) ==
    LET look(acc, i) ==
          LET end == RegionEnd(s, i, f)
          IN  IF i < acc.next \/ end = i THEN acc
              ELSE [next |-> end, literal |-> acc.literal \cup i .. end - 1]
    IN  FoldLeftDomain(look, [next |-> 1, literal |-> {}], s).literal

Placeholder(d, k) == CASE d = "sqlite" -> <<"?">>
                       [] d = "postgresql" -> <<"$", Digit[k]>>
                       [] d = "mysql" -> <<"%", "s">>
\* Mutant: a % in a string is not doubled.
Plain_OutsideLiterals(d, c, inside) == IF d = "mysql" /\ c = "%" /\ ~inside THEN <<"%", "%">> ELSE <<c>>
\* The driver of MySQL formats the whole text: a % is doubled in literals too.
Plain(d, c, inside) == IF d = "mysql" /\ c = "%" THEN <<"%", "%">> ELSE <<c>>

Translate(s, d) ==
    LET literal == Literal(s, Flags(d))
        step(acc, i) ==
          IF acc.skip THEN [acc EXCEPT !.skip = FALSE]
          ELSE IF i \in literal \/ s[i] # "?"
               THEN [acc EXCEPT !.out = @ \o Plain(d, s[i], i \in literal)]
          ELSE IF StartsWith(s, <<"?", "?">>, i)
               THEN [acc EXCEPT !.out = Append(@, "?"), !.skip = TRUE]
          ELSE [acc EXCEPT !.out = @ \o Placeholder(d, acc.count + 1), !.count = @ + 1]
    IN  FoldLeftDomain(step, [out |-> <<>>, count |-> 0, skip |-> FALSE], s).out

\* Neither white space nor, in any dialect, a literal.
HasContent(s) == \E i \in DOMAIN s : i \notin Literal(s, AllFlags) /\ s[i] \notin Space

\* fragment.strip()
Strip(s) ==
    LET ink == {i \in DOMAIN s : s[i] \notin Space}
    IN  IF ink = {} THEN <<>> ELSE SubSeq(s, Min(ink), Max(ink))

\* What lies between the positions in a set.
Fragments(s, cuts) ==
    LET cut(acc, i) == IF i \in cuts THEN [from |-> i + 1, list |-> Append(acc.list, SubSeq(s, acc.from, i - 1))]
                       ELSE acc
        last == FoldLeftDomain(cut, [from |-> 1, list |-> <<>>], s)
    IN  Append(last.list, SubSeq(s, last.from, Len(s)))

SplitStatements(s, d) ==
    LET kept == SelectSeq(Fragments(s, {i \in DOMAIN s \ Literal(s, Flags(d)) : s[i] = ";"}), HasContent)
    IN  [k \in DOMAIN kept |-> Strip(kept[k])]
-----------------------------------------------------------------------------
Init ==
    /\ dialect \in {"sqlite", "postgresql", "mysql"}
    /\ pieces \in Alphabet[dialect]
    /\ text = <<>> /\ length = 0

Write(p) ==
    /\ length < MaxPieces
    /\ text' = text \o p /\ length' = length + 1
    /\ UNCHANGED <<dialect, pieces>>

Next == \E p \in pieces : Write(p)

Spec == Init /\ [][Next]_vars
-----------------------------------------------------------------------------
\* How a text reads by the module's rules for literals, one character after another:
\* in code, or in the literal that the character at `from` opened.
Lexed(s, f) ==
    LET tagLength(i) == Len(Tag(s, i))
        opens(i) == CASE StartsWith(s, <<"-", "-">>, i) -> "line"
                      [] s[i] = "#" /\ "hash_comments" \in f -> "line"
                      [] StartsWith(s, <<"/", "*">>, i) -> "block"
                      [] s[i] \in Quotes(f) -> "quote"
                      [] s[i] = "$" /\ "dollar_quotes" \in f /\ Tag(s, i) # <<>> -> "dollar"
                      [] OTHER -> "code"
        closes(mode, from, i) ==
            CASE mode = "block" -> i >= from + 3 /\ s[i - 1] = "*" /\ s[i] = "/"
              [] mode = "quote" -> s[i] = s[from]
              [] mode = "dollar" -> /\ i >= from + 2 * tagLength(from) - 1
                                    /\ SubSeq(s, i - tagLength(from) + 1, i) = Tag(s, from)
              [] OTHER -> FALSE
        read(acc, i) ==
            IF acc.mode = "line" /\ s[i] = "\n" THEN [acc EXCEPT !.mode = "code"]
            ELSE IF acc.mode = "code"
            THEN IF opens(i) = "code" THEN acc
                 ELSE [mode |-> opens(i), from |-> i, literal |-> acc.literal \cup {i}]
            ELSE [mode |-> IF closes(acc.mode, acc.from, i) THEN "code" ELSE acc.mode,
                  from |-> acc.from, literal |-> acc.literal \cup {i}]
    IN  FoldLeftDomain(read, [mode |-> "code", from |-> 1, literal |-> {}], s).literal

Parameter(k) == <<"parameter", k>>

\* What whoever wrote a text means: its characters, a parameter for each ? that is
\* SQL, ?? for a ?.
Written(s, d) ==
    LET literal == Lexed(s, Flags(d))
        step(acc, i) ==
          IF i \in literal \/ s[i] # "?" THEN [acc EXCEPT !.items = Append(@, <<s[i]>>), !.escape = FALSE]
          ELSE IF acc.escape THEN [acc EXCEPT !.escape = FALSE]
          ELSE IF i < Len(s) /\ s[i + 1] = "?"
               THEN [acc EXCEPT !.items = Append(@, <<"?">>), !.escape = TRUE]
          ELSE [acc EXCEPT !.items = Append(@, Parameter(acc.count + 1)), !.count = @ + 1]
    IN  FoldLeftDomain(step, [items |-> <<>>, count |-> 0, escape |-> FALSE], s).items

\* What the driver and the server make of a native text: its characters and parameters.
Understood(s, d) ==
    LET literal == Lexed(s, Flags(d))
        number(i) == CHOOSE k \in DOMAIN Digit : Digit[k] = s[i + 1]
        step(acc, i) ==
          IF acc.skip THEN [acc EXCEPT !.skip = FALSE]
          ELSE CASE d = "mysql" /\ s[i] = "%" /\ i < Len(s) ->
                      [items |-> Append(acc.items, IF s[i + 1] = "s" THEN Parameter(acc.count + 1) ELSE <<s[i + 1]>>),
                       count |-> acc.count + (IF s[i + 1] = "s" THEN 1 ELSE 0), skip |-> TRUE]
                 [] d = "postgresql" /\ s[i] = "$" /\ i \notin literal /\ i < Len(s) /\ s[i + 1] \in ToSet(Digit) ->
                      [acc EXCEPT !.items = Append(@, Parameter(number(i))), !.skip = TRUE]
                 [] d = "sqlite" /\ s[i] = "?" /\ i \notin literal ->
                      [acc EXCEPT !.items = Append(@, Parameter(acc.count + 1)), !.count = @ + 1]
                 [] OTHER -> [acc EXCEPT !.items = Append(@, <<s[i]>>)]
    IN  FoldLeftDomain(step, [items |-> <<>>, count |-> 0, skip |-> FALSE], s).items

\* SQL keeps a parameter apart from a name before it.
Meaningful(s, d) ==
    \A i \in DOMAIN s \ Lexed(s, Flags(d)) :
        s[i] = "?" => (i > 1 => s[i - 1] \notin Letter \cup {"$"})

ReadAsWritten == Understood(Translate(text, dialect), dialect) = Written(text, dialect)
Escapes == \E i \in DOMAIN text \ Lexed(text, Flags(dialect)) : StartsWith(text, <<"?", "?">>, i)

\* The driver and the server find in a translated text the parameters, in their
\* order, and the characters that were written, whatever quotes, comments and
\* escapes lie around them (translate).  On sqlite without ??: see EscapesArePortable.
DriverReadsWhatWasWritten ==
    Meaningful(text, dialect) /\ (dialect = "sqlite" => ~Escapes) => ReadAsWritten

\* Stated, and broken on sqlite, which reads the ? that is left of ?? as a parameter:
\* "still honour the ?? escape so SQL written portably behaves identically on every
\* backend" (translate).
EscapesArePortable == Meaningful(text, dialect) => ReadAsWritten

\* Fragments of SQL begin with a keyword, after blanks and comments.
BeginsWithKeyword(s) ==
    LET code == {i \in DOMAIN s \ Lexed(s, AllFlags) : s[i] \notin Space}
    IN  code # {} /\ s[Min(code)] \in Letter

\* The statements of a script are what its server finds between semicolons, in
\* their order, none of them lost; and each reads the same alone, where it is
\* scanned again, as it did in the script (split_statements).
StatementsStandAlone ==
    LET f == Flags(dialect)
        literal == Lexed(text, f)
        meant == SelectSeq(Fragments(text, {i \in DOMAIN text \ literal : text[i] = ";"}), BeginsWithKeyword)
        statements == SplitStatements(text, dialect)
    IN  /\ SelectSeq(statements, BeginsWithKeyword) = [k \in DOMAIN meant |-> Strip(meant[k])]
        /\ \A k \in DOMAIN statements :
             \A i \in DOMAIN statements[k] \ Lexed(statements[k], f) : statements[k][i] # ";"
=============================================================================
