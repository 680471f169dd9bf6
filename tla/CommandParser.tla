---------------------------- MODULE CommandParser ----------------------------
(***************************************************************************)
(* The command-line parser of internal/parser/parser.go: tokenize, which   *)
(* reads the line rune by rune, ParseLineWithEnv, which turns the tokens   *)
(* into a pipeline with redirects, and QuoteForRaw, whose output is read   *)
(* again as a line by functions and aliases.                               *)
(*                                                                         *)
(* A rune is a string: "n" stands for every letter, "sp" for blanks, "nl"  *)
(* for the line feed, "dq", "sq" and "bs" for the two quotes and the       *)
(* backslash; the others are themselves.  A line or a word is a sequence   *)
(* of runes and a lookup function maps the names it knows to their values. *)
(***************************************************************************)
EXTENDS Naturals, Sequences, SequencesExt

CONSTANTS
    Inputs, \* the lines that are parsed (bound)
    Env     \* the lookup function: Env[name] is the value of a known name

VARIABLES
    raw,    \* the trimmed line
    phase,  \* "scan", "parse", "done" or "error"
    next,   \* the next rune in phase "scan", the next token in phase "parse"
    scan,   \* the local variables of tokenize
    line,   \* the Line built so far
    current, \* the words of the command being collected
    column  \* the column of the SyntaxError, 0 for none

vars == <<raw, phase, next, scan, line, current, column>>

Spaces    == {"sp", "nl"}
Metas     == {"|", "<", ">", "&"}
Redirects == {<<"<">>, <<">">>, <<">", ">">>}
Operators == Redirects \cup {<<"|">>, <<"&">>}
Runes     == Spaces \cup Metas \cup {"n", "dq", "sq", "bs", "$", "%"}
Words     == Seq(Runes)

\* Lines and values are texts over these runes.
ASSUME TextAssumption ==
    /\ Inputs \subseteq Words
    /\ \A name \in DOMAIN Env : Env[name] \in Words

NoQuote   == "none"
Scanner   == [tokens : Seq([value : Words, column : Nat]), text : Words, column : Nat,
              quote : {NoQuote, "dq", "sq"}, escaping : BOOLEAN, started : BOOLEAN,
              skip : BOOLEAN]
StartScan == [tokens |-> <<>>, text |-> <<>>, column |-> 0, quote |-> NoQuote,
              escaping |-> FALSE, started |-> FALSE, skip |-> FALSE]
EmptyLine == [commands |-> <<>>, input |-> <<>>, output |-> <<>>, append |-> FALSE,
              background |-> FALSE]

TypeOK ==
    /\ raw \in Words
    /\ phase \in {"scan", "parse", "done", "error"}
    /\ next \in 1..(Len(raw) + 1)
    /\ scan \in Scanner
    /\ line \in [commands : Seq([words : Seq(Words), raw : Words]), input : Words,
                 output : Words, append : BOOLEAN, background : BOOLEAN]
    /\ current \in Seq(Words)
    /\ column \in 0..Len(raw)

-----------------------------------------------------------------------------
(* tokenize *)

\* (Names ending in Fault are plausible mistakes in the operator that follows.
\* They are not part of the specification: they show that a property can fail.)

\* Every escaped rune stands for itself.
EscapeSequenceFault(r, quote) == <<r>>

EscapeSequence(r, quote) ==
    IF quote = "dq" THEN IF r = "n" THEN <<"nl">> ELSE <<r>>
    ELSE IF r \in Spaces \cup Metas \cup {"dq", "sq", "bs"} THEN <<r>> ELSE <<"bs", r>>

\* The current token, if there is one, is complete.
Flush(sc) ==
    IF sc.started
      THEN [sc EXCEPT !.tokens = Append(@, [value |-> sc.text, column |-> sc.column]),
                      !.text = <<>>, !.column = 0, !.started = FALSE]
      ELSE sc

\* A rune of a word is read at column i and text is what it adds to the word.
Extend(sc, i, text) ==
    [sc EXCEPT !.column = IF @ = 0 THEN i ELSE @, !.started = TRUE, !.text = @ \o text]

\* The operator at column i of s; the second ">" of ">>" is passed over.
Operator(sc, s, i) ==
    LET double == s[i] = ">" /\ i < Len(s) /\ s[i + 1] = ">" IN
    [sc EXCEPT !.tokens = Append(@, [value |-> IF double THEN <<">", ">">> ELSE <<s[i]>>,
                                     column |-> i]),
               !.skip = double]

\* One turn of the loop of tokenize.
Accept(sc, s, i) ==
    LET r == s[i] IN
    IF sc.skip THEN [sc EXCEPT !.skip = FALSE]
    ELSE IF sc.escaping THEN [sc EXCEPT !.text = @ \o EscapeSequence(r, sc.quote),
                                        !.escaping = FALSE]
    ELSE IF r = "bs" /\ sc.quote # "sq" THEN [Extend(sc, i, <<>>) EXCEPT !.escaping = TRUE]
    ELSE IF r \in {"dq", "sq"} /\ sc.quote = NoQuote
      THEN [Extend(sc, i, <<>>) EXCEPT !.quote = r]
    ELSE IF r \in {"dq", "sq"} /\ sc.quote = r THEN [sc EXCEPT !.quote = NoQuote]
    ELSE IF r \in Metas /\ sc.quote = NoQuote THEN Operator(Flush(sc), s, i)
    ELSE IF r \in Spaces /\ sc.quote = NoQuote THEN Flush(sc)
    ELSE Extend(sc, i, <<r>>)

\* After the last rune: a trailing backslash stands for itself.
AtEnd(sc) ==
    Flush(IF sc.escaping THEN [sc EXCEPT !.text = Append(@, "bs"), !.escaping = FALSE]
                         ELSE sc)

\* The values of the tokens of s, for an s that closes its quotes.
Tokenize(s) ==
    LET read[i \in 0..Len(s)] ==
          IF i = 0 THEN StartScan ELSE Accept(read[i - 1], s, i)
        tokens == AtEnd(read[Len(s)]).tokens
    IN [k \in DOMAIN tokens |-> tokens[k].value]

-----------------------------------------------------------------------------
(* Expansion of $name and then of %name% in a word. *)

Lookup(name) == IF name \in DOMAIN Env THEN Env[name] ELSE <<>>

\* os.Expand: "$$" names the variable "$", a "$" before anything else that is no
\* letter stays.
OSExpand(w) ==
    LET nameEnd(i) == CHOOSE e \in i..Len(w) :
                        /\ \A k \in (i + 1)..e : w[k] = "n"
                        /\ e = Len(w) \/ w[e + 1] # "n"
        from[i \in 1..(Len(w) + 2)] ==
          IF i > Len(w) THEN <<>>
          ELSE IF w[i] # "$" \/ i = Len(w) THEN <<w[i]>> \o from[i + 1]
          ELSE IF w[i + 1] = "$" THEN Lookup(<<"$">>) \o from[i + 2]
          ELSE IF nameEnd(i) = i THEN <<"$">> \o from[i + 1]
          ELSE Lookup(SubSeq(w, i + 1, nameEnd(i))) \o from[nameEnd(i) + 1]
    IN from[1]

\* A "%" without a second one stays.
ExpandWindowsEnv(w) ==
    LET closing(i) == {e \in (i + 1)..Len(w) : w[e] = "%"}
        first(S)   == CHOOSE e \in S : \A f \in S : e <= f
        from[i \in 1..(Len(w) + 1)] ==
          IF i > Len(w) THEN <<>>
          ELSE IF w[i] # "%" \/ closing(i) = {} THEN <<w[i]>> \o from[i + 1]
          ELSE Lookup(SubSeq(w, i + 1, first(closing(i)) - 1))
                 \o from[first(closing(i)) + 1]
    IN from[1]

ExpandToken(w) == ExpandWindowsEnv(OSExpand(w))

-----------------------------------------------------------------------------
(* ParseLineWithEnv *)

TrimSpace(s) ==
    LET kept == {i \in DOMAIN s : s[i] \notin Spaces} IN
    IF kept = {} THEN <<>>
    ELSE SubSeq(s, CHOOSE i \in kept : \A k \in kept : i <= k,
                   CHOOSE i \in kept : \A k \in kept : i >= k)

Init ==
    /\ raw \in {TrimSpace(s) : s \in Inputs}
    /\ phase = IF raw = <<>> THEN "done" ELSE "scan"
    /\ next = 1
    /\ scan = StartScan
    /\ line = EmptyLine
    /\ current = <<>>
    /\ column = 0

ScanRune ==
    /\ phase = "scan"
    /\ next <= Len(raw)
    /\ scan' = Accept(scan, raw, next)
    /\ next' = next + 1
    /\ UNCHANGED <<raw, phase, line, current, column>>

\* The column counts the runes that were read.
FailFault(c) ==
    /\ phase' = "error"
    /\ column' = c + 1
    /\ UNCHANGED <<raw, next, current>>

\* syntaxError: the line is given up.  An error at no column is at column 1.
Fail(c) ==
    /\ phase' = "error"
    /\ column' = IF c = 0 THEN 1 ELSE c
    /\ UNCHANGED <<raw, next, current>>

UnclosedQuote ==
    /\ phase = "scan"
    /\ next > Len(raw)
    /\ scan.quote # NoQuote
    /\ Fail(scan.column)
    /\ UNCHANGED <<scan, line>>

EndScan ==
    /\ phase = "scan"
    /\ next > Len(raw)
    /\ scan.quote = NoQuote
    /\ scan' = AtEnd(scan)
    /\ phase' = "parse"
    /\ next' = 1
    /\ UNCHANGED <<raw, line, current, column>>

Value(k) == scan.tokens[k].value

\* The words are taken as they were typed.
CommandFault(words) ==
    [words |-> words,
     raw |-> FlattenSeq([k \in DOMAIN words |->
                           IF k = 1 THEN words[k] ELSE <<"sp">> \o words[k]])]

\* The words of the command: expanded as name and arguments, and as typed in Raw,
\* where they are joined by blanks and their quotes are gone.
Command(words) ==
    [words |-> [k \in DOMAIN words |-> ExpandToken(words[k])],
     raw |-> FlattenSeq([k \in DOMAIN words |->
                           IF k = 1 THEN words[k] ELSE <<"sp">> \o words[k]])]

FlushCommand == line' = [line EXCEPT !.commands = Append(@, Command(current))]

ReadToken ==
    /\ phase = "parse"
    /\ next <= Len(scan.tokens)

Pipe ==
    /\ ReadToken
    /\ Value(next) = <<"|">>
    /\ IF current = <<>> THEN Fail(1) /\ UNCHANGED line
       ELSE /\ FlushCommand
            /\ current' = <<>>
            /\ next' = next + 1
            /\ UNCHANGED <<raw, phase, column>>
    /\ UNCHANGED scan

Redirect ==
    /\ ReadToken
    /\ Value(next) \in Redirects
    /\ IF next = Len(scan.tokens) \/ Value(next + 1) \in Operators
         THEN Fail(scan.tokens[next].column) /\ UNCHANGED line
       ELSE LET target == ExpandToken(Value(next + 1)) IN
            /\ line' = IF Value(next) = <<"<">> THEN [line EXCEPT !.input = target]
                       ELSE [line EXCEPT !.output = target,
                                         !.append = Value(next) = <<">", ">">>]
            /\ next' = next + 2
            /\ UNCHANGED <<raw, phase, current, column>>
    /\ UNCHANGED scan

Ampersand ==
    /\ ReadToken
    /\ Value(next) = <<"&">>
    /\ IF next # Len(scan.tokens) THEN Fail(scan.tokens[next].column) /\ UNCHANGED line
       ELSE /\ line' = [line EXCEPT !.background = TRUE]
            /\ next' = next + 1
            /\ UNCHANGED <<raw, phase, current, column>>
    /\ UNCHANGED scan

Word ==
    /\ ReadToken
    /\ Value(next) \notin Operators
    /\ current' = Append(current, Value(next))
    /\ next' = next + 1
    /\ UNCHANGED <<raw, phase, scan, line, column>>

EndParse ==
    /\ phase = "parse"
    /\ next > Len(scan.tokens)
    /\ IF current = <<>> THEN Fail(1) /\ UNCHANGED line
       ELSE /\ FlushCommand
            /\ current' = <<>>
            /\ phase' = "done"
            /\ UNCHANGED <<raw, next, column>>
    /\ UNCHANGED scan

Next ==
    \/ ScanRune \/ UnclosedQuote \/ EndScan
    \/ Pipe \/ Redirect \/ Ampersand \/ Word \/ EndParse

Spec == Init /\ [][Next]_vars

-----------------------------------------------------------------------------
(* QuoteForRaw *)

\* strconv.Quote, for the runes there are.
Quote(w) ==
    LET escape(r) == CASE r \in {"dq", "bs"} -> <<"bs", r>>
                       [] r = "nl" -> <<"bs", "n">>
                       [] OTHER -> <<r>>
    IN <<"dq">> \o FlattenSeq([k \in DOMAIN w |-> escape(w[k])]) \o <<"dq">>

NeedsQuotes(w) == \E k \in DOMAIN w : w[k] \in Metas \cup {"sp", "dq"}

\* The quotes are put around the value as it is.
QuoteForRawFault(values) ==
    LET quoted(w) == IF NeedsQuotes(w) THEN <<"dq">> \o w \o <<"dq">> ELSE w
    IN FlattenSeq([k \in DOMAIN values |->
                     IF k = 1 THEN quoted(values[k]) ELSE <<"sp">> \o quoted(values[k])])

QuoteForRaw(values) ==
    LET quoted(w) == IF NeedsQuotes(w) THEN Quote(w) ELSE w
    IN FlattenSeq([k \in DOMAIN values |->
                     IF k = 1 THEN quoted(values[k]) ELSE <<"sp">> \o quoted(values[k])])

-----------------------------------------------------------------------------
(* Properties.  The tokens of a line, defined without reading it in order:  *)
(* the mode in which a rune is read depends on the mode of the one before   *)
(* it, and the words are the longest stretches without a blank or operator. *)

After(m, r) ==
    CASE m = "esc"   -> "bare"
      [] m = "dqesc" -> "dq"
      [] m = "sq"    -> IF r = "sq" THEN "bare" ELSE "sq"
      [] m = "dq"    -> IF r = "dq" THEN "bare" ELSE IF r = "bs" THEN "dqesc" ELSE "dq"
      [] m = "bare"  -> IF r \in {"sq", "dq"} THEN r ELSE IF r = "bs" THEN "esc" ELSE "bare"

Modes(s) ==
    LET mode[i \in 1..(Len(s) + 1)] ==
          IF i = 1 THEN "bare" ELSE After(mode[i - 1], s[i - 1])
    IN mode

\* What the rune at i contributes to its word.
Meaning(s, i) ==
    LET m == Modes(s)[i] IN
    CASE m = "esc"   -> IF s[i] \in {"n", "$", "%"} THEN <<"bs", s[i]>> ELSE <<s[i]>>
      [] m = "dqesc" -> IF s[i] = "n" THEN <<"nl">> ELSE <<s[i]>>
      [] m = "sq"    -> IF s[i] = "sq" THEN <<>> ELSE <<s[i]>>
      [] m = "dq"    -> IF s[i] \in {"dq", "bs"} THEN <<>> ELSE <<s[i]>>
      [] m = "bare"  -> IF s[i] \in {"sq", "dq"} \/ (s[i] = "bs" /\ i < Len(s))
                          THEN <<>> ELSE <<s[i]>>

\* The blanks and operators of the line, and where the stretches between them begin
\* and end.
Bare(s, i)   == Modes(s)[i] = "bare" /\ s[i] \in Spaces \cup Metas
Begins(s, i) == ~Bare(s, i) /\ (i = 1 \/ Bare(s, i - 1))
Ends(s, i)   == CHOOSE e \in i..Len(s) : /\ \A k \in i..e : ~Bare(s, k)
                                         /\ e = Len(s) \/ Bare(s, e + 1)

\* Of ">"s in a row every second one belongs to the one before it: the row before i.
Gt(s, i)  == Bare(s, i) /\ s[i] = ">"
Row(s, i) == CHOOSE n \in 0..(i - 1) : /\ \A k \in (i - n)..(i - 1) : Gt(s, k)
                                       /\ i - n = 1 \/ ~Gt(s, i - n - 1)
Operates(s, i) == Bare(s, i) /\ s[i] \in Metas /\ (Gt(s, i) => Row(s, i) % 2 = 0)

\* What the runes from i to e add to a word.
Meanings(s, i, e) == FlattenSeq([k \in 1..(e - i + 1) |-> Meaning(s, i + k - 1)])

WordToken(s, i) == [value |-> Meanings(s, i, Ends(s, i)), column |-> i]

OperatorToken(s, i) ==
    [value |-> IF s[i] = ">" /\ i < Len(s) /\ s[i + 1] = ">" THEN <<">", ">">> ELSE <<s[i]>>,
     column |-> i]

ReferenceTokens(s) ==
    {WordToken(s, i) : i \in {j \in DOMAIN s : Begins(s, j)}}
      \cup {OperatorToken(s, i) : i \in {j \in DOMAIN s : Operates(s, j)}}

InOrder(tokens) ==
    \A j, k \in DOMAIN tokens : j < k => tokens[j].column < tokens[k].column

\* The scanner finds the tokens of the line, with their quotes and escapes resolved
\* and the columns where they start, and refuses a line whose last quote is open.
TokensAgree ==
    /\ phase = "error" /\ scan.quote # NoQuote
         => Modes(raw)[Len(raw) + 1] \in {"sq", "dq", "dqesc"}
    /\ phase \in {"parse", "done"} =>
         /\ Modes(raw)[Len(raw) + 1] \in {"bare", "esc"}
         /\ ToSet(scan.tokens) = ReferenceTokens(raw)
         /\ InOrder(scan.tokens)

\* The roles of the tokens, by their values v: the parser takes for an operator what
\* spells one, quoted or not (see EscapedOperatorsAreWords).
Target(v, k)   == k > 1 /\ v[k - 1] \in Redirects
Plain(v, k)    == v[k] \notin Operators /\ ~Target(v, k)
Limits(v)      == {0, Len(v) + 1} \cup {k \in DOMAIN v : v[k] = <<"|">>}
NoCommand(v, k) == \E b \in Limits(v) : b < k /\ \A j \in (b + 1)..(k - 1) : ~Plain(v, j)
Misplaced(v) ==
    {k \in DOMAIN v : \/ v[k] \in Redirects /\ (k = Len(v) \/ v[k + 1] \in Operators)
                      \/ v[k] = <<"&">> /\ k # Len(v)}
Culprits(v) == Misplaced(v) \cup {k \in Limits(v) \ {0} : NoCommand(v, k)}

\* A line is accepted exactly when no token, by its value, is out of place; otherwise
\* the column is that of the first token that is, or 1 when a command is missing.
ErrorsAreTheFirst ==
    LET v == [k \in DOMAIN scan.tokens |-> scan.tokens[k].value] IN
    /\ phase = "done" /\ raw # <<>> => Culprits(v) = {}
    /\ phase = "error" /\ scan.quote = NoQuote =>
         \E k \in Culprits(v) :
           /\ \A j \in Culprits(v) : k <= j
           /\ column = IF k \in Misplaced(v) THEN scan.tokens[k].column ELSE 1

\* The command the token at k belongs to, and the words of command c up to place p.
CommandAt(v, k)  == 1 + Cardinality({j \in 1..(k - 1) : v[j] = <<"|">>})
Written(v, c, p) == {j \in 1..p : Plain(v, j) /\ CommandAt(v, j) = c}

\* t is what the last of the redirects ops up to place p names, if there is one.
IsTarget(t, v, ops, p) ==
    IF \A k \in 1..p : v[k] \notin ops THEN t = <<>>
    ELSE \E k \in 1..p : /\ v[k] \in ops /\ \A j \in (k + 1)..p : v[j] \notin ops
                         /\ t = ExpandToken(v[k + 1])

\* Every word of an accepted line that spells no operator reaches the command it was
\* written for, in its place, and the last redirect of each kind counts.  What a
\* variable holds never splits a word and is never taken for an operator.
LineAgrees ==
    LET v == [k \in DOMAIN scan.tokens |-> scan.tokens[k].value]
        n == Len(scan.tokens)
    IN phase = "done" /\ raw # <<>> =>
         /\ Len(line.commands) = CommandAt(v, n + 1)
         /\ \A c \in DOMAIN line.commands :
              Len(line.commands[c].words) = Cardinality(Written(v, c, n))
         /\ \A k \in DOMAIN v : Plain(v, k) =>
              LET c == CommandAt(v, k) IN
              line.commands[c].words[Cardinality(Written(v, c, k))] = ExpandToken(v[k])
         /\ IsTarget(line.input, v, {<<"<">>}, n)
         /\ IsTarget(line.output, v, {<<">">>, <<">", ">">>}, n)
         /\ line.append <=> \E k \in DOMAIN v :
                              v[k] = <<">", ">">> /\ \A j \in DOMAIN v : v[j] = <<">">> => j < k
         /\ line.background <=> \E k \in DOMAIN v : v[k] = <<"&">>

\* The pipes of an accepted line and its "&" are those that stand in it neither quoted
\* nor escaped: README.md promises "escaped operators".
EscapedOperatorsAreWords ==
    phase = "done" /\ raw # <<>> =>
        /\ Len(line.commands)
             = 1 + Cardinality({i \in DOMAIN raw : Operates(raw, i) /\ raw[i] = "|"})
        /\ line.background <=> Operates(raw, Len(raw)) /\ raw[Len(raw)] = "&"

\* The words that QuoteForRaw preserves.  One without quotes must not be empty nor have
\* a backslash, a single quote or a line feed; quoted or not, one that spells an
\* operator is taken for it, and "$" and "%" are expanded.
Survives(w) ==
    /\ NeedsQuotes(w) \/ (w # <<>> /\ \A k \in DOMAIN w : w[k] \notin {"bs", "sq", "nl"})
    /\ w \notin Operators
    /\ \A k \in DOMAIN w : w[k] \notin {"$", "%"}

\* The arguments that a function writes into its body with QuoteForRaw are, when the
\* body is parsed, the same words again: none is split, lost or taken for an operator.
QuoteRoundTrip ==
    phase = "done" => \A c \in DOMAIN line.commands :
      LET words == line.commands[c].words
          v     == Tokenize(QuoteForRaw(words))
      IN (\A k \in DOMAIN words : Survives(words[k])) =>
           /\ \A k \in DOMAIN v : v[k] \notin Operators
           /\ [k \in DOMAIN v |-> ExpandToken(v[k])] = words
=============================================================================
