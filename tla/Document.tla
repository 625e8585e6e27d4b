------------------------------ MODULE Document ------------------------------
(***************************************************************************)
(* One page on its way to a .mdoc, a .doc and a quality score: the parsers *)
(* (src/src/parser.rs) and the compiler (src/src/compiler.rs).             *)
(*                                                                         *)
(* A page is what its author wrote, top to bottom, as runs of like blocks: *)
(* elements of an HTML document, or lines of a Markdown file one by one.   *)
(* A text is a model value with a length; lengths are those of the         *)
(* compiled Markdown.  Texts hold no "# " and no "```" of their own.       *)
(***************************************************************************)
EXTENDS Integers, Sequences, SequencesExt

CONSTANTS
    Text,        \* texts of blocks
    TextLen,     \* their lengths in bytes
    Clean,       \* sanitize_for_injection
    Joined,      \* two texts that a pattern runs across: as one, with the break as a space
    Swallows,    \* texts that end in a pattern which takes all white space after it
    NoText,      \* the empty title, the answer of a heading without paragraph
    MaxRuns,     \* bound on the runs of a page
    Repeats      \* lengths of a run

HtmlKinds == {"title", "h1", "h2", "p", "li", "pre", "pre_code", "table"}
MarkdownKinds == {"#", "##", "####", "text", "-", "fence", "|"}
Run == [kind: HtmlKinds \cup MarkdownKinds, text: Text, times: Repeats]

ASSUME DocumentAssumption ==
    /\ MaxRuns \in Nat
    /\ Repeats \subseteq Nat \ {0}
    /\ TextLen \in [Text -> Nat]
    /\ Clean \in [Text -> Text]
    /\ DOMAIN Joined \subseteq Text \X Text /\ \A tu \in DOMAIN Joined : Joined[tu] \in Text
    /\ Swallows \subseteq Text
    /\ NoText \notin Text

VARIABLE page   \* what is written so far: its format and its runs

PageTypeOK ==
    /\ page.format \in {"html", "md"}
    /\ Len(page.runs) <= MaxRuns
    /\ \A i \in DOMAIN page.runs :
          page.runs[i] \in Run /\ page.runs[i].kind \in
                IF page.format = "html" THEN HtmlKinds ELSE MarkdownKinds

-----------------------------------------------------------------------------
(* The parsers.  A list of texts is a sequence of runs as well.            *)

Blocks(kinds, texts) == [kind: kinds, text: texts, times: Nat]
Those(runs, blocks) ==
    FoldLeft(LAMBDA kept, r : IF r \in blocks THEN Append(kept, r) ELSE kept, <<>>, runs)
Kept(runs, kinds) == Those(runs, Blocks(kinds, Text))
Sanitized(runs) == [i \in DOMAIN runs |-> [runs[i] EXCEPT !.text = Clean[@]]]

\* An element without text is passed over, but for the title.
Visible == {t \in Text : TextLen[t] > 0}
Shown(runs) == Those(runs, Blocks(HtmlKinds, Visible))

\* parse_html: the first title, if it has a text; headings level by level, not in
\* the order of the document; list items are in no list; a `pre` with a `code`
\* inside is matched twice; code and tables are not sanitised.
ParseHtml(runs) ==
    [title      |-> LET t == Sanitized(Kept(runs, {"title"})) IN
                    IF t = <<>> \/ t[1].text \notin Visible THEN NoText ELSE t[1].text,
     headings   |-> Shown(Sanitized(Kept(runs, {"h1"}))) \o Shown(Sanitized(Kept(runs, {"h2"}))),
     paragraphs |-> Shown(Sanitized(Kept(runs, {"p"}))),
     code       |-> LET c == Shown(Kept(runs, {"pre", "pre_code"})) IN
                    [i \in DOMAIN c |-> [c[i] EXCEPT !.times = IF c[i].kind = "pre" THEN @ ELSE 2 * @]],
     tables     |-> Shown(Kept(runs, {"table"}))]

\* The patterns of sanitize_for_injection have \s+ between their words and some of
\* them at the end, and a Markdown file is sanitised before it is split: a match may
\* run over the end of a line, into one without markup or, if white space ends it,
\* up to whatever follows.  The two lines are read as one.  (A match over three
\* lines is not modelled.)
RunsOver(l, r) ==
    <<l.text, r.text>> \in DOMAIN Joined /\ (r.kind = "text" \/ l.text \in Swallows)

\* A "# " that comes to stand within a paragraph stays one.
JoinedKind(l, r) ==
    IF l.kind \in {"text", "-"} /\ r.kind \in {"#", "##", "####"} THEN "####" ELSE l.kind

JoinLine(lines, r) ==
    IF lines # <<>> /\ RunsOver(Last(lines), r)
    THEN [lines EXCEPT ![Len(lines)] =
             [kind |-> JoinedKind(@, r), text |-> Joined[<<@.text, r.text>>], times |-> @.times]]
    ELSE Append(lines, r)

Lines(runs) == FoldLeft(JoinLine, <<>>, runs)

\* parse_markdown: the last "# " line is the title; fences are skipped and what is
\* between them is text; every "|" line is a table.
ParseMarkdown(runs) ==
    LET lines == Lines(runs) IN
    [title      |-> LET t == Sanitized(Kept(lines, {"#"})) IN
                    IF t = <<>> THEN NoText ELSE Last(t).text,
     headings   |-> Sanitized(Kept(lines, {"##"})),
     paragraphs |-> Sanitized(Kept(lines, {"####", "text", "-"})),
     code       |-> <<>>,
     tables     |-> Sanitized(Kept(lines, {"|"}))]

Parse(p) == IF p.format = "html" THEN ParseHtml(p.runs) ELSE ParseMarkdown(p.runs)

\* The texts of a list, one by one.
Each(runs) == FlattenSeq([i \in DOMAIN runs |-> [j \in 1..runs[i].times |-> runs[i].text]])

Total(ns) == FoldLeft(LAMBDA n, x : n + x, 0, ns)
Count(runs) == Total([i \in DOMAIN runs |-> runs[i].times])

-----------------------------------------------------------------------------
(* The compiler.                                                           *)

Least(a, b) == IF a < b THEN a ELSE b
Bytes(runs, extra) == Total([i \in DOMAIN runs |-> runs[i].times * (TextLen[runs[i].text] + extra)])

\* Mutant: the iterator of paragraphs starts anew at each heading.
PairsRestarted(parsed) ==
    LET asked == Each(parsed.headings)  said == Each(parsed.paragraphs) IN
    [k \in 1..Least(20, Len(asked)) |->
        [question |-> asked[k], answer |-> IF said # <<>> THEN said[1] ELSE NoText]]

\* Mutant: the last paragraphs make the summary.
SummaryOfLast(parsed) ==
    LET all == Each(parsed.paragraphs) IN
    SubSeq(all, IF Len(all) > 3 THEN Len(all) - 2 ELSE 1, Len(all))

\* The paragraphs that compile_mdoc joins to the summary.
Summary(parsed) ==
    LET all == Each(parsed.paragraphs) IN SubSeq(all, 1, Least(3, Len(all)))

\* join(" ")
SummaryLen(parsed) ==
    LET said == Summary(parsed) IN
    Total([i \in DOMAIN said |-> TextLen[said[i]] + (IF i > 1 THEN 1 ELSE 0)])

\* generate_qa_pairs: the k-th heading with the k-th paragraph, 20 at most.
QaPairs(parsed) ==
    LET asked == Each(parsed.headings)  said == Each(parsed.paragraphs) IN
    [k \in 1..Least(20, Len(asked)) |->
        [question |-> asked[k], answer |-> IF k <= Len(said) THEN said[k] ELSE NoText]]

\* token_count of the .mdoc: a token is four bytes; "What is ...?" adds nine.
Tokens(parsed) ==
    LET pairs == QaPairs(parsed)
        answerLen(k) == IF pairs[k].answer = NoText THEN 34 ELSE TextLen[pairs[k].answer]
    IN  SummaryLen(parsed) \div 4
        + Total([k \in DOMAIN pairs |->
                    (TextLen[pairs[k].question] + 9) \div 4 + answerLen(k) \div 4])

\* raw_markdown.len() of compile_doc.
MarkdownLen(parsed) ==
    (IF parsed.title = NoText THEN 0 ELSE TextLen[parsed.title] + 4)
    + Bytes(parsed.headings, 5) + Bytes(parsed.paragraphs, 2) + Bytes(parsed.code, 10)

\* The relevance multiplier, in tenths.
Relevance(pairs) ==
    CASE pairs > 20 -> 30
      [] pairs \in 11..20 -> 20
      [] pairs \in 6..10 -> 15
      [] pairs \in 1..5 -> 12
      [] OTHER -> 10

\* A "####" line is a paragraph that holds a "# ", and counts as a heading.
HashMarks(p, parsed) ==
    Count(parsed.headings) + (IF parsed.title = NoText THEN 0 ELSE 1)
    + (IF p.format = "md" THEN Count(Kept(Lines(p.runs), {"####"})) ELSE 0)

\* calculate_quality_score.  The site id that signs a .doc is always made, so
\* the trust premium of 50 is always given.
ScoreOfParsed(p, parsed) ==
    LET base == Least(MarkdownLen(parsed), 5000) \div 10
                + 5 * HashMarks(p, parsed)
                + 15 * Count(parsed.tables)
                + 10 * Count(parsed.code)
        summary == IF SummaryLen(parsed) > 50 THEN Least(SummaryLen(parsed), 500) \div 5 ELSE 0
    IN  ((base + 50 + summary) * Relevance(Len(QaPairs(parsed)))) \div 10

QualityScore(p) == ScoreOfParsed(p, Parse(p))

-----------------------------------------------------------------------------
PageInit == \E f \in {"html", "md"} : page = [format |-> f, runs |-> <<>>]

\* A line of Markdown stands once and has a text: an empty one is passed over.
MayStand(format, r) ==
    IF format = "md" THEN r.kind \in MarkdownKinds /\ r.times = 1 /\ r.text \in Visible
    ELSE r.kind \in HtmlKinds

\* The author adds blocks at the end of the page.
AppendRun(r) ==
    /\ Len(page.runs) < MaxRuns
    /\ MayStand(page.format, r)
    /\ page' = [page EXCEPT !.runs = Append(@, r)]

PageNext == \E r \in Run : AppendRun(r)

PageSpec == PageInit /\ [][PageNext]_page

-----------------------------------------------------------------------------
(* Properties.                                                             *)

TitleLen(p) == LET t == Parse(p).title IN IF t = NoText THEN 0 ELSE TextLen[t]

\* The blocks of a page as the parsers come to see them.
AsRead(p) == IF p.format = "md" THEN Lines(p.runs) ELSE p.runs

\* A page that is continued never loses score, although every part of it is
\* capped and the summary, the pairs and the multiplier depend on the position
\* of blocks: unless a later "# " line replaces a longer title, which takes its
\* bytes away, or a new line completes a command that the last one began, which
\* redacts what was there (compile_mdoc, compile_doc, calculate_quality_score,
\* parse_markdown).
GrowthNeverLowersScore ==
    [][TitleLen(page') >= TitleLen(page) /\ IsPrefix(AsRead(page), AsRead(page'))
          => QualityScore(page') >= QualityScore(page)]_page

\* Headings are of one level (in HTML) and each has one paragraph after it, none
\* of them empty.
Alternates(runs) ==
    /\ \A i \in DOMAIN runs : runs[i].times = 1 /\ Clean[runs[i].text] \in Visible
    /\ \/ \A i \in DOMAIN runs : runs[i].kind = IF i % 2 = 1 THEN "h2" ELSE "p"
       \/ \A i \in DOMAIN runs : IF i % 2 = 1 THEN runs[i].kind = "##"
                                              ELSE runs[i].kind \in {"text", "-"}

\* "the following paragraph becomes the answer" (generate_qa_pairs) is so on a
\* page of headings of one level with one paragraph each: two lists filled in
\* separate passes still go together.  In Markdown this is of the lines as they are
\* read, after a command over two lines has made them one.
AnswersFollowQuestions ==
    LET blocks == AsRead(page)
        pairs == QaPairs(Parse(page))
    IN  Alternates(blocks) =>
            \A k \in DOMAIN pairs :
                /\ pairs[k].question = Clean[blocks[2 * k - 1].text]
                /\ pairs[k].answer = IF 2 * k <= Len(blocks) THEN Clean[blocks[2 * k].text]
                                     ELSE NoText
=============================================================================
