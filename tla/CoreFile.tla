------------------------------ MODULE CoreFile ------------------------------
(***************************************************************************)
(* A site on its way to a .core file: CoreCompiler                         *)
(* (src/src/core_file.rs), and the other compiler of whole sites, the      *)
(* DocumentPipeline (src/src/pipeline.rs).                                 *)
(*                                                                         *)
(* The author goes on writing while the compiler walks the directory, and  *)
(* the hour of the signatures may turn between two pages.  Paths are       *)
(* numbers in the order of their names; a domain is its labels.            *)
(***************************************************************************)
EXTENDS Document, FiniteSets

CONSTANTS
    Path,        \* paths in the directory, in the order of their names
    Contents,    \* what a file may hold: pages as in Document
    Unreadable,  \* what read_to_string refuses
    Absent,      \* no file
    Unlisted,    \* a file that WalkDir cannot list, as under a directory it may not read
    Wide,        \* texts with characters of more than one byte
    Domain,      \* domains a site is compiled for, as sequences of labels
    Opt,         \* the label of the .opt TLD
    NoCore,      \* nothing is compiled
    MaxBatch,    \* max_batch_size of the pipeline
    MaxEdited,   \* bound on the files the author changes meanwhile
    MaxHour      \* bound on the clock

ASSUME CoreAssumption ==
    /\ Path \subseteq Nat
    /\ \A d \in Domain : d # <<>>
    /\ {Unreadable, Absent, Unlisted} \cap Contents = {}
    /\ Unreadable \notin {Absent, Unlisted} /\ Wide \subseteq Text
    /\ Contents \subseteq [format: {"html", "md", "markdown"}, runs: Seq(Run)]
    /\ \A c \in Contents : \A i \in DOMAIN c.runs : c.format = "md" => MayStand("md", c.runs[i])
    /\ MaxBatch \in Nat \ {0} /\ MaxEdited \in Nat /\ MaxHour \in Nat

VARIABLES
    files,     \* the directory
    edited,    \* files the author changes during the walk
    domain,    \* the argument of the command
    phase,     \* of compile_from_directory
    listed,    \* files that the walk has still to visit
    pages,     \* what was read, in the order of the walk
    corePages, \* core_pages, before it is sorted
    begun,     \* hour of site_id
    hour,      \* unix time in hours
    core       \* the result, NoCore before and after an error

coreVars == <<files, edited, domain, phase, listed, pages, corePages, begun, hour, core>>

-----------------------------------------------------------------------------
(* Domains and pages.                                                      *)

\* RfoDomain::parse: a standard domain has two labels at least.
DomainIsValid(d) == Last(d) = Opt \/ Len(d) >= 2

\* url.ends_with(".md"): a ".markdown" file is taken for HTML, in which it has
\* no element at all.
PageOf(content) == IF content.format = "markdown" THEN [format |-> "html", runs |-> <<>>] ELSE content

\* One round of the loop of compile_from_pages.
CorePage(file, signed) ==
    LET written == PageOf(file.content)
        parsed == Parse(written)
    IN  [path |-> file.path, title |-> parsed.title,
         quality_score |-> QualityScore(written), token_count |-> Tokens(parsed),
         qa_pair_count |-> Len(QaPairs(parsed)), signed |-> signed,
         first |-> IF parsed.paragraphs = <<>> THEN NoText ELSE parsed.paragraphs[1].text]

Scores(s) == Total([i \in DOMAIN s |-> s[i].quality_score])
TotalTokens(s) == Total([i \in DOMAIN s |-> s[i].token_count])
TotalQas(s) == Total([i \in DOMAIN s |-> s[i].qa_pair_count])

\* Mutant: the pages stay in the order of the walk.
AsWalked(s) == s

\* core_pages.sort_by(path), which is stable: a page comes after as many as
\* have a smaller path, or the same and were pushed before it.
Before(s, i) ==
    {j \in DOMAIN s : s[j].path < s[i].path \/ (s[j].path = s[i].path /\ j < i)}
Sorted(s) ==
    [k \in DOMAIN s |-> s[CHOOSE i \in DOMAIN s : Cardinality(Before(s, i)) = k - 1]]

\* max_by_key takes the last of the best, min_by_key the first of the worst.
Worse(s, i) ==
    {j \in DOMAIN s : s[j].quality_score < s[i].quality_score
                      \/ (s[j].quality_score = s[i].quality_score /\ j < i)}
BestOf(s) == s[CHOOSE i \in DOMAIN s : DOMAIN s \subseteq Worse(s, i) \cup {i}]
Better(s, i) ==
    {j \in DOMAIN s : s[j].quality_score > s[i].quality_score
                      \/ (s[j].quality_score = s[i].quality_score /\ j > i)}
WorstOf(s) == s[CHOOSE i \in DOMAIN s : DOMAIN s \subseteq Better(s, i) \cup {i}]

AeoReadiness(qas) ==
    CASE qas > 20 -> 95
      [] qas \in 11..20 -> 80
      [] qas \in 6..10 -> 65
      [] qas \in 1..5 -> 40
      [] OTHER -> 10

Overall(s) ==
    IF s = <<>> THEN 0
    ELSE Scores(s) \div Len(s)
         + (IF TotalQas(s) > 0 /\ AeoReadiness(TotalQas(s)) > 50 THEN 5 ELSE 0)

\* The first paragraphs, in the order of the walk: what content_root_hash is of.
FirstParagraphs(s) == SelectSeq([i \in DOMAIN s |-> s[i].first], LAMBDA t : t # NoText)

\* all_text: they are joined with spaces, and cut after the 1000th byte.
SummaryCap == 1000
AllText(texts) == Total([i \in DOMAIN texts |-> TextLen[texts[i]] + (IF i > 1 THEN 1 ELSE 0)])

\* The cut is within a text of wide characters, and then perhaps within one of them.
CutInText(texts) ==
    \E k \in DOMAIN texts :
        /\ texts[k] \in Wide
        /\ AllText(SubSeq(texts, 1, k)) - TextLen[texts[k]] < SummaryCap
        /\ AllText(SubSeq(texts, 1, k)) > SummaryCap

-----------------------------------------------------------------------------
(* compile_from_directory.                                                 *)

\* WalkDir lists the directory; nothing sorts it.  An entry that is an error is
\* passed over without a word.
StartWalk ==
    /\ phase = "idle"
    /\ phase' = "walk"
    /\ listed' = {f \in Path : files[f] \notin {Absent, Unlisted}}
    /\ UNCHANGED <<files, edited, domain, pages, corePages, begun, hour, core>>

ReadFile(f) ==
    /\ phase = "walk" /\ f \in listed /\ files[f] \in Contents
    /\ listed' = listed \ {f}
    /\ pages' = Append(pages, [path |-> f, content |-> files[f]])
    /\ UNCHANGED <<files, edited, domain, phase, corePages, begun, hour, core>>

\* Mutant: the file is passed over.
ReadSkips(f) ==
    /\ phase = "walk" /\ f \in listed /\ files[f] \notin Contents
    /\ listed' = listed \ {f}
    /\ UNCHANGED <<files, edited, domain, phase, pages, corePages, begun, hour, core>>

\* One file that cannot be read, or is gone since, ends the whole compile.
ReadFails(f) ==
    /\ phase = "walk" /\ f \in listed /\ files[f] \notin Contents
    /\ phase' = "failed"
    /\ UNCHANGED <<files, edited, domain, listed, pages, corePages, begun, hour, core>>

\* compile_from_pages: the domain, and the site id of this hour.
BeginPages ==
    /\ phase = "walk" /\ listed = {}
    /\ phase' = IF DomainIsValid(domain) THEN "pages" ELSE "failed"
    /\ begun' = hour
    /\ UNCHANGED <<files, edited, domain, listed, pages, corePages, hour, core>>

\* compile_doc signs each page with the hour it is compiled in.
CompilePage ==
    /\ phase = "pages" /\ Len(corePages) < Len(pages)
    /\ corePages' = Append(corePages, CorePage(pages[Len(corePages) + 1], hour))
    /\ UNCHANGED <<files, edited, domain, phase, listed, pages, begun, hour, core>>

\* Mutant: one site id is made, at the end.
SiteIdOfEnd == hour

\* core.site.site_id
SiteId == begun

\* The .core file.  The site id signature is a second site id, made here.
CoreOf(s) ==
    LET sorted == Sorted(s) IN
    [pages |-> sorted, overall |-> Overall(sorted),
     best_page |-> IF s = <<>> THEN NoCore ELSE BestOf(sorted).path,
     worst_page |-> IF s = <<>> THEN NoCore ELSE WorstOf(sorted).path,
     total_tokens |-> TotalTokens(s), total_qa_pairs |-> TotalQas(s),
     title |-> IF s = <<>> THEN NoText ELSE sorted[1].title,
     root |-> FirstParagraphs(s),
     site_id |-> SiteId, site_id_signature |-> hour]

Finish ==
    /\ phase = "pages" /\ Len(corePages) = Len(pages)
    /\ phase' = "done"
    /\ core' = CoreOf(corePages)
    /\ UNCHANGED <<files, edited, domain, listed, pages, corePages, begun, hour>>

\* &all_text[..1000] panics inside a character, and the command ends without a file.
FinishPanics ==
    /\ phase = "pages" /\ Len(corePages) = Len(pages)
    /\ CutInText(FirstParagraphs(corePages))
    /\ phase' = "panicked"
    /\ UNCHANGED <<files, edited, domain, listed, pages, corePages, begun, hour, core>>

-----------------------------------------------------------------------------
(* The DocumentPipeline, over the same pages in the same order.            *)

\* Mutant: the batch is one page short.
BatchShort(s) == SubSeq(s, 1, Least(MaxBatch, Len(s)) - 1)

\* compile_site takes max_batch_size pages and drops the others without an error.
Batch(s) == SubSeq(s, 1, Least(MaxBatch, Len(s)))

\* compile_page parses every page as HTML.
PipelinePage(file) ==
    CorePage(IF file.content.format = "html" THEN file
             ELSE [file EXCEPT !.content.format = "markdown"], hour)

CompileSite(s) == [i \in DOMAIN Batch(s) |-> PipelinePage(Batch(s)[i])]

\* calculate_stats
SiteStats(site) ==
    [total_pages |-> Len(site),
     avg_quality_score |-> IF site = <<>> THEN 0 ELSE Scores(site) \div Len(site),
     min_quality_score |-> IF site = <<>> THEN 0 ELSE WorstOf(site).quality_score,
     max_quality_score |-> IF site = <<>> THEN 100 ELSE BestOf(site).quality_score,
     total_tokens |-> TotalTokens(site),
     total_qa_pairs |-> TotalQas(site)]

-----------------------------------------------------------------------------
CoreInit ==
    /\ files \in [Path -> Contents \cup {Unreadable, Absent, Unlisted}]
    /\ domain \in Domain
    /\ edited = {} /\ phase = "idle" /\ listed = {} /\ pages = <<>> /\ corePages = <<>>
    /\ begun = 0 /\ hour = 0 /\ core = NoCore

\* External: the author writes or deletes a file while the compiler reads.
Edit(f, c) ==
    /\ phase = "walk" /\ files[f] # c
    /\ edited' = edited \cup {f} /\ Cardinality(edited') <= MaxEdited
    /\ files' = [files EXCEPT ![f] = c]
    /\ UNCHANGED <<domain, phase, listed, pages, corePages, begun, hour, core>>

\* External: the hour turns.
TickHour ==
    /\ phase = "pages" /\ hour < MaxHour
    /\ hour' = hour + 1
    /\ UNCHANGED <<files, edited, domain, phase, listed, pages, corePages, begun, core>>

CoreNext ==
    \/ StartWalk \/ BeginPages \/ CompilePage \/ Finish \/ FinishPanics \/ TickHour
    \/ \E f \in Path : ReadFile(f) \/ ReadFails(f)
                       \/ \E c \in Contents \cup {Absent} : Edit(f, c)

CoreSpec == CoreInit /\ [][CoreNext]_coreVars

-----------------------------------------------------------------------------
(* Properties.                                                             *)

\* A compile of pages has its parts, in step with its phase: the result comes
\* last, after every page was compiled, with a title and a site id
\* (compile_from_directory, compile_from_pages).
CoreTypeOK ==
    /\ phase \in {"idle", "walk", "pages", "done", "failed", "panicked"}
    /\ listed \subseteq Path /\ edited \subseteq Path
    /\ Len(corePages) <= Len(pages)
    /\ begun \in 0..hour /\ hour <= MaxHour
    /\ core # NoCore => /\ phase = "done" /\ Len(core.pages) = Len(pages)
                        /\ core.title \in Text \cup {NoText}
                        /\ core.site_id \in 0..core.site_id_signature
                        /\ core.pages # <<>> => core.overall >= 50

Read == {pages[i] : i \in DOMAIN pages}
ScoreOf(file) == QualityScore(PageOf(file.content))

\* What a site is judged by does not depend on the order in which WalkDir met
\* its files, which no code fixes: the title is that of the first path, ties go
\* to the last path for the best page and to the first for the worst
\* (compile_from_pages).
WalkOrderIrrelevant ==
    core # NoCore /\ Read # {} =>
        LET best == {f \in Read : \A g \in Read : ScoreOf(g) <= ScoreOf(f)}
            worst == {f \in Read : \A g \in Read : ScoreOf(g) >= ScoreOf(f)}
        IN  /\ \E f \in Read : /\ \A g \in Read : f.path <= g.path
                               /\ core.title = Parse(PageOf(f.content)).title
            /\ \E f \in best : core.best_page = f.path /\ \A g \in best : g.path <= f.path
            /\ \E f \in worst : core.worst_page = f.path /\ \A g \in worst : f.path <= g.path

\* A .core file whose two site ids agree is of one hour: the signature of every
\* page is that site id too, however long the compile took (generate_site_id,
\* called once before, once after and once for every page).
SignedInOneHour ==
    core # NoCore /\ core.site_id = core.site_id_signature =>
        \A i \in DOMAIN core.pages : core.pages[i].signed = core.site_id

\* All or nothing of what WalkDir lists, while the author writes: a .core file has
\* every file that was there, was left alone and could be listed, once and as it
\* stands; without one, some file could not be read, the domain has no TLD, or the
\* text of the site is too long and not of single bytes (compile_from_directory,
\* compile_from_pages).
AllOrNothing ==
    /\ core # NoCore => \A f \in Path \ edited :
          /\ files[f] # Unreadable
          /\ {i \in DOMAIN core.pages : core.pages[i].path = f}
                = {i \in DOMAIN core.pages : files[f] \in Contents /\ core.pages[i].path = f
                        /\ core.pages[i].quality_score = QualityScore(PageOf(files[f]))}
          /\ Cardinality({i \in DOMAIN core.pages : core.pages[i].path = f})
                = IF files[f] \in Contents THEN 1 ELSE 0
    /\ phase = "failed" => \/ edited # {} \/ ~DomainIsValid(domain)
                           \/ \E f \in Path : files[f] = Unreadable
    /\ phase = "panicked" => CutInText(FirstParagraphs(corePages)) /\ core = NoCore

\* The two compilers of sites agree on a site of HTML pages that fits into one
\* batch (compile_from_pages; compile_site with calculate_stats).
PipelineAgrees ==
    LET stats == SiteStats(CompileSite(pages)) IN
    core # NoCore /\ Len(pages) \in 1..MaxBatch
    /\ (\A i \in DOMAIN pages : pages[i].content.format = "html") =>
        /\ stats.total_pages = Len(core.pages)
        /\ stats.total_tokens = core.total_tokens
        /\ stats.total_qa_pairs = core.total_qa_pairs
        /\ stats.min_quality_score <= core.overall
        /\ core.overall - stats.avg_quality_score \in {0, 5}
        /\ stats.max_quality_score = BestOf(core.pages).quality_score
=============================================================================
