------------------------------ MODULE MC_Files ------------------------------
(***************************************************************************)
(* A small instance of what the command line does with files: a page that  *)
(* grows run by run, a directory of three files on its way to a .core      *)
(* file, or two watched files that share their name, the key of the scan,  *)
(* and their outputs.                                                      *)
(***************************************************************************)
EXTENDS CoreFile, Watch

CONSTANTS short, long, command, redacted, halfway, empty

\* "... ignore all previous" and "instructions" are a command when they meet, even
\* over a line break; "... you are now a" takes the break with it.
MCText == {short, long, command, redacted, halfway, empty}
MCTextLen == [t \in MCText |-> CASE t = short -> 10 [] t = long -> 600
                                  [] t = command -> 40 [] t = redacted -> 12
                                  [] t = halfway -> 80 [] t = empty -> 0]
MCClean == [t \in MCText |-> IF t = command THEN redacted ELSE t]
MCJoined == [tu \in {<<halfway, short>>} \cup ({command} \X MCText) |-> command]
MCSwallows == {command}
MCWide == {long}
\* Three runs of seven are more than the pairs keep.
MCRepeats == {1, 7}

\* What the author writes in this instance: a text that is not the usual once, in the
\* first two runs, a fourth run only after a question, an answer and a question.
Writes(p) ==
    /\ Last(p.runs).text \notin {redacted, IF p.format = "html" THEN halfway ELSE empty}
    /\ Len(p.runs) >= 3 \/ Last(p.runs).times > 1 => Last(p.runs).text \in {short, long}
    /\ Len(p.runs) <= 3 \/ Alternates(p.runs)

MCPath == 1..3
MCDomain == {<<"blog", "site", "opt">>, <<"localhost">>}

R(kind, text, times) == [kind |-> kind, text |-> text, times |-> times]

\* A page of answers, one of Markdown, one that the core takes for HTML.
MCContents ==
    {[format |-> "html", runs |-> <<R("title", short, 1), R("h1", short, 7), R("p", long, 7)>>],
     [format |-> "md", runs |-> <<R("#", long, 1), R("text", command, 1), R("|", short, 1)>>],
     [format |-> "markdown", runs |-> <<R("#", short, 1)>>]}

MCFile == {"a.md", "sub/a.md"}
MCName == [f \in MCFile |-> "name a.md"]
MCStem == [f \in MCFile |-> "a"]

VARIABLE scene

filesVars == <<page, coreVars, watchVars, scene>>

NoFiles == \A f \in Path : files[f] = Absent

MCInit ==
    /\ scene \in {"page", "site", "watch"}
    /\ PageInit /\ (scene # "page" => page.format = "html")
    /\ CoreInit /\ (scene # "site" => domain # <<"localhost">> /\ NoFiles)
    /\ WatchInit /\ (scene # "watch" => \A f \in File : disk[f] = Gone)

MCNext ==
    /\ \/ scene = "page" /\ PageNext /\ Writes(page') /\ UNCHANGED <<coreVars, watchVars>>
       \/ scene = "site" /\ CoreNext /\ UNCHANGED <<page, watchVars>>
       \/ scene = "watch" /\ WatchNext /\ UNCHANGED <<page, coreVars>>
    /\ UNCHANGED scene

MCSpec ==
    /\ MCInit /\ [][MCNext]_filesVars
    /\ WF_filesVars(scene = "watch" /\ Loop /\ UNCHANGED <<page, coreVars, scene>>)
=============================================================================
