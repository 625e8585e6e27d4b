------------------------------ MODULE Telemetry ------------------------------
(***************************************************************************)
(* The telemetry of sites and its report: TelemetryTracker                 *)
(* (src/src/telemetry.rs).  Handshakes record while a report walks three   *)
(* maps, one entry after the other and no two of them under one lock.      *)
(***************************************************************************)
EXTENDS Integers, Sequences, FiniteSets, FiniteSetsExt

CONSTANTS
    Recorder,    \* handshakes, each recording once
    Site,        \* site ids; each belongs to one domain
    Score,       \* quality scores
    HistoryCap,  \* scores kept for a site: 50
    TopCap       \* sites of the ranking: 10

ASSUME TelemetryAssumption == HistoryCap \in Nat \ {0} /\ TopCap \in Nat /\ IsFiniteSet(Recorder)

VARIABLES
    site_domains,      \* sites whose domain is known
    quality_history,   \* scores by site
    handshake_counts,  \* handshakes by site
    recorder,          \* what each handshake has still to record
    recorded,          \* all scores ever recorded, by site
    report             \* a call of report()

telemetryVars ==
    <<site_domains, quality_history, handshake_counts, recorder, recorded, report>>

NoReport == [at |-> "off", todo |-> {}, trends |-> <<>>, counts |-> <<>>, named |-> {}, scored |-> {}]

TelemetryTypeOK ==
    /\ site_domains \subseteq Site
    /\ \A s \in Site : /\ quality_history[s] \in Seq(Score) /\ recorded[s] \in Seq(Score)
                       /\ handshake_counts[s] \in 0..Cardinality(Recorder)
    /\ \A r \in Recorder : recorder[r].at \in {"idle", "domain", "score", "count", "done"}
    /\ report.at \in {"off", "trends", "sites", "done"}
    /\ report.todo \cup DOMAIN report.trends \cup DOMAIN report.counts \subseteq Site

-----------------------------------------------------------------------------
(* Recording.                                                              *)

\* A handshake that compiled records the score and itself; one that was served
\* from the cache only itself.
Begin(r) ==
    /\ recorder[r].at = "idle"
    /\ \E s \in Site, n \in Score, from \in {"domain", "count"} :
            recorder' = [recorder EXCEPT ![r] = [at |-> from, site |-> s, score |-> n]]
    /\ UNCHANGED <<site_domains, quality_history, handshake_counts, recorded, report>>

\* record_quality_score: site_domains.insert ...
RecordDomain(r) ==
    /\ recorder[r].at = "domain"
    /\ site_domains' = site_domains \cup {recorder[r].site}
    /\ recorder' = [recorder EXCEPT ![r].at = "score"]
    /\ UNCHANGED <<quality_history, handshake_counts, recorded, report>>

\* Mutant: truncate instead of drain.
CappedAtEnd(history) ==
    IF Len(history) > HistoryCap THEN SubSeq(history, 1, HistoryCap) ELSE history

\* history.drain(0..len - 50)
Capped(history) ==
    IF Len(history) > HistoryCap
    THEN SubSeq(history, Len(history) - HistoryCap + 1, Len(history)) ELSE history

\* ... then the history, under the lock of its entry.
RecordScore(r) ==
    LET s == recorder[r].site IN
    /\ recorder[r].at = "score"
    /\ quality_history' = [quality_history EXCEPT ![s] = Capped(Append(@, recorder[r].score))]
    /\ recorded' = [recorded EXCEPT ![s] = Append(@, recorder[r].score)]
    /\ recorder' = [recorder EXCEPT ![r].at = "count"]
    /\ UNCHANGED <<site_domains, handshake_counts, report>>

\* record_handshake
RecordHandshake(r) ==
    /\ recorder[r].at = "count"
    /\ handshake_counts' = [handshake_counts EXCEPT ![recorder[r].site] = @ + 1]
    /\ recorder' = [recorder EXCEPT ![r].at = "done"]
    /\ UNCHANGED <<site_domains, quality_history, recorded, report>>

-----------------------------------------------------------------------------
(* report.  A map is walked in any order; a site that comes into it during *)
(* the walk may be met or not.                                             *)

Scored == {s \in Site : quality_history[s] # <<>>}
Counted == {s \in Site : handshake_counts[s] > 0}

StartReport ==
    /\ report.at = "off"
    /\ report' = [NoReport EXCEPT !.at = "trends", !.todo = Site]
    /\ UNCHANGED <<site_domains, quality_history, handshake_counts, recorder, recorded>>

\* The trend of a site, whose domain is looked up after its history.
ReportTrend(s) ==
    /\ report.at = "trends" /\ s \in report.todo \cap Scored
    /\ report' = [report EXCEPT
            !.todo = @ \ {s},
            !.trends = [t \in DOMAIN @ \cup {s} |->
                            IF t = s THEN [history |-> quality_history[s], at |-> Len(recorded[s])]
                            ELSE @[t]],
            !.named = IF s \in site_domains THEN @ \cup {s} ELSE @]
    /\ UNCHANGED <<site_domains, quality_history, handshake_counts, recorder, recorded>>

\* The ranking: count, domain and last score of a site.
ReportSite(s) ==
    /\ report.at = "sites" /\ s \in report.todo \cap Counted
    /\ report' = [report EXCEPT
            !.todo = @ \ {s},
            !.counts = [t \in DOMAIN @ \cup {s} |-> IF t = s THEN handshake_counts[s] ELSE @[t]],
            !.named = IF s \in site_domains THEN @ \cup {s} ELSE @ \ {s},
            !.scored = IF s \in Scored THEN @ \cup {s} ELSE @]
    /\ UNCHANGED <<site_domains, quality_history, handshake_counts, recorder, recorded>>

\* The walk passes over a site that is not in the map.
PassOver(s) ==
    /\ s \in report.todo
    /\ \/ report.at = "trends" /\ s \notin Scored
       \/ report.at = "sites" /\ s \notin Counted
    /\ report' = [report EXCEPT !.todo = @ \ {s}]
    /\ UNCHANGED <<site_domains, quality_history, handshake_counts, recorder, recorded>>

WalkDone ==
    /\ report.at \in {"trends", "sites"} /\ report.todo = {}
    /\ report' = IF report.at = "trends" THEN [report EXCEPT !.at = "sites", !.todo = Site]
                 ELSE [report EXCEPT !.at = "done"]
    /\ UNCHANGED <<site_domains, quality_history, handshake_counts, recorder, recorded>>

\* top_sites: sorted by count and cut; ties are in the order of the walk.
TopSites ==
    {top \in SUBSET DOMAIN report.counts :
        /\ Cardinality(top) = Min({TopCap, Cardinality(DOMAIN report.counts)})
        /\ \A s \in top, t \in DOMAIN report.counts \ top : report.counts[t] <= report.counts[s]}

-----------------------------------------------------------------------------
TelemetryInit ==
    /\ site_domains = {} /\ report = NoReport
    /\ quality_history = [s \in Site |-> <<>>] /\ recorded = [s \in Site |-> <<>>]
    /\ handshake_counts = [s \in Site |-> 0]
    /\ recorder = [r \in Recorder |-> [at |-> "idle", site |-> 0, score |-> 0]]

TelemetryNext ==
    \/ \E r \in Recorder : Begin(r) \/ RecordDomain(r) \/ RecordScore(r) \/ RecordHandshake(r)
    \/ \E s \in Site : ReportTrend(s) \/ ReportSite(s) \/ PassOver(s)
    \/ StartReport \/ WalkDone

TelemetrySpec == TelemetryInit /\ [][TelemetryNext]_telemetryVars

-----------------------------------------------------------------------------
(* Properties.                                                             *)

\* A report made beside the handshakes is of one piece: a trend has the domain of
\* its site and the last scores recorded for it, in their order, up to a moment
\* of the report; and a site of the ranking that has a trend in it has its domain
\* and a score as well (record_quality_score, report).
ReportIsWhole ==
    /\ \A s \in DOMAIN report.trends :
          LET trend == report.trends[s] IN
          /\ s \in report.named
          /\ trend.history = SubSeq(recorded[s], Max({1, trend.at - HistoryCap + 1}), trend.at)
    /\ report.at = "done" => \A top \in TopSites :
          top \cap DOMAIN report.trends \subseteq report.named \cap report.scored
=============================================================================
