---------------------------- MODULE ReportFeed ----------------------------
(***************************************************************************)
(* What the workers promise to the API process about the validation        *)
(* reports of one tenant: a report is stored under the latest key of Redis *)
(* once, no two are alike, and then, once, published or given up; there    *)
(* are never more reports in between than worker processes; the key may    *)
(* expire.                                                                 *)
(*                                                                         *)
(* ValidationTask implements this specification, and InterfaceChannel is   *)
(* the API process fed by it.                                              *)
(***************************************************************************)
EXTENDS Naturals, FiniteSets

CONSTANTS
    Report,   \* the reports
    NoReport, \* None, where a report is expected
    Workers   \* worker processes (celery --concurrency=2)

ASSUME FeedAssumption == NoReport \notin Report /\ Workers \in Nat \ {0}

VARIABLES
    latest,   \* Redis: interface_validation:latest:{tenant}
    pending,  \* reports stored and not yet published
    stored    \* history: the reports stored so far, no two with one completed_at

feedVars == <<latest, pending, stored>>

FeedInit ==
    /\ latest = NoReport
    /\ pending = {}
    /\ stored = {}

(* client.setex *)
StoreReport(r) ==
    /\ r \in Report \ stored
    /\ Cardinality(pending) < Workers
    /\ latest' = r
    /\ pending' = pending \cup {r}
    /\ stored' = stored \cup {r}

(* client.publish, or its failure, or the end of the worker *)
CloseReport(r) ==
    /\ r \in pending
    /\ pending' = pending \ {r}
    /\ UNCHANGED <<latest, stored>>

ExpireLatest ==
    /\ latest # NoReport
    /\ latest' = NoReport
    /\ UNCHANGED <<pending, stored>>

FeedNext ==
    \/ \E r \in Report : StoreReport(r) \/ CloseReport(r)
    \/ ExpireLatest

FeedSpec == FeedInit /\ [][FeedNext]_feedVars
=============================================================================
