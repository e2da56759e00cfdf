--------------------------- MODULE MCRefreshJobs ---------------------------
\* A web handler and a scraper ask for refreshes.
EXTENDS RefreshJobs

CONSTANTS w1, s1

OneWeb == {w1}
OneScraper == {s1}
FastOnly == {"fast"}
=============================================================================
