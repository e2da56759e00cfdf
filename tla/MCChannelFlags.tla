-------------------------- MODULE MCChannelFlags --------------------------
\* Channels and URLs for the runs of ChannelFlags.
EXTENDS ChannelFlags, TLC

CONSTANTS c1, c2, c3, u1, u2

OneChannel == {c1}
TwoChannels == {c1, c2}
ThreeChannels == {c1, c2, c3}
OneUrl == {u1}
TwoUrls == {u1, u2}
AllWork == {"scrapes", "audits", "reports", "requests", "maintenance"}
ScrapesAndAudits == {"scrapes", "audits"}
ScrapesAndRequests == {"scrapes", "requests"}
ScrapesAuditsRequests == {"scrapes", "audits", "requests"}
ScrapesAndMaintenance == {"scrapes", "maintenance"}

Symmetric2 == Permutations(TwoChannels)
Symmetric3 == Permutations(ThreeChannels)
SymmetricUrls == Permutations(TwoUrls)
=============================================================================
