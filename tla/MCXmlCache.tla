---------------------------- MODULE MCXmlCache ----------------------------
\* Two processes rebuild one artifact of two parts.
EXTENDS XmlCache, TLC

CONSTANTS b1, b2

MCBuilders == {b1, b2}
BuilderSymmetry == Permutations(MCBuilders)
=============================================================================
