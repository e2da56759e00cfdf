-------------------------- MODULE MCChannelNumbers --------------------------
\* Channels 1 and 2 are of one source.
EXTENDS ChannelNumbers, TLC

MCProvider == 1 :> 1 @@ 2 :> 1
=============================================================================
