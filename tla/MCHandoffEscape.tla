-------------------------- MODULE MCHandoffEscape ---------------------------
EXTENDS HandoffEscape

OnePeer == {<<1, 0>>}
NoBroadcasts == {}
=============================================================================
