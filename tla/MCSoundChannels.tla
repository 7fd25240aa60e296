--------------------------- MODULE MCSoundChannels ---------------------------
EXTENDS SoundChannels
=============================================================================
