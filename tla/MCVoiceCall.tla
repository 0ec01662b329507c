----------------------------- MODULE MCVoiceCall -----------------------------
EXTENDS VoiceCall, TLC
=============================================================================
