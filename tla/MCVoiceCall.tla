------------------------------ MODULE MCVoiceCall ------------------------------
EXTENDS VoiceCall
=============================================================================
