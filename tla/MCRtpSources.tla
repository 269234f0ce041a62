---------------------------- MODULE MCRtpSources ----------------------------
EXTENDS RtpSources
=============================================================================
