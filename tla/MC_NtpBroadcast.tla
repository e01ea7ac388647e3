-------------------------- MODULE MC_NtpBroadcast --------------------------
EXTENDS NtpBroadcast
OneSecond == {-1, 1}
LongAgo == -4
=============================================================================
