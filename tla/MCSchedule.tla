----------------------------- MODULE MCSchedule -----------------------------
EXTENDS Schedule

MCInitVotes == <<2, 1>>
MCInitMiners == <<2>>
=============================================================================
