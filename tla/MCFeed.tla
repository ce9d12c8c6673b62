------------------------------- MODULE MCFeed -------------------------------
\* Two buckets of two minutes, and a refresh when the first is over.
EXTENDS Feed
MCSchedule == <<3>>
=============================================================================
