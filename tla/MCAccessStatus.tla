---------------------------- MODULE MCAccessStatus ----------------------------
\* One identity, about whom two requests and one socket share a question; the
\* evictions that other identities cause are the action Evicted.  The time-out of
\* the question is shorter than the life of its answer.
EXTENDS AccessStatus
=============================================================================
