------------------------------ MODULE MCOutbox ------------------------------
\* Two workers whose leases may overlap.  MCOutbox.cfg follows one event, with
\* a retry, to its end; MCOutboxStuck.cfg has nobody to restart the consumer.
\* With Events = {e1, e2}, no retry and Spec a batch has two events.
EXTENDS Outbox, TLC

MCSymmetry == Permutations(Events) \cup Permutations(Workers)
=============================================================================
