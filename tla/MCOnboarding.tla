----------------------------- MODULE MCOnboarding -----------------------------
(***************************************************************************)
(* One address, that registers or is invited, with two challenges: the     *)
(* second one, and a change of the employee's status, revoke the first     *)
(* while its mail is anywhere on its way.  Two workers deliver with a      *)
(* limit of two attempts; two calls, messages, processes or leases fail,   *)
(* enough to spend both attempts of a mail, and one when the mail is sent  *)
(* again.  MCOnboardingAccepted: one worker and one challenge.             *)
(***************************************************************************)
EXTENDS Onboarding
==============================================================================
