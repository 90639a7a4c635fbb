----------------------- MODULE MCSubscriptionLifecycle -----------------------
(***************************************************************************)
(* Instances of SubscriptionLifecycle for TLC: short periods, one admin.   *)
(***************************************************************************)
EXTENDS SubscriptionLifecycle

CONSTANTS a1

OneAdmin == {a1}
Terms(trialDays, graceDays) == [trialDays |-> trialDays, graceDays |-> graceDays]
SomePlans == {Terms(0, 1), Terms(2, 1)}
OneExtension == {1}
SomePrices == {1}
SomeBillingDates == {1}
=============================================================================
