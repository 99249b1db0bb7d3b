----------------------------- MODULE MCDelivery -----------------------------
(* A small instance of Delivery for TLC: two changes, of which the second has *)
(* a guest without contact details.                                           *)
EXTENDS Delivery

CONSTANTS c1, c2, w1, n1

TwoChanges == {c1, c2}
ThreeJobs == {<<c1, "webhook">>, <<c2, "webhook">>, <<c1, "notification">>}
OneWebhookWorker == {w1}
OneNotificationWorker == {n1}
=============================================================================
