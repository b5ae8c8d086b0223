-------------------------- MODULE MCWebhookPipeline --------------------------
(***************************************************************************)
(* WebhookPipeline with two audit notices on one document, of which the    *)
(* second is older than the first, and two notices without their store:    *)
(* an audit notice, newer than both, and a business notice.  Two signed    *)
(* requests carry the first two notices, or one of the notices twice.      *)
(***************************************************************************)
EXTENDS WebhookPipeline, TLC

CONSTANTS n1, n2, unscoped, business, r1, r2

MCCarriages  ==
    {(r1 :> n1) @@ (r2 :> n2)} \cup {[r \in Requests |-> n] : n \in {n1, unscoped, business}}
MCOccurredAt == (n1 :> 2) @@ (n2 :> 1) @@ (unscoped :> 3)
=============================================================================
