-------------------------- MODULE MCWebhookIngress --------------------------
(* Small instances of WebhookIngress.                                      *)
EXTENDS WebhookIngress

CONSTANTS opened, sync, push, pushBot, forged, comment, ping, odd, garbled,
          R, r,      \* the same repository, as spelt and in lower case
          n1, s1     \* a pull-request number, a sha

Ev(type, action, sender, repo, subject, sig) ==
  [type |-> type, action |-> action, sender |-> sender, repo |-> repo,
   subject |-> subject, signature |-> sig, json |-> TRUE]

MCRepo == {R, r}
MCLower == [x \in MCRepo |-> r]

EventTable ==
  [x \in {opened, sync, push, pushBot, forged, comment, ping, odd, garbled} |->
    CASE x = opened  -> Ev("pull_request", "opened", "User", R, n1, "valid")
      [] x = sync    -> Ev("pull_request", "synchronize", "User", r, n1, "valid")
      [] x = push    -> Ev("push", None, "User", R, s1, "valid")
      [] x = pushBot -> Ev("push", None, "Bot", r, s1, "valid")
      [] x = forged  -> Ev("push", None, "User", r, s1, "invalid")
      [] x = comment -> Ev("issue_comment", "created", "User", r, n1, "valid")
      [] x = ping    -> Ev("ping", None, "User", None, None, "valid")
      [] x = odd     -> Ev(None, None, "User", r, None, "valid")
      [] x = garbled -> [Ev("push", None, "User", None, None, "valid") EXCEPT !.json = FALSE]]

MCEvent == [d \in Delivery |-> EventTable[d]]
=============================================================================
