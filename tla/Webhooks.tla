------------------------------- MODULE Webhooks -------------------------------
(***************************************************************************)
(* Webhook subscriptions: their owner reads one (findById), changes the    *)
(* entity and writes the whole row back (update), while an event is        *)
(* published to the subscriptions findActiveByEvent returned.  A job keeps *)
(* the URL and the secret it was published with; its retries are in        *)
(* JobQueue.                                                               *)
(***************************************************************************)
EXTENDS FiniteSets, Integers

CONSTANTS
    Hooks,              \* webhook ids
    Editors,            \* the owner's requests in flight
    Publishers,         \* publications of one event type in flight
    NoHook,
    MaxSecret,          \* bound on how often URL or secret are replaced
    MaxDeliveries       \* bound on the jobs in the queue


VARIABLES
    hooks,          \* the table: a row, or NoHook
    secrets,        \* how many (URL, secret) pairs were issued for a webhook
    edit,           \* an editor: the webhook it has read, and what it will write
    list,           \* a publisher: the rows it has still to queue
    jobs,           \* the queued deliveries
    off,            \* history: webhooks whose owner was told they are off
    rotated,        \* history: the pair a webhook's owner was last told is in use
    clobbered       \* history: webhooks written from a copy that was out of date

hookVars == <<hooks, secrets, edit, list, jobs, off, rotated, clobbered>>

Row == [secret : 0..MaxSecret, active : BOOLEAN, subscribed : BOOLEAN]

ASSUME WebhooksAssumption ==
    /\ MaxSecret \in Nat /\ MaxDeliveries \in Nat
    /\ NoHook \notin Hooks \cup Row

NoEdit == [op |-> "none", hook |-> NoHook, copy |-> NoHook, current |-> TRUE]

WebhooksInit ==
    /\ hooks = [h \in Hooks |-> NoHook]
    /\ secrets = [h \in Hooks |-> 0]
    /\ edit = [e \in Editors |-> NoEdit]
    /\ list = [p \in Publishers |-> {}]
    /\ jobs = {}
    /\ off = {}
    /\ rotated = [h \in Hooks |-> 0]
    /\ clobbered = {}

Stored == {h \in Hooks : hooks[h] # NoHook}

-----------------------------------------------------------------------------
(* The owner's requests                                                    *)

CreateWebhook(h) ==
    /\ hooks[h] = NoHook /\ secrets[h] = 0 /\ h \notin off
    /\ hooks' = [hooks EXCEPT ![h] = [secret |-> 0, active |-> TRUE, subscribed |-> TRUE]]
    /\ UNCHANGED <<secrets, edit, list, jobs, off, rotated, clobbered>>

\* Webhook.activate / deactivate / subscribeToEvent / unsubscribeFromEvent, and
\* updateUrl or updateSecret, which replace the pair.
Edited(op, row, pair) ==
    CASE op = "activate"    -> [row EXCEPT !.active = TRUE]
      [] op = "deactivate"  -> [row EXCEPT !.active = FALSE]
      [] op = "subscribe"   -> [row EXCEPT !.subscribed = TRUE]
      [] op = "unsubscribe" -> [row EXCEPT !.subscribed = FALSE]
      [] op = "rotate"      -> [row EXCEPT !.secret = pair]

EditOps == {"activate", "deactivate", "subscribe", "unsubscribe", "rotate"}

\* findById, then the entity is changed.  An edit that turns the webhook on
\* withdraws what its owner was told.
FindWebhook(e, op, h) ==
    /\ edit[e].op = "none" /\ h \in Stored
    /\ op = "rotate" => secrets[h] < MaxSecret
    /\ secrets' = IF op = "rotate" THEN [secrets EXCEPT ![h] = @ + 1] ELSE secrets
    /\ edit' = [edit EXCEPT ![e] = [op |-> op, hook |-> h, current |-> TRUE,
                                    copy |-> Edited(op, hooks[h], secrets[h] + 1)]]
    /\ off' = IF op \in {"activate", "subscribe"} THEN off \ {h} ELSE off
    /\ UNCHANGED <<hooks, list, jobs, rotated, clobbered>>

Outdate(e, h) ==
    edit' = [f \in Editors |-> IF f = e THEN NoEdit
                               ELSE IF edit[f].hook = h THEN [edit[f] EXCEPT !.current = FALSE]
                               ELSE edit[f]]

\* Someone else is turning h on.
TurningOn(e, h) ==
    \E f \in Editors \ {e} : edit[f].hook = h /\ edit[f].op \in {"activate", "subscribe"}

\* Slip: the secret is left out of the columns set.
UpdateWebhook_KeepsSecret(e) ==
    LET h == edit[e].hook
        row == IF h \in Stored THEN [edit[e].copy EXCEPT !.secret = hooks[h].secret] ELSE NoHook IN
    /\ edit[e].op # "none" /\ h \in Stored
    /\ hooks' = [hooks EXCEPT ![h] = row]
    /\ clobbered' = IF edit[e].current THEN clobbered ELSE clobbered \cup {h}
    /\ off' = IF edit[e].op \in {"deactivate", "unsubscribe"} /\ ~ TurningOn(e, h)
              THEN off \cup {h} ELSE off
    /\ rotated' = IF edit[e].op = "rotate" THEN [rotated EXCEPT ![h] = edit[e].copy.secret]
                  ELSE rotated
    /\ Outdate(e, h)
    /\ UNCHANGED <<secrets, list, jobs>>

\* WebhookRepository.update: every column of the copy.
UpdateWebhook(e) ==
    LET h == edit[e].hook
        row == edit[e].copy IN
    /\ edit[e].op # "none" /\ h \in Stored
    /\ hooks' = [hooks EXCEPT ![h] = row]
    /\ clobbered' = IF edit[e].current THEN clobbered ELSE clobbered \cup {h}
    /\ off' = IF edit[e].op \in {"deactivate", "unsubscribe"} /\ ~ TurningOn(e, h)
              THEN off \cup {h} ELSE off
    /\ rotated' = IF edit[e].op = "rotate" THEN [rotated EXCEPT ![h] = row.secret] ELSE rotated
    /\ Outdate(e, h)
    /\ UNCHANGED <<secrets, list, jobs>>

\* NotFoundError (the row is gone), or the database fails.
EditThrows(e) ==
    /\ edit[e].op # "none"
    /\ Outdate(e, NoHook)
    /\ UNCHANGED <<hooks, secrets, list, jobs, off, rotated, clobbered>>

DeleteWebhook(h) ==
    /\ h \in Stored
    /\ hooks' = [hooks EXCEPT ![h] = NoHook]
    /\ off' = off \cup {h}
    /\ UNCHANGED <<secrets, edit, list, jobs, rotated, clobbered>>

-----------------------------------------------------------------------------
(* Publishing an event                                                     *)

\* What the publisher takes along: the pair, and what its owner had been told.
Taken(h) == [hook |-> h, secret |-> hooks[h].secret, off |-> h \in off, promised |-> rotated[h]]

FindActiveByEvent(p) ==
    /\ list[p] = {}
    /\ list' = [list EXCEPT ![p] =
         {Taken(h) : h \in {g \in Stored : hooks[g].active /\ hooks[g].subscribed}}]
    /\ UNCHANGED <<hooks, secrets, edit, jobs, off, rotated, clobbered>>

\* publishEvent: the job carries URL and secret.
PublishEvent(p, t) ==
    /\ t \in list[p] /\ Cardinality(jobs) < MaxDeliveries
    /\ list' = [list EXCEPT ![p] = @ \ {t}]
    /\ jobs' = jobs \cup {t}
    /\ UNCHANGED <<hooks, secrets, edit, off, rotated, clobbered>>

\* publishEvent throws, and the rest of the list is not published.
PublishFails(p) ==
    /\ list[p] # {}
    /\ list' = [list EXCEPT ![p] = {}]
    /\ UNCHANGED <<hooks, secrets, edit, jobs, off, rotated, clobbered>>

\* The last attempt of a delivery, successful or not.
DeliverWebhook(j) ==
    /\ j \in jobs
    /\ jobs' = jobs \ {j}
    /\ UNCHANGED <<hooks, secrets, edit, list, off, rotated, clobbered>>

WebhooksNext ==
    \/ \E h \in Hooks : CreateWebhook(h) \/ DeleteWebhook(h)
    \/ \E e \in Editors :
         \/ \E op \in EditOps, h \in Hooks : FindWebhook(e, op, h)
         \/ UpdateWebhook(e) \/ EditThrows(e)
    \/ \E p \in Publishers :
         FindActiveByEvent(p) \/ PublishFails(p) \/ \E t \in list[p] : PublishEvent(p, t)
    \/ \E j \in jobs : DeliverWebhook(j)

WebhooksSpec == WebhooksInit /\ [][WebhooksNext]_hookVars

-----------------------------------------------------------------------------
(* Properties                                                              *)

\* Once its owner was told that a webhook is switched off, unsubscribed or
\* deleted, an event published from then on is not sent to it, unless an edit
\* that had read the row before wrote its older copy back (update).
OffIsSilent == \A j \in jobs : j.off => j.hook \in clobbered

\* An event published after its owner was told of a new URL or secret goes out
\* with it or a later one, unless such an overlapping edit wrote an older one.
NewSecretIsUsed == \A j \in jobs : j.hook \notin clobbered => j.secret >= j.promised

\* An edit whose owner was answered rules the publications that follow.
OwnersObeyed == OffIsSilent /\ NewSecretIsUsed
===============================================================================
