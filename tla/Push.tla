-------------------------------- MODULE Push --------------------------------
(***************************************************************************)
(* Web push: PushService with its table of subscriptions, the notification *)
(* rules, and usePushSubscription in the browsers.  A state change becomes *)
(* the notices of the rules that match it, sent one after the other, or    *)
(* the built-in notice; a notice is logged, the table is read, everybody   *)
(* in it is sent to, and endpoints that are gone are deleted.              *)
(***************************************************************************)
EXTENDS Naturals, Sequences, FiniteSets, SequencesExt

CONSTANTS Clients,          \* browsers that may subscribe
          Changes,          \* state changes: <<entity, new state>>
          BuiltInNotices,   \* those with a built-in notice
          Rules,            \* rule ids, each for one change: RuleOf
          RuleOf,
          MaxEndpoint,      \* endpoints are numbered as the browsers get them
          MaxChanges, MaxRuleEdits, MaxPushFaults

ASSUME PushAssumption == MaxEndpoint \in Nat

VARIABLES
    table,         \* the endpoints in push_subscriptions
    rules,         \* the rules that exist and are enabled
    handlers,      \* state changes being handled: notices left, and the send
    due,           \* per endpoint the notices that began while it was in the
                   \* table and that it was not sent yet
    gone,          \* endpoints the push service answers 410 for
    browser,       \* per browser: subscription, subscribed, loading, step
    pushed         \* how much has happened

pushVars == <<table, rules, handlers, due, gone, browser, pushed>>

Endpoints == 1 .. MaxEndpoint
Idle == [step |-> "log", targets |-> {}, dead |-> {}]

PushInit ==
    /\ table = {} /\ handlers = {} /\ gone = {}
    /\ \E R \in SUBSET Rules : rules = R
    /\ due = [e \in Endpoints |-> {}]
    /\ browser = [b \in Clients |-> [endpoint |-> 0, subscribed |-> FALSE,
                                      unsaved |-> FALSE, step |-> "idle"]]
    /\ pushed = [changes |-> 0, edits |-> 0, faults |-> 0, endpoints |-> 0]

-----------------------------------------------------------------------------
(* watchStateChanges(): the notices of the matching rules, or else the     *)
(* built-in one.  The listener runs at once and goes on after each await.  *)
Match(ch) == {r \in rules : RuleOf[r] = ch}
NoticesOf(ch) == IF Match(ch) # {} THEN SetToSeq(Match(ch))
                 ELSE IF ch \in BuiltInNotices THEN <<ch>> ELSE << >>

StateChanged(ch) ==
    /\ pushed.changes < MaxChanges
    /\ pushed' = [pushed EXCEPT !.changes = @ + 1]
    /\ handlers' = IF NoticesOf(ch) = << >> THEN handlers
                   ELSE handlers \cup {[id |-> pushed.changes, left |-> NoticesOf(ch),
                                        send |-> Idle]}
    /\ UNCHANGED <<table, rules, due, gone, browser>>

(* create(), update() and delete() of a rule.                              *)
EditRule(r) ==
    /\ pushed.edits < MaxRuleEdits
    /\ pushed' = [pushed EXCEPT !.edits = @ + 1]
    /\ rules' = IF r \in rules THEN rules \ {r} ELSE rules \cup {r}
    /\ UNCHANGED <<table, handlers, due, gone, browser>>

(* sendToAll(), await by await.                                            *)
Notice(h) == <<h.id, Head(h.left)>>
NoMoreDue(E) == [e \in Endpoints |-> IF e \in E THEN {} ELSE due[e]]
Proceeds(h, send) == handlers' = (handlers \ {h}) \cup {[h EXCEPT !.send = send]}
Sending == UNCHANGED <<rules, browser>>

LogNotification(h) ==
    /\ h.send.step = "log"
    /\ due' = [e \in Endpoints |-> IF e \in table THEN due[e] \cup {Notice(h)}
                                                   ELSE due[e]]
    /\ Proceeds(h, [h.send EXCEPT !.step = "find"])
    /\ Sending /\ UNCHANGED <<table, gone, pushed>>

FindSubscriptions(h) ==
    /\ h.send.step = "find"
    /\ Proceeds(h, [h.send EXCEPT !.step = "send", !.targets = table])
    /\ Sending /\ UNCHANGED <<table, due, gone, pushed>>

(* Faulty variant: any failure counts as an expired subscription.          *)
AnsweredAnyFailure(h, e) ==
    /\ h.send.step = "send" /\ e \in h.send.targets
    /\ \E answer \in {"ok", "gone", "error"} :
          /\ answer = "gone" <=> e \in gone
          /\ answer = "error" => pushed.faults < MaxPushFaults
          /\ pushed' = IF answer = "error" THEN [pushed EXCEPT !.faults = @ + 1]
                                           ELSE pushed
          /\ due' = [due EXCEPT ![e] = @ \ {Notice(h)}]
          /\ Proceeds(h, [h.send EXCEPT !.targets = @ \ {e},
                          !.dead = IF answer # "ok" THEN @ \cup {e} ELSE @])
    /\ Sending /\ UNCHANGED <<table, gone>>

(* Faulty variant: the first failure ends the sending.                     *)
AnsweredEnds(h, e) ==
    /\ h.send.step = "send" /\ e \in h.send.targets
    /\ \/ /\ e \notin gone
          /\ due' = [due EXCEPT ![e] = @ \ {Notice(h)}]
          /\ Proceeds(h, [h.send EXCEPT !.targets = @ \ {e}])
       \/ /\ e \in gone
          /\ Proceeds(h, [h.send EXCEPT !.targets = {}]) /\ UNCHANGED due
    /\ Sending /\ UNCHANGED <<table, gone, pushed>>

(* The answer of the push service for one endpoint: delivered, gone, or    *)
(* some other failure, which costs nobody but this endpoint its notice.    *)
Responded(h, e) ==
    /\ h.send.step = "send" /\ e \in h.send.targets
    /\ \E answer \in {"ok", "gone", "error"} :
          /\ answer = "gone" <=> e \in gone
          /\ answer = "error" => pushed.faults < MaxPushFaults
          /\ pushed' = IF answer = "error" THEN [pushed EXCEPT !.faults = @ + 1]
                                           ELSE pushed
          /\ due' = [due EXCEPT ![e] = @ \ {Notice(h)}]
          /\ Proceeds(h, [h.send EXCEPT !.targets = @ \ {e},
                          !.dead = IF answer = "gone" THEN @ \cup {e} ELSE @])
    /\ Sending /\ UNCHANGED <<table, gone>>

(* All answered: the dead are deleted, and the next notice's turn comes.   *)
DeleteDead(h) ==
    /\ h.send.step = "send" /\ h.send.targets = {}
    /\ table' = table \ h.send.dead
    /\ due' = NoMoreDue(h.send.dead)
    /\ handlers' = IF Len(h.left) = 1 THEN handlers \ {h}
                   ELSE (handlers \ {h}) \cup
                            {[h EXCEPT !.left = Tail(@), !.send = Idle]}
    /\ Sending /\ UNCHANGED <<gone, pushed>>

-----------------------------------------------------------------------------
(* usePushSubscription.toggle(): subscribe.  The subscription of the       *)
(* browser, if it has one already, is handed out again.                    *)
OnBrowser == UNCHANGED <<rules, handlers, gone>>

Toggle(b) ==
    /\ browser[b].step = "idle"
    /\ IF browser[b].subscribed
       THEN /\ browser' = [browser EXCEPT ![b].step = "delete"] /\ UNCHANGED pushed
       ELSE IF browser[b].endpoint # 0
       THEN /\ browser' = [browser EXCEPT ![b].step = "post"] /\ UNCHANGED pushed
       ELSE /\ pushed.endpoints < MaxEndpoint
            /\ pushed' = [pushed EXCEPT !.endpoints = @ + 1]
            /\ browser' = [browser EXCEPT ![b].endpoint = pushed.endpoints + 1,
                                          ![b].unsaved = TRUE, ![b].step = "post"]
    /\ OnBrowser /\ UNCHANGED <<table, due>>

Fault == /\ pushed.faults < MaxPushFaults
         /\ pushed' = [pushed EXCEPT !.faults = @ + 1]

(* Faulty variant: a failed POST is taken for a success.                   *)
SaveUnchecked(b) ==
    /\ browser[b].step = "post"
    /\ \/ /\ table' = table \cup {browser[b].endpoint} /\ UNCHANGED pushed
       \/ Fault /\ UNCHANGED table
    /\ browser' = [browser EXCEPT ![b].step = "idle", ![b].unsaved = FALSE,
                                  ![b].subscribed = TRUE]
    /\ OnBrowser /\ UNCHANGED due

(* POST /api/push/subscribe: stored and answered, stored with the answer   *)
(* lost, or not stored; only the answer sets subscribed.                   *)
SaveSubscription(b) ==
    /\ browser[b].step = "post"
    /\ \/ /\ table' = table \cup {browser[b].endpoint}
          /\ browser' = [browser EXCEPT ![b].step = "idle", ![b].unsaved = FALSE,
                                        ![b].subscribed = TRUE]
          /\ UNCHANGED pushed
       \/ /\ Fault
          /\ table' \in {table, table \cup {browser[b].endpoint}}
          /\ browser' = [browser EXCEPT ![b].step = "idle"]
    /\ OnBrowser /\ UNCHANGED due

(* DELETE /api/push/subscribe: the answer is not looked at; when there is  *)
(* none the browser stays subscribed, whether or not the row is gone.      *)
DeleteSubscription(b) ==
    /\ browser[b].step = "delete"
    /\ \/ /\ table' = table \ {browser[b].endpoint} /\ UNCHANGED pushed
          /\ browser' = [browser EXCEPT ![b].step = "unsubscribe"]
       \/ /\ Fault
          /\ \/ UNCHANGED table /\ browser' = [browser EXCEPT ![b].step = "idle"]
             \/ /\ table' = table \ {browser[b].endpoint}
                /\ browser' = [browser EXCEPT ![b].step = "idle", ![b].unsaved = TRUE]
             \/ UNCHANGED table /\ browser' = [browser EXCEPT ![b].step = "unsubscribe"]
    /\ due' = NoMoreDue(table \ table')
    /\ OnBrowser

(* existing.unsubscribe(): the push service forgets the endpoint.          *)
Unsubscribe(b) ==
    /\ browser[b].step = "unsubscribe"
    /\ gone' = gone \cup {browser[b].endpoint}
    /\ browser' = [browser EXCEPT ![b] = [endpoint |-> 0, subscribed |-> FALSE,
                                          unsaved |-> FALSE, step |-> "idle"]]
    /\ UNCHANGED <<table, rules, handlers, due, pushed>>

(* The page is opened again: whoever has a subscription is subscribed,     *)
(* stored or not.                                                          *)
Reopen(b) ==
    /\ browser' = [browser EXCEPT ![b].step = "idle",
                                  ![b].subscribed = browser[b].endpoint # 0]
    /\ browser[b].step # "unsubscribe"
    /\ OnBrowser /\ UNCHANGED <<table, due, pushed>>

SendNext == \E h \in handlers :
               \/ LogNotification(h) \/ FindSubscriptions(h) \/ DeleteDead(h)
               \/ \E e \in Endpoints : Responded(h, e)

PushNext ==
    \/ \E ch \in Changes : StateChanged(ch)
    \/ \E r \in Rules : EditRule(r)
    \/ \E b \in Clients : \/ Toggle(b) \/ SaveSubscription(b) \/ DeleteSubscription(b)
                           \/ Unsubscribe(b) \/ Reopen(b)
    \/ SendNext

PushSpec == PushInit /\ [][PushNext]_pushVars

-----------------------------------------------------------------------------
PushTypeOK ==
    /\ table \subseteq Endpoints /\ gone \subseteq Endpoints /\ rules \subseteq Rules
    /\ \A h \in handlers : /\ h.left # << >>
                           /\ h.send.targets \cup h.send.dead \subseteq Endpoints
    /\ \A b \in Clients : /\ browser[b].endpoint \in 0 .. MaxEndpoint
                           /\ browser[b].step \in {"idle", "post", "delete", "unsubscribe"}

(* A row disappears only because its browser asked for it or because the   *)
(* push service knows the endpoint no more: a push service that fails for  *)
(* a while, or a send that still works with an old list, costs nobody the  *)
(* subscription.                                                           *)
OnlyDeadAreDropped ==
    [][\A e \in table \ table' :
          \/ e \in gone
          \/ \E b \in Clients : browser[b].endpoint = e /\ browser[b].step = "delete"]_pushVars

(* The switch in the settings tells the truth: subscribed means that the   *)
(* endpoint is in the table or will be answered with 410, whatever was     *)
(* lost, and whatever was sent meanwhile.  (unsaved: a POST failed or an   *)
(* answer to DELETE was lost, and Reopen() found the subscription in the   *)
(* browser; that browser believes it is subscribed and is not.)            *)
SubscribedIsStored ==
    \A b \in Clients : browser[b].subscribed /\ ~browser[b].unsaved
        => browser[b].endpoint \in table \/ browser[b].step = "unsubscribe"

(* No subscriber is passed over: a notice that is still due to an endpoint *)
(* is the one its handler is sending right now; no failure, deletion or    *)
(* new subscription in between makes a handler go on without it.           *)
NobodyIsPassedOver ==
    \A e \in Endpoints : due[e] \subseteq {Notice(h) : h \in handlers}

(* A browser that shows it is subscribed is reached by every notice, until *)
(* its endpoint is gone.                                                   *)
PushReaches == [](SubscribedIsStored /\ NobodyIsPassedOver) /\ OnlyDeadAreDropped
=============================================================================
