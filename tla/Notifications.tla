--------------------------- MODULE Notifications ---------------------------
(***************************************************************************)
(* Services that call out (internal/services/eventgrid and monitor): Event *)
(* Grid topics, their index and their event subscriptions, delivered to by *)
(* one goroutine each; and Monitor's action groups, notified within the    *)
(* request, with the alerts and workspaces kept beside them.               *)
(*                                                                         *)
(* Either call reads a document, posts to an endpoint for up to ten        *)
(* seconds, and writes back the document it read with the outcome.         *)
(***************************************************************************)
EXTENDS ArmStore

CONSTANTS
    TopicGroups,  \* {subscription}/{resource group} pairs
    TopicNames,
    EventSubNames,
    Destinations, \* where events may be delivered; "hook" is a WebHook with a URL
    ActionGroupNames

\* The bound on the deliveries under way.
ASSUME CouriersAssumption == IsFiniteSet(Couriers)

-----------------------------------------------------------------------------
(* Topics and event subscriptions *)

Topic(g, t) == <<"eventgrid.topics", g, t>>
EventSubscription(g, t, e) == <<"eventgrid.eventsubscriptions", g, t, e>>

\* The data plane knows a topic by its name alone.
DataPlaneTopic(t) == <<"eventgrid.dataplane.topics", t>>

\* A topic is stored, then marked with the group it was put in.
PutTopic(c, g, t) ==
    Begin(c, "put", Topic(g, t),
          <<Store(Topic(g, t), [schema |-> "EventGridSchema"]), Store(DataPlaneTopic(t), [group |-> g])>>)

\* A broken DeleteTopic: the topic stays in the index.
DeleteTopicMarked(c, g, t) == Deleting(c, Topic(g, t))

\* It is removed, then unmarked; its subscriptions stay.
DeleteTopic(c, g, t) ==
    /\ Has(Topic(g, t))
    /\ Begin(c, "delete", Topic(g, t), <<Drop(Topic(g, t)), Drop(DataPlaneTopic(t))>>)

\* A subscription put again has no delivery yet.
PutEventSubscription(c, g, t, e, destination) ==
    /\ Has(Topic(g, t))
    /\ Putting(c, EventSubscription(g, t, e), [destination |-> destination, status |-> "none"])

DeleteEventSubscription(c, g, t, e) == Deleting(c, EventSubscription(g, t, e))

ListEventSubscriptionRecords(g, t) == Under(<<"eventgrid.eventsubscriptions", g, t>>)

-----------------------------------------------------------------------------
(* Deliveries *)

\* A delivery that has not read its document yet.
Post(k) == [do |-> "deliver", key |-> k]

\* One goroutine for each subscription of the topic the index leads to.  As
\* many deliveries are under way as there are couriers.
Publish(t) ==
    /\ mode = "concurrent" \/ \A c \in Clients : ~Busy(c)
    /\ Has(DataPlaneTopic(t))
    /\ LET subs == SetToSeq(ListEventSubscriptionRecords(docs[DataPlaneTopic(t)].group, t))
           free == SetToSeq({w \in Couriers : ~Busy(w)})
           given == [w \in Workers |-> {i \in DOMAIN subs : free[i] = w}]
       IN  /\ subs # <<>>
           /\ Len(subs) <= Len(free)
           /\ calls' = [w \in Workers |->
                  IF given[w] = {} THEN calls[w]
                  ELSE LET k == subs[CHOOSE i \in given[w] : TRUE]
                       IN  [verb |-> "deliver", on |-> k, todo |-> <<Post(k)>>]]
    /\ UNCHANGED <<docs, mode>>

\* How a delivery to that document may end.
DispatchToSubscription(es) == IF es.destination = "hook" THEN {"ok", "http error"} ELSE {}

DispatchToGroup(ag) ==
    IF ~ag.enabled THEN {"skipped: disabled"}
    ELSE IF ag.receivers = {} THEN {"skipped: no receivers"}
    ELSE IF "hook" \in ag.receivers THEN {"ok", "http error"} ELSE {"ok"}

Outcomes(k) ==
    IF ~Has(k) THEN {}
    ELSE IF Head(k) = "eventgrid.eventsubscriptions" THEN DispatchToSubscription(docs[k])
    ELSE DispatchToGroup(docs[k])

\* The read; the answer comes with the write, whatever was stored meanwhile.
Deliver(w) ==
    /\ Busy(w)
    /\ Head(calls[w].todo).do = "deliver"
    /\ LET k == Head(calls[w].todo).key
       IN  \/ /\ Outcomes(k) = {}
              /\ calls' = [calls EXCEPT ![w] = Idle]
           \/ \E status \in Outcomes(k) :
                 calls' = [calls EXCEPT ![w].todo = <<Store(k, [docs[k] EXCEPT !.status = status])>>]
    /\ UNCHANGED <<docs, mode>>

-----------------------------------------------------------------------------
(* Monitor *)

ActionGroup(a) == <<"monitor.actionGroups", a>>
MetricAlert(a) == <<"monitor.metricAlerts", a>>
Workspace(a) == <<"monitor.workspaces", a>>

PutActionGroup(c, a, enabled, receivers) ==
    Putting(c, ActionGroup(a), [enabled |-> enabled, receivers |-> receivers, status |-> "none"])
DeleteActionGroup(c, a) == Deleting(c, ActionGroup(a))

\* The group is looked for, then read again by the dispatch.
CreateNotifications(c, a) ==
    Has(ActionGroup(a)) /\ Begin(c, "notify", ActionGroup(a), <<Post(ActionGroup(a))>>)

\* An alert must have scopes; it is stored, and never evaluated.
PutMetricAlert(c, a, scopes, severity) ==
    /\ scopes # {}
    /\ Putting(c, MetricAlert(a), [scopes |-> scopes, severity |-> IF severity = {} THEN {3} ELSE severity])
DeleteMetricAlert(c, a) == Deleting(c, MetricAlert(a))

PutWorkspace(c, a, retention) ==
    Putting(c, Workspace(a), [retention |-> IF retention = 0 THEN 30 ELSE retention])
DeleteWorkspace(c, a) == Deleting(c, Workspace(a))

-----------------------------------------------------------------------------

EventGridNext(c) ==
    \E t \in TopicNames :
       \/ Publish(t)
       \/ \E g \in TopicGroups :
             \/ PutTopic(c, g, t)
             \/ DeleteTopic(c, g, t)
             \/ \E e \in EventSubNames :
                   \/ \E d \in Destinations : PutEventSubscription(c, g, t, e, d)
                   \/ DeleteEventSubscription(c, g, t, e)

MonitorNext(c) ==
    \E a \in ActionGroupNames :
       \/ \E on \in BOOLEAN, rs \in SUBSET Destinations : PutActionGroup(c, a, on, rs)
       \/ DeleteActionGroup(c, a)
       \/ CreateNotifications(c, a)
       \/ \E scopes \in SUBSET {"vm"}, severity \in {{}, {0}} : PutMetricAlert(c, a, scopes, severity)
       \/ DeleteMetricAlert(c, a)
       \/ \E days \in {0, 90} : PutWorkspace(c, a, days)
       \/ DeleteWorkspace(c, a)
=============================================================================
