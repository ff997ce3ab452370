------------------------------ MODULE WebApps ------------------------------
(***************************************************************************)
(* Microsoft.Web (internal/services/appservice and functions): plans,      *)
(* sites with their settings, and the functions of a site.                 *)
(***************************************************************************)
EXTENDS ArmStore

CONSTANTS
    PlanNames,
    SiteNames,
    FunctionNames,
    Settings      \* application settings and functions' configurations

-----------------------------------------------------------------------------

Plan(p) == <<"appservice.plans", p>>
Site(s) == <<"appservice.sites", s>>
AppSettings(s) == <<"appservice.appsettings", s>>
Function(s, f) == <<"functions.definitions", s, f>>

\* A plan is reserved when its kind is a Linux one, unless the request says.
\* Its number of sites is kept; nothing counts them.
PutPlan(c, p, linux, asked) ==
    Putting(c, Plan(p),
            [reserved |-> IF asked # {} THEN asked = {TRUE} ELSE linux,
             numberOfSites |-> Kept(Plan(p), "numberOfSites", 0)])
DeletePlan(c, p) == Deleting(c, Plan(p))

\* A site must name a plan, which nobody looks up.  A stopped site stays so.
PutSite(c, s, plan, identity) ==
    Putting(c, Site(s),
            [plan |-> plan,
             identity |-> IF identity \in {"", "None"} THEN <<>> ELSE <<"principal", s>>,
             state |-> Kept(Site(s), "state", "Running")])

\* The site, then its settings, whose deletion may fail unnoticed.
DeleteSite(c, s) ==
    Has(Site(s)) /\ Begin(c, "delete", Site(s), <<Drop(Site(s)), Drop(AppSettings(s))>>)

SetSiteState(c, s, state) ==
    Has(Site(s)) /\ Begin(c, "set", Site(s), <<Store(Site(s), [docs[Site(s)] EXCEPT !.state = state])>>)
StartSite(c, s) == SetSiteState(c, s, "Running")
StopSite(c, s) == SetSiteState(c, s, "Stopped")
RestartSite(c, s) == SetSiteState(c, s, "Running")

\* Settings are replaced whole, for a site that need not be there.
PutAppSettings(c, s, x) == Putting(c, AppSettings(s), [properties |-> x])

\* So are the functions of a site.
PutFunction(c, s, f, config, disabled) ==
    Putting(c, Function(s, f), [config |-> config, disabled |-> disabled])
DeleteFunction(c, s, f) == Deleting(c, Function(s, f))

-----------------------------------------------------------------------------

WebNext(c) ==
    \/ \E p \in PlanNames, linux \in BOOLEAN, asked \in {{}, {FALSE}} : PutPlan(c, p, linux, asked)
    \/ \E p \in PlanNames : DeletePlan(c, p)
    \/ \E s \in SiteNames :
          \/ \E p \in PlanNames, t \in {"None", "SystemAssigned"} : PutSite(c, s, p, t)
          \/ DeleteSite(c, s)
          \/ StartSite(c, s)
          \/ StopSite(c, s)
          \/ RestartSite(c, s)
          \/ \E x \in Settings : PutAppSettings(c, s, x)
          \/ \E f \in FunctionNames, x \in Settings, off \in BOOLEAN : PutFunction(c, s, f, x, off)
          \/ \E f \in FunctionNames : DeleteFunction(c, s, f)
=============================================================================
