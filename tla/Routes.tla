------------------------------- MODULE Routes -------------------------------
(***************************************************************************)
(* The provider routes of one user's model profiles, the private ones and  *)
(* the ones the user shares (src/src/user-routes.ts: UserRouteRegistry;    *)
(* src/src/index.ts: syncRoutesFor, syncAllRoutes, startUserRoutes and the *)
(* requests that call them).                                               *)
(*                                                                         *)
(* Each stored profile should have one route at the host, registered with  *)
(* its current label and model.  A synchronisation reads the private       *)
(* profiles, registers what is missing or has changed, reads the shared    *)
(* ones and registers them, and disposes of what was on neither list.      *)
(* Requests overlap, registrations and reads fail, and routes are lost     *)
(* with the process.                                                       *)
(*                                                                         *)
(* Left out: the service llm coming a second time, and handlers that       *)
(* outlive the unloading of the plugin.                                    *)
(***************************************************************************)
EXTENDS Naturals

CONSTANTS
  Ids,         \* profile ids
  Shared,      \* those of shared profiles, which nothing removes
  Signatures,  \* label, model and address of a profile, as the registry compares them
  Calls,       \* bound: handlers in progress at a time
  Nothing      \* undefined

Lists == [Ids -> Signatures \cup {Nothing}]

(* Handlers in progress. *)
Sync == [op : {"sync"}, step : {"check", "list", "ensure", "shared", "settle"}, list : Lists]
Removal == [op : {"remove"}, id : Ids]

ASSUME RoutesAssumption == Shared \subseteq Ids /\ Nothing \notin Signatures \cup Sync \cup Removal

VARIABLES
  profiles,    \* the stored profiles
  started,     \* routeRegistry is there
  routes,      \* UserRouteRegistry.routes: the signature a route was registered with, or Nothing
  routeOwner,  \* the ids in routeOwner
  calls,       \* calls[c]: a handler in progress, or Nothing
  astray       \* history: since the last synchronisation that began alone, handlers
               \* overlapped, or a read or a registration failed

routesVars == <<profiles, started, routes, routeOwner, calls, astray>>

RoutesTypeOK ==
  /\ profiles \in Lists /\ routes \in Lists
  /\ started \in BOOLEAN /\ astray \in BOOLEAN
  /\ routeOwner \subseteq Ids
  /\ calls \in [Calls -> Sync \cup Removal \cup {Nothing}]

NoList == [i \in Ids |-> Nothing]
NewSync == [op |-> "sync", step |-> "check", list |-> NoList]

RoutesInit ==
  /\ profiles = NoList /\ routes = NoList /\ routeOwner = {}
  /\ started = FALSE /\ calls = [c \in Calls |-> Nothing] /\ astray = TRUE

-----------------------------------------------------------------------------
Busy == {c \in Calls : calls[c] # Nothing}
Begin(c, call) ==
  /\ calls[c] = Nothing /\ calls' = [calls EXCEPT ![c] = call]
  /\ astray' = (astray \/ Busy # {})
End(c) == calls' = [calls EXCEPT ![c] = Nothing]
AtStep(c, step) == c \in Busy /\ calls[c].op = "sync" /\ calls[c].step = step
Listed(list) == {i \in Ids : list[i] # Nothing}
PrivatePart(list) == [i \in Ids |-> IF i \in Shared THEN Nothing ELSE list[i]]
SharedPart(list) == [i \in Ids |-> IF i \in Shared THEN list[i] ELSE Nothing]

(* profileCreate, profileUpdate and shareCreate store a profile, shareGrant *)
(* finds it as it is; then they synchronise.                                *)
StoreProfile(c, i, s) ==
  /\ Begin(c, NewSync)
  /\ profiles' = [profiles EXCEPT ![i] = s]
  /\ UNCHANGED <<started, routes, routeOwner>>

(* profileRemove takes the route away itself, after it awaited the default. *)
RemoveProfile(c, i) ==
  /\ i \notin Shared /\ profiles[i] # Nothing
  /\ Begin(c, [op |-> "remove", id |-> i])
  /\ profiles' = [profiles EXCEPT ![i] = Nothing]
  /\ UNCHANGED <<started, routes, routeOwner>>

(* Variant: the registry still has the route. *)
DisposeOwnerOnly(c) ==
  /\ c \in Busy /\ calls[c].op = "remove"
  /\ routeOwner' = routeOwner \ {calls[c].id}
  /\ End(c)
  /\ UNCHANGED <<profiles, started, routes, astray>>

Dispose(c) ==
  /\ c \in Busy /\ calls[c].op = "remove"
  /\ routes' = [routes EXCEPT ![calls[c].id] = Nothing]
  /\ routeOwner' = routeOwner \ {calls[c].id}
  /\ End(c)
  /\ UNCHANGED <<profiles, started, astray>>

-----------------------------------------------------------------------------
(* Nothing happens before the service llm is there. *)
Check(c) ==
  /\ AtStep(c, "check")
  /\ IF started
     THEN calls' = [calls EXCEPT ![c].step = "list"] /\ UNCHANGED astray
     ELSE End(c) /\ astray' = TRUE
  /\ UNCHANGED <<profiles, started, routes, routeOwner>>

(* listProfiles: a synchronisation that is alone is a new beginning.        *)
List(c) ==
  /\ AtStep(c, "list")
  /\ calls' = [calls EXCEPT ![c].step = "ensure",
                             ![c].list = PrivatePart(profiles)]
  /\ astray' = (Busy # {c})
  /\ UNCHANGED <<profiles, started, routes, routeOwner>>

(* Variant: a route that is there is left as it is. *)
ChangedIgnoringSignature(i, list) == routes[i] = Nothing

Changed(i, list) == routes[i] # list[i]

(* registry.ensure: a changed route is disposed of before its successor is  *)
(* registered, which may fail.                                              *)
New(list) == {i \in Listed(list) : Changed(i, list)}
Ensured(list, failed) ==
  [i \in Ids |-> CASE i \in failed -> Nothing
                   [] i \in New(list) \ failed -> list[i]
                   [] OTHER -> routes[i]]

Ensure(c) ==
  /\ AtStep(c, "ensure")
  /\ LET list == calls[c].list
     IN \E failed \in SUBSET New(list) :
          /\ routes' = Ensured(list, failed)
          /\ routeOwner' = routeOwner \cup Listed(list)
          /\ astray' = (astray \/ failed # {})
  /\ calls' = [calls EXCEPT ![c].step = "shared"]
  /\ UNCHANGED <<profiles, started>>

(* listGrantedProfiles: the profiles that the user shares. *)
ListShared(c) ==
  /\ AtStep(c, "shared")
  /\ calls' = [calls EXCEPT ![c].step = "settle",
                             ![c].list = [i \in Ids |-> IF i \in Shared THEN profiles[i] ELSE @[i]]]
  /\ UNCHANGED <<profiles, started, routes, routeOwner, astray>>

(* They get their routes; what this user owns and neither list names is     *)
(* disposed of.                                                             *)
Settle(c) ==
  /\ AtStep(c, "settle")
  /\ LET list == calls[c].list
         shared == SharedPart(list)
     IN \E failed \in SUBSET New(shared) :
          /\ routes' = [i \in Ids |-> IF i \in routeOwner \ Listed(list) THEN Nothing
                                      ELSE Ensured(shared, failed)[i]]
          /\ routeOwner' = (routeOwner \cap Listed(list)) \cup Listed(shared)
          /\ astray' = (astray \/ failed # {})
  /\ End(c)
  /\ UNCHANGED <<profiles, started>>

(* The request fails before its synchronisation, or a read is rejected,     *)
(* which syncRoutesFor logs.                                                *)
SyncFails(c) ==
  /\ AtStep(c, "check") \/ AtStep(c, "list") \/ AtStep(c, "shared")
  /\ End(c) /\ astray' = TRUE
  /\ UNCHANGED <<profiles, started, routes, routeOwner>>

(* The removal is rejected after the profile is gone: the request fails.    *)
RemovalFails(c) ==
  /\ c \in Busy /\ calls[c].op = "remove"
  /\ End(c) /\ astray' = TRUE
  /\ UNCHANGED <<profiles, started, routes, routeOwner>>

(* startUserRoutes, once the service llm is there.  It goes through the      *)
(* users that are loaded by then: this one may not be among them, or there  *)
(* is no store yet, and then nobody is synchronised.                        *)
Start(c) ==
  /\ ~started /\ started' = TRUE
  /\ Begin(c, NewSync) \/ UNCHANGED <<calls, astray>>
  /\ UNCHANGED <<profiles, routes, routeOwner>>

Restart ==
  /\ started' = FALSE /\ routes' = NoList /\ routeOwner' = {}
  /\ calls' = [c \in Calls |-> Nothing] /\ astray' = TRUE
  /\ UNCHANGED profiles

RoutesNext ==
  \/ \E c \in Calls :
       \/ \E i \in Ids : RemoveProfile(c, i) \/ \E s \in Signatures : StoreProfile(c, i, s)
       \/ Check(c) \/ List(c) \/ Ensure(c) \/ ListShared(c) \/ Settle(c) \/ SyncFails(c)
       \/ Dispose(c) \/ RemovalFails(c)
       \/ Start(c)
  \/ Restart

RoutesSpec == RoutesInit /\ [][RoutesNext]_routesVars

-----------------------------------------------------------------------------
(* A synchronisation that runs alone and without a failure leaves exactly   *)
(* the stored profiles with a route, each with its current signature,       *)
(* whatever went wrong before it; removals that run alone keep it so.       *)
RoutesFollowProfiles == started /\ Busy = {} /\ ~astray => routes = profiles

(* No route is out of reach of the next synchronisation, however handlers   *)
(* overlap and fail: its id is in routeOwner.                               *)
RoutesAreOwned == Listed(routes) \subseteq routeOwner
=============================================================================
