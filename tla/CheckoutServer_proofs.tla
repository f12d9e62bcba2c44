----------------------- MODULE CheckoutServer_proofs ------------------------
(***************************************************************************)
(* Proofs about the two halves of the checkout API server.                 *)
(*                                                                         *)
(* GatewayRouting, for any process ids, sites, tenants, environments and   *)
(* requests: the server keeps nothing between requests, so the invariant   *)
(* says only where the configuration and the outcome come from; the work   *)
(* is in the lemmas about Dispatch.                                        *)
(*                                                                         *)
(* CheckoutGateway, for any requests, keys, nonces, response codes,        *)
(* configurations and number of retries: the invariant adds to that of     *)
(* CommandIngress what each request knows of its copies: how many there    *)
(* are, which one it reads, and that the answer it was given is what lies  *)
(* at that slot, where it stays.                                           *)
(***************************************************************************)
EXTENDS CheckoutGateway, GatewayRouting, CommandIngress_proofs

-----------------------------------------------------------------------------
(* GatewayRouting: what the server starts with and what it does with a request *)

\* The configuration was built from an environment buildEnv accepts, and the
\* outcome is that of the request being handled.
Built(c) == \E env \in RawEnvs : BuildsEnv(env) /\ c = BuildEnv(env)

RoutingInv ==
    /\ conf # Absent => Built(conf)
    /\ raw \in RawEnvs \cup {Absent} /\ (conf = Absent => raw \in RawEnvs)
    /\ req \in Inputs \cup {Absent}
    /\ out # Absent => conf # Absent /\ req \in Inputs /\ out = Dispatch(req, conf)

-----------------------------------------------------------------------------
(* What buildEnv vouches for *)

LEMMA BuiltType ==
    ASSUME NEW env \in RawEnvs, BuildsEnv(env)
    PROVE  BuildEnv(env) \in Settings
<1>1. env \in RawEnv
  BY EnvAssumption
<1>2. env.map \in SiteMap \cup {Absent}
  <2>1. CASE env.map = Absent
    BY <2>1
  <2>2. CASE env.map # Absent
    <3>1. env.map # Malformed /\ \A k \in DOMAIN env.map : env.map[k] \in Pids
      BY <2>2 DEF BuildsEnv, ParsesAsSiteMap
    <3>2. PICK K \in SUBSET Scopes : env.map \in [K -> Pids \cup {BadPid, Absent}]
      BY <1>1, <2>2, <3>1 DEF RawEnv
    <3>3. env.map \in [K -> Pids]
      BY <3>1, <3>2
    <3> QED BY <3>2, <3>3 DEF SiteMap
  <2> QED BY <2>1, <2>2
<1>3. env.pid \in Pids \cup {Absent}
  BY <1>1 DEF RawEnv, BuildsEnv
<1>4. IsProductionLike(env) \in BOOLEAN
  BY DEF IsProductionLike
<1> QED BY <1>1, <1>2, <1>3, <1>4 DEF BuildEnv, Settings, RawEnv

\* Overrides come with a token, and so do the options that go with overrides.
LEMMA BuiltConfig ==
    ASSUME NEW c, Built(c)
    PROVE  /\ c \in Settings
           /\ c.require => c.allow
           /\ c.allow => c.token
           /\ c.map # Absent => c.allow /\ c.token
           /\ c.productionLike => c.token \/ c.unsafe
<1>1. PICK env \in RawEnvs : BuildsEnv(env) /\ c = BuildEnv(env)
  BY DEF Built
<1>2. c \in Settings
  BY <1>1, BuiltType
<1> QED BY <1>1, <1>2 DEF BuildEnv, BuildsEnv, TokenOk, OverrideOk

LEMMA RoutingInvInit == RoutingInit => RoutingInv
BY DEF RoutingInit, RoutingInv

LEMMA RoutingInvNext == RoutingInv /\ [RoutingNext]_routingVars => RoutingInv'
<1> SUFFICES ASSUME RoutingInv, [RoutingNext]_routingVars PROVE RoutingInv'
  OBVIOUS
<1>1. CASE Start
  <2>1. raw \in RawEnvs /\ BuildsEnv(raw) /\ conf' = BuildEnv(raw)
    BY <1>1 DEF Start, RoutingInv
  <2>2. conf' \in Settings
    BY <2>1, BuiltType
  <2>3. conf' # Absent
    BY <2>2, EnvAssumption
  <2>4. out' = Absent
    BY <1>1 DEF Start, RoutingInv
  <2>5. raw' = Absent /\ req' = req
    BY <1>1 DEF Start
  <2> QED BY <2>1, <2>3, <2>4, <2>5 DEF RoutingInv, Built
<1>2. CASE Serve
  BY <1>2 DEF Serve, RoutingInv
<1>3. CASE Finish
  BY <1>3 DEF Finish, RoutingInv
<1>4. CASE UNCHANGED routingVars
  BY <1>4 DEF routingVars, RoutingInv
<1> QED BY <1>1, <1>2, <1>3, <1>4 DEF RoutingNext

LEMMA RoutingInvHolds == RoutingSpec => []RoutingInv
BY RoutingInvInit, RoutingInvNext, PTL DEF RoutingSpec

-----------------------------------------------------------------------------
(* What is sent, and where *)

\* A command that is sent was asked for over POST, passed the check of the
\* token, and has a command and a target that were not refused.
LEMMA SentByCheckout ==
    ASSUME NEW r \in Inputs, NEW c \in Settings, Dispatch(r, c).kind = "sent"
    PROVE  /\ RequireAuth(r, c)
           /\ ResolveTarget(r, c).kind = "target"
           /\ ExpectedAction(r.path) # Absent
           /\ BuildCommand(r, c, ExpectedAction(r.path)).kind = "command"
           /\ Dispatch(r, c).pid = ResolveTarget(r, c).pid
           /\ Dispatch(r, c).own = ResolveTarget(r, c).own
           /\ LET built == BuildCommand(r, c, ExpectedAction(r.path)).command
              IN  Dispatch(r, c).command =
                    IF ResolveTarget(r, c).own /\ r.headerPid = Absent
                      THEN WithoutPid(built) ELSE built
<1> DEFINE built == BuildCommand(r, c, ExpectedAction(r.path))
           target == ResolveTarget(r, c)
<1>1. /\ RequireAuth(r, c) /\ ExpectedAction(r.path) # Absent
      /\ Dispatch(r, c) = HandleCheckout(r, c)
  BY DEF Dispatch, Rejection
<1>2. HandleCheckout(r, c).kind = "sent"
  BY <1>1
<1>3. /\ built.kind # "refused" /\ target.kind # "refused"
      /\ HandleCheckout(r, c) =
           [kind |-> "sent", pid |-> target.pid, own |-> target.own,
            command |-> IF target.own /\ r.headerPid = Absent
                          THEN WithoutPid(built.command) ELSE built.command]
  <2> HIDE DEF built, target
  <2>1. HandleCheckout(r, c) =
          IF r.json = "too_large" THEN Rejection(413, "payload_too_large")
          ELSE IF r.json = "invalid" THEN Rejection(400, "invalid_json")
          ELSE IF built.kind = "refused" THEN built
          ELSE IF target.kind = "refused" THEN target
          ELSE [kind |-> "sent", pid |-> target.pid, own |-> target.own,
                command |-> IF target.own /\ r.headerPid = Absent
                              THEN WithoutPid(built.command) ELSE built.command]
    BY DEF HandleCheckout, built, target
  <2> QED BY <1>2, <2>1 DEF Rejection
<1>4. built.kind \in {"refused", "command"}
  BY DEF BuildCommand, Rejection
<1>5. target.kind \in {"refused", "target"}
  BY DEF ResolveTarget, MappedPid, Rejection, Target
<1> HIDE DEF built, target
<1> QED BY <1>1, <1>3, <1>4, <1>5 DEF built, target

LEMMA TargetIsChecked ==
    ASSUME NEW r \in Inputs, NEW c \in Settings, ResolveTarget(r, c).kind = "target"
    PROVE  /\ ResolveTarget(r, c).own \in BOOLEAN
           /\ ~ResolveTarget(r, c).own => ResolveTarget(r, c).pid = c.pid
           /\ ResolveTarget(r, c).own =>
                /\ c.allow /\ c.token
                /\ ResolveTarget(r, c).pid = RequestedPid(r)
                /\ RequestedPid(r) # Absent /\ RequestedPid(r) # BadPid
                /\ c.map # Absent => /\ RouteKey(r) # Absent
                                   /\ RouteKey(r) \in DOMAIN c.map
                                   /\ c.map[RouteKey(r)] = RequestedPid(r)
                                   /\ SiteScopeOk(r, BodyPayload(r))
           /\ c.allow /\ c.require => ResolveTarget(r, c).own
<1> DEFINE pid == RequestedPid(r)
           key == RouteKey(r)
           target == ResolveTarget(r, c)
           mapped == MappedPid(r, c)
<1>1. \A s, t : Rejection(s, t).kind # "target"
  BY DEF Rejection
<1>2. \A q, b : Target(q, b).pid = q /\ Target(q, b).own = b
  BY DEF Target
<1>3. target = IF pid = Absent /\ c.allow /\ c.require
                 THEN Rejection(400, "missing_write_process_id_override")
               ELSE IF pid = Absent \/ ~c.allow THEN Target(c.pid, FALSE)
               ELSE IF ~c.token THEN Rejection(503, "write_pid_override_not_configured")
               ELSE IF ~RequireAuth(r, c) THEN Rejection(401, "unauthorized")
               ELSE IF pid = BadPid
                 THEN Rejection(400, "invalid_write_process_id_override")
               ELSE IF c.map # Absent THEN mapped
               ELSE Target(pid, TRUE)
  BY Zenon DEF ResolveTarget
<1>4. mapped = IF ~SiteScopeOk(r, BodyPayload(r))
                 THEN Rejection(400, "write_pid_route_key_mismatch")
               ELSE IF key = Absent THEN Rejection(400, "write_pid_route_key_missing")
               ELSE IF key \notin DOMAIN c.map
                 THEN Rejection(403, "write_pid_route_not_allowed")
               ELSE IF c.map[key] # pid THEN Rejection(403, "write_pid_route_mismatch")
               ELSE Target(pid, TRUE)
  BY Zenon DEF MappedPid
<1>5. target.kind = "target"
  OBVIOUS
<1>6. ASSUME NEW s, NEW t PROVE target # Rejection(s, t)
  BY Zenon, <1>1, <1>5
<1> SUFFICES /\ target.own \in BOOLEAN
             /\ ~target.own => target.pid = c.pid
             /\ target.own => /\ c.allow /\ c.token /\ target.pid = pid
                              /\ pid # Absent /\ pid # BadPid
                              /\ c.map # Absent => /\ key # Absent /\ key \in DOMAIN c.map
                                                 /\ c.map[key] = pid
                                                 /\ SiteScopeOk(r, BodyPayload(r))
             /\ c.allow /\ c.require => target.own
  BY Zenon
<1> HIDE DEF target, mapped, pid, key
<1>7. CASE pid = Absent \/ ~c.allow
  <2>1. ASSUME pid = Absent /\ c.allow /\ c.require PROVE FALSE
    <3>1. target = Rejection(400, "missing_write_process_id_override")
      BY Zenon, <1>3, <2>1
    <3> QED BY Zenon, <1>6, <3>1
  <2>2. target = Target(c.pid, FALSE)
    BY Zenon, <1>3, <1>7, <2>1
  <2>3. target.pid = c.pid /\ target.own = FALSE
    BY Zenon, <1>2, <2>2
  <2> QED BY Zenon, <1>7, <2>1, <2>3
<1>8. CASE pid # Absent /\ c.allow
  <2>1. ASSUME ~c.token PROVE FALSE
    <3>1. target = Rejection(503, "write_pid_override_not_configured")
      BY Zenon, <1>3, <1>8, <2>1
    <3> QED BY Zenon, <1>6, <3>1
  <2>2. ASSUME ~RequireAuth(r, c) PROVE FALSE
    <3>1. target = Rejection(401, "unauthorized")
      BY Zenon, <1>3, <1>8, <2>1, <2>2
    <3> QED BY Zenon, <1>6, <3>1
  <2>3. ASSUME pid = BadPid PROVE FALSE
    <3>1. target = Rejection(400, "invalid_write_process_id_override")
      BY Zenon, <1>3, <1>8, <2>1, <2>2, <2>3
    <3> QED BY Zenon, <1>6, <3>1
  <2>4. target = IF c.map # Absent THEN mapped ELSE Target(pid, TRUE)
    BY Zenon, <1>3, <1>8, <2>1, <2>2, <2>3
  <2>5. ASSUME c.map # Absent
        PROVE  /\ target = Target(pid, TRUE)
               /\ SiteScopeOk(r, BodyPayload(r)) /\ key # Absent
               /\ key \in DOMAIN c.map /\ c.map[key] = pid
    <3>1. target = mapped
      BY Zenon, <2>4, <2>5
    <3>2. ASSUME ~SiteScopeOk(r, BodyPayload(r)) PROVE FALSE
      <4>1. target = Rejection(400, "write_pid_route_key_mismatch")
        BY Zenon, <1>4, <3>1, <3>2
      <4> QED BY Zenon, <1>6, <4>1
    <3>3. ASSUME key = Absent PROVE FALSE
      <4>1. target = Rejection(400, "write_pid_route_key_missing")
        BY Zenon, <1>4, <3>1, <3>2, <3>3
      <4> QED BY Zenon, <1>6, <4>1
    <3>4. ASSUME key \notin DOMAIN c.map PROVE FALSE
      <4>1. target = Rejection(403, "write_pid_route_not_allowed")
        BY Zenon, <1>4, <3>1, <3>2, <3>3, <3>4
      <4> QED BY Zenon, <1>6, <4>1
    <3>5. ASSUME c.map[key] # pid PROVE FALSE
      <4>1. target = Rejection(403, "write_pid_route_mismatch")
        BY Zenon, <1>4, <3>1, <3>2, <3>3, <3>4, <3>5
      <4> QED BY Zenon, <1>6, <4>1
    <3> QED BY Zenon, <1>4, <3>1, <3>2, <3>3, <3>4, <3>5
  <2>6. target = Target(pid, TRUE)
    BY Zenon, <2>4, <2>5
  <2>7. target.pid = pid /\ target.own = TRUE
    BY Zenon, <1>2, <2>6
  <2> QED BY Zenon, <1>8, <2>1, <2>3, <2>5, <2>7
<1> QED BY Zenon, <1>7, <1>8

\* The payload of the command that is built.
FilledPayload(r) ==
    LET p == CommandPayload(r)
    IN  IF r.signed \/ p.siteId # Absent THEN p
                                       ELSE [p EXCEPT !.siteId = SiteScope(r, p)]

LEMMA CommandIsBuilt ==
    ASSUME NEW r, NEW c, NEW e, BuildCommand(r, c, e).kind = "command"
    PROVE  /\ BuildCommand(r, c, e).command = Command(r, FilledPayload(r), c, e)
           /\ SiteScopeOk(r, CommandPayload(r))
           /\ RouteActionOk(r, e)
           /\ CommandTenant(r, FilledPayload(r), c) # Absent
           /\ CommandTimestamp(r) # Absent
<1> DEFINE p == FilledPayload(r)
<1>1. BuildCommand(r, c, e) =
        IF ~SiteScopeOk(r, CommandPayload(r)) THEN Rejection(400, "site_id_mismatch")
        ELSE IF ~RouteActionOk(r, e) THEN Rejection(400, "action_route_mismatch")
        ELSE IF CommandTenant(r, p, c) = Absent THEN Rejection(400, "tenant_required")
        ELSE IF CommandTimestamp(r) = Absent THEN Rejection(400, "invalid_timestamp")
        ELSE [kind |-> "command", command |-> Command(r, p, c, e)]
  BY Zenon DEF BuildCommand, FilledPayload
<1> HIDE DEF p
<1>2. BuildCommand(r, c, e).command = Command(r, p, c, e)
  BY <1>1 DEF Rejection
<1> QED BY <1>1, <1>2 DEF Rejection, p

\* What the payload of a command holds of the one in the body.
LEMMA PayloadIsTheBodys ==
    ASSUME NEW r \in Request
    PROVE  /\ BodyPayload(r) \in Payload
           /\ FilledPayload(r) \in Payload
           /\ FilledPayload(r).altSite = BodyPayload(r).altSite
           /\ FilledPayload(r).tenant = BodyPayload(r).tenant
           /\ CommandPayload(r).siteId = BodyPayload(r).siteId
           /\ r.signed => FilledPayload(r) = BodyPayload(r)
           /\ ~r.signed => FilledPayload(r).siteId =
                              First(BodyPayload(r).siteId, SiteScope(r, BodyPayload(r)))
           /\ SiteScope(r, BodyPayload(r)) # Placeholder
<1>1. BodyPayload(r) \in Payload
  BY DEF BodyPayload, EmptyPayload, Payload, Request
<1> DEFINE b == BodyPayload(r)
<1>2. CommandPayload(r) = IF r.signed THEN b ELSE [b EXCEPT !.pid = FALSE]
  BY DEF CommandPayload, BuildPayload
<1>3. r.siteId \in Scopes \cup {Absent}
  BY DEF Request
<1> HIDE DEF b
<1>4. b \in Payload
  BY <1>1 DEF b
<1> DEFINE p == CommandPayload(r)
<1>5. /\ p \in Payload /\ p.siteId = b.siteId
      /\ p.altSite = b.altSite /\ p.tenant = b.tenant
      /\ r.signed => p = b
  BY <1>2, <1>4 DEF Payload
<1> HIDE DEF p
<1>6. /\ SiteScope(r, p) = SiteScope(r, b)
      /\ SiteScope(r, b) \in Scopes \cup {Absent}
  BY <1>3, <1>4, <1>5 DEF SiteScope, First, Clean, Payload
<1>7. FilledPayload(r) = IF r.signed \/ p.siteId # Absent THEN p
                         ELSE [p EXCEPT !.siteId = SiteScope(r, p)]
  BY DEF FilledPayload, p
<1>8. /\ FilledPayload(r) \in Payload
      /\ FilledPayload(r).altSite = b.altSite
      /\ FilledPayload(r).tenant = b.tenant
      /\ r.signed => FilledPayload(r) = b
      /\ ~r.signed => FilledPayload(r).siteId = First(b.siteId, SiteScope(r, b))
  BY <1>5, <1>6, <1>7 DEF Payload, First
<1>9. SiteScope(r, b) # Placeholder
  BY <1>6, ValueAssumption
<1> QED BY <1>4, <1>5, <1>8, <1>9 DEF b, p

\* A command that is sent has its type, with or without the field that named
\* the process.
LEMMA CommandType ==
    ASSUME NEW r \in Request, NEW c \in Settings, NEW e \in Actions,
           BuildCommand(r, c, e).kind = "command"
    PROVE  BuildCommand(r, c, e).command \in SentCommand
<1> DEFINE p == FilledPayload(r)
<1>1. p \in Payload
  BY PayloadIsTheBodys
<1>2. /\ BuildCommand(r, c, e).command = Command(r, p, c, e)
      /\ CommandTenant(r, p, c) # Absent /\ CommandTimestamp(r) # Absent
  BY CommandIsBuilt
<1> HIDE DEF p
<1>3. CommandTenant(r, p, c) \in Scopes
  BY <1>1, <1>2 DEF CommandTenant, First, Clean, Payload, Request, Settings
<1>4. CommandRequestId(r) \in Ids \cup {Fresh}
  BY ValueAssumption DEF CommandRequestId, First, Request
<1>5. CommandNonce(r) \in Ids \cup {Fresh, Absent}
  BY DEF CommandNonce, First, Request
<1>6. (IF r.signed THEN r.actor ELSE First(r.actor, Fresh)) \in Ids \cup {Fresh, Absent}
  BY DEF First, Request
<1>7. CommandTimestamp(r) \in {"now", "epoch", "iso", "bad"}
  BY <1>2 DEF CommandTimestamp, NormalizeTimestamp, Request
<1> QED BY <1>1, <1>2, <1>3, <1>4, <1>5, <1>6, <1>7 DEF Command, SentCommand

LEMMA WithoutPidType ==
    ASSUME NEW x \in SentCommand
    PROVE  /\ WithoutPid(x) \in SentCommand
           /\ \A f \in {"action", "tenant", "requestId", "nonce", "actor", "timestamp"} :
                  WithoutPid(x)[f] = x[f]
           /\ WithoutPid(x).payload = [x.payload EXCEPT !.pid = FALSE]
<1>1. x.payload \in Payload
  BY DEF SentCommand
<1>2. [x.payload EXCEPT !.pid = FALSE] \in Payload
  BY <1>1 DEF Payload
<1> QED BY <1>1, <1>2 DEF WithoutPid, SentCommand

-----------------------------------------------------------------------------
(* The properties *)

\* What the invariant says of a command that has been sent.
LEMMA SentIsChecked ==
    ASSUME RoutingInv, Sent
    PROVE  /\ conf \in Settings /\ Built(conf)
           /\ req \in Inputs /\ req \in Request
           /\ out = Dispatch(req, conf) /\ Dispatch(req, conf).kind = "sent"
BY BuiltConfig, InputAssumption DEF RoutingInv, Sent

\* THEOREM: only a request with the token reaches another process than the
\* configured one (createServer, resolveTargetWritePid).
THEOREM ForeignPidAuthenticated == RoutingSpec => []ForeignPidIsAuthenticated
<1>1. RoutingInv => ForeignPidIsAuthenticated
  <2> SUFFICES ASSUME RoutingInv, Sent, out.pid # conf.pid
               PROVE  conf.token /\ req.auth /\ out.pid \in Pids
    BY DEF ForeignPidIsAuthenticated
  <2>1. /\ conf \in Settings /\ req \in Inputs /\ req \in Request
        /\ out = Dispatch(req, conf) /\ Dispatch(req, conf).kind = "sent"
    BY SentIsChecked
  <2>2. RequireAuth(req, conf) /\ ResolveTarget(req, conf).kind = "target"
    BY <2>1, SentByCheckout
  <2>3. /\ out.pid = ResolveTarget(req, conf).pid
    BY <2>1, SentByCheckout
  <2>4. /\ conf.token /\ out.pid = RequestedPid(req)
        /\ RequestedPid(req) # Absent /\ RequestedPid(req) # BadPid
    BY <2>1, <2>2, <2>3, TargetIsChecked
  <2>5. RequestedPid(req) \in Pids
    BY <2>1, <2>4 DEF RequestedPid, First, Request
  <2> QED BY <2>2, <2>4, <2>5 DEF RequireAuth
<1> QED BY <1>1, RoutingInvHolds, PTL

\* THEOREM: where a named process is required, every command goes to one that
\* its request named (buildEnv, resolveTargetWritePid).
THEOREM RequiredPidNamed == RoutingSpec => []RequiredPidIsNamed
<1>1. RoutingInv => RequiredPidIsNamed
  <2> SUFFICES ASSUME RoutingInv, Sent, conf.require PROVE out.own
    BY DEF RequiredPidIsNamed
  <2>1. /\ conf \in Settings /\ Built(conf) /\ req \in Inputs
        /\ out = Dispatch(req, conf) /\ Dispatch(req, conf).kind = "sent"
    BY SentIsChecked
  <2>2. /\ ResolveTarget(req, conf).kind = "target"
        /\ out.own = ResolveTarget(req, conf).own
    BY <2>1, SentByCheckout
  <2>3. conf.allow
    BY <2>1, BuiltConfig
  <2> QED BY <2>1, <2>2, <2>3, TargetIsChecked
<1> QED BY <1>1, RoutingInvHolds, PTL

\* THEOREM: a production-like server that was not explicitly opened sends
\* nothing for a client without the token (buildEnv, requireAuth).
THEOREM ProductionAuthenticated == RoutingSpec => []ProductionIsAuthenticated
<1>1. RoutingInv => ProductionIsAuthenticated
  <2> SUFFICES ASSUME RoutingInv, Sent, conf.productionLike, ~conf.unsafe PROVE req.auth
    BY DEF ProductionIsAuthenticated
  <2>1. /\ conf \in Settings /\ Built(conf) /\ req \in Inputs
        /\ Dispatch(req, conf).kind = "sent"
    BY SentIsChecked
  <2>2. conf.token
    BY <2>1, BuiltConfig
  <2>3. RequireAuth(req, conf)
    BY <2>1, SentByCheckout
  <2> QED BY <2>2, <2>3 DEF RequireAuth
<1> QED BY <1>1, RoutingInvHolds, PTL

\* The scope of a command is the key that the map was asked for, or a
\* Placeholder has kept the site at the top, which was the key, out of it.
LEMMA ScopeIsRouteKey ==
    ASSUME NEW r \in Request, NEW c, NEW e, RouteKey(r) # Absent,
           SiteScopeOk(r, BodyPayload(r)), NEW x,
           x.tenant = Command(r, FilledPayload(r), c, e).tenant,
           x.payload \in {FilledPayload(r), [FilledPayload(r) EXCEPT !.pid = FALSE]}
    PROVE  \/ Scope(r, x) = RouteKey(r)
           \/ ~r.signed /\ x.payload.siteId = Placeholder /\ r.siteId = RouteKey(r)
<1> DEFINE b == BodyPayload(r)
           p == FilledPayload(r)
<1>1. /\ b \in Payload /\ p \in Payload
      /\ p.altSite = b.altSite /\ p.tenant = b.tenant
      /\ r.signed => p = b
      /\ ~r.signed => p.siteId = First(b.siteId, SiteScope(r, b))
      /\ SiteScope(r, b) # Placeholder
  BY PayloadIsTheBodys
<1>2. RouteKey(r) = IF r.signed THEN First(Clean(b.siteId), First(b.altSite, r.tenant))
                    ELSE First(SiteScope(r, b), First(r.tenant, b.tenant))
  BY DEF RouteKey
<1>3. x.tenant = IF r.signed THEN r.tenant
                 ELSE First(r.tenant, First(p.tenant, First(Clean(p.siteId), c.fallback)))
  BY DEF Command, CommandTenant
<1>4. SiteScopeOk(r, b)
  OBVIOUS
<1> HIDE DEF b, p
<1>5. x.payload.siteId = p.siteId /\ x.payload.altSite = p.altSite
  BY <1>1 DEF Payload, p
<1>6. CASE r.signed
  BY <1>1, <1>2, <1>3, <1>5, <1>6 DEF Scope, First
<1>7. CASE ~r.signed /\ b.siteId = Placeholder
  BY <1>1, <1>2, <1>3, <1>5, <1>7, ValueAssumption DEF Scope, First, Clean, SiteScope
<1>8. CASE ~r.signed /\ b.siteId # Placeholder
  BY <1>1, <1>2, <1>3, <1>4, <1>5, <1>8 DEF Scope, First, Clean, SiteScope, SiteScopeOk
<1> QED BY <1>6, <1>7, <1>8

\* THEOREM: the key the map is asked for and the command are computed apart;
\* a command goes to a process its client named only if the map gives it the
\* site or tenant of that very command, or, when a Placeholder stands in its
\* payload, the site at the top of the request.
THEOREM MapDecidesTarget == RoutingSpec => []MapDecides
<1>1. RoutingInv => MapDecides
  <2> SUFFICES ASSUME RoutingInv, Sent, out.own, conf.map # Absent
               PROVE  \/ MapGives(Scope(req, out.command))
                      \/ /\ ~req.signed /\ out.command.payload.siteId = Placeholder
                         /\ MapGives(req.siteId)
    BY DEF MapDecides
  <2> DEFINE e == ExpectedAction(req.path)
             built == BuildCommand(req, conf, e).command
  <2>1. /\ conf \in Settings /\ req \in Inputs /\ req \in Request
        /\ out = Dispatch(req, conf) /\ Dispatch(req, conf).kind = "sent"
    BY SentIsChecked
  <2>2. /\ ResolveTarget(req, conf).kind = "target"
        /\ e # Absent /\ BuildCommand(req, conf, e).kind = "command"
        /\ out.pid = ResolveTarget(req, conf).pid
        /\ out.own = ResolveTarget(req, conf).own
        /\ out.command \in {built, WithoutPid(built)}
    BY <2>1, SentByCheckout
  <2>3. /\ RouteKey(req) # Absent /\ RouteKey(req) \in DOMAIN conf.map
        /\ conf.map[RouteKey(req)] = out.pid
        /\ SiteScopeOk(req, BodyPayload(req))
    BY <2>1, <2>2, TargetIsChecked
  <2>4. e \in Actions
    BY <2>2 DEF ExpectedAction, Actions
  <2>5. built \in SentCommand /\ built = Command(req, FilledPayload(req), conf, e)
    BY <2>1, <2>2, <2>4, CommandType, CommandIsBuilt
  <2> HIDE DEF built, e
  <2>6. built.payload = FilledPayload(req)
    BY <2>5 DEF Command
  <2>7. /\ out.command.tenant = built.tenant
        /\ out.command.payload \in {FilledPayload(req),
                                    [FilledPayload(req) EXCEPT !.pid = FALSE]}
    <3>1. /\ WithoutPid(built).tenant = built.tenant
          /\ WithoutPid(built).payload = [built.payload EXCEPT !.pid = FALSE]
      BY <2>5, WithoutPidType
    <3> QED BY <2>2, <2>6, <3>1
  <2>8. \/ Scope(req, out.command) = RouteKey(req)
        \/ /\ ~req.signed /\ out.command.payload.siteId = Placeholder
           /\ req.siteId = RouteKey(req)
    <3>1. out.command.tenant = Command(req, FilledPayload(req), conf, e).tenant
      BY <2>5, <2>7
    <3> QED BY <2>1, <2>3, <2>7, <3>1, ScopeIsRouteKey
  <2> QED BY <2>3, <2>8 DEF MapGives
<1> QED BY <1>1, RoutingInvHolds, PTL

\* THEOREM: a signed command leaves the gateway with the fields its client
\* signed (buildCommand, handleCheckout).
THEOREM SignedCommandUntouched == RoutingSpec => []SignedCommandIsTheClients
<1>1. RoutingInv => SignedCommandIsTheClients
  <2> SUFFICES ASSUME RoutingInv, Sent, req.signed
               PROVE  /\ out.command.action = req.action
                      /\ out.command.tenant = req.tenant
                      /\ out.command.nonce = req.nonce
                      /\ out.command.actor = req.actor
                      /\ out.command.timestamp = req.timestamp
                      /\ req.bodyId # Absent => out.command.requestId = req.bodyId
                      /\ \/ out.command.payload = BodyPayload(req)
                         \/ /\ out.own /\ req.headerPid = Absent
                            /\ out.command.payload =
                                 [BodyPayload(req) EXCEPT !.pid = FALSE]
    BY DEF SignedCommandIsTheClients
  <2> DEFINE e == ExpectedAction(req.path)
             built == BuildCommand(req, conf, e).command
  <2>1. /\ conf \in Settings /\ req \in Inputs /\ req \in Request
        /\ out = Dispatch(req, conf) /\ Dispatch(req, conf).kind = "sent"
    BY SentIsChecked
  <2>2. /\ e # Absent /\ BuildCommand(req, conf, e).kind = "command"
        /\ out.own = ResolveTarget(req, conf).own
        /\ out.command = IF ResolveTarget(req, conf).own /\ req.headerPid = Absent
                           THEN WithoutPid(built) ELSE built
    BY <2>1, SentByCheckout
  <2>3. e \in Actions
    BY <2>2 DEF ExpectedAction, Actions
  <2>4. /\ built \in SentCommand /\ RouteActionOk(req, e)
        /\ built = Command(req, FilledPayload(req), conf, e)
    BY <2>1, <2>2, <2>3, CommandType, CommandIsBuilt
  <2>5. FilledPayload(req) = BodyPayload(req)
    BY <2>1, PayloadIsTheBodys
  <2> HIDE DEF built, e
  <2>6. e = req.action
    BY <2>4 DEF RouteActionOk
  <2>7. /\ built.action = req.action /\ built.tenant = req.tenant
        /\ built.nonce = req.nonce /\ built.actor = req.actor
        /\ built.timestamp = req.timestamp /\ built.payload = BodyPayload(req)
        /\ req.bodyId # Absent => built.requestId = req.bodyId
    BY <2>4, <2>5, <2>6
       DEF Command, CommandTenant, CommandNonce, CommandTimestamp,
           CommandRequestId, First
  <2>8. /\ \A f \in {"action", "tenant", "requestId", "nonce", "actor", "timestamp"} :
               WithoutPid(built)[f] = built[f]
        /\ WithoutPid(built).payload = [built.payload EXCEPT !.pid = FALSE]
    BY <2>4, WithoutPidType
  <2>9. CASE out.own /\ req.headerPid = Absent
    <3>1. out.command = WithoutPid(built)
      BY <2>2, <2>9
    <3> QED BY <2>7, <2>8, <2>9, <3>1
  <2>10. CASE ~(out.own /\ req.headerPid = Absent)
    BY <2>2, <2>7, <2>10
  <2> QED BY <2>9, <2>10
<1> QED BY <1>1, RoutingInvHolds, PTL

\* THEOREM: the type invariant: what is sent is a complete command, and
\* everything else is answered with a status of the HTTP range used here.
THEOREM RoutingTypeCorrect == RoutingSpec => []RoutingType
<1> DEFINE Statuses == {200, 204} \cup 400..503
<1>1. ASSUME NEW r, NEW c
      PROVE  Dispatch(r, c).kind = "refused" => Dispatch(r, c).status \in Statuses
  <2>1. ASSUME NEW e, BuildCommand(r, c, e).kind = "refused"
        PROVE  BuildCommand(r, c, e).status \in Statuses
    BY <2>1 DEF BuildCommand, Rejection
  <2>2. ASSUME ResolveTarget(r, c).kind = "refused"
        PROVE  ResolveTarget(r, c).status \in Statuses
    BY <2>2 DEF ResolveTarget, MappedPid, Rejection, Target
  <2> DEFINE built == BuildCommand(r, c, ExpectedAction(r.path))
             target == ResolveTarget(r, c)
             command == IF target.own /\ r.headerPid = Absent
                          THEN WithoutPid(built.command) ELSE built.command
  <2>3. HandleCheckout(r, c) =
          IF r.json = "too_large" THEN Rejection(413, "payload_too_large")
          ELSE IF r.json = "invalid" THEN Rejection(400, "invalid_json")
          ELSE IF built.kind = "refused" THEN built
          ELSE IF target.kind = "refused" THEN target
          ELSE [kind |-> "sent", pid |-> target.pid, own |-> target.own,
                command |-> command]
    BY DEF HandleCheckout
  <2>4. built.kind = "refused" => built.status \in Statuses
    BY <2>1
  <2> HIDE DEF built, target, command
  <2>5. HandleCheckout(r, c).kind = "refused" => HandleCheckout(r, c).status \in Statuses
    BY <2>2, <2>3, <2>4 DEF Rejection, target
  <2> QED BY <2>5 DEF Dispatch, Rejection
<1>2. RoutingInv => conf \in Settings \cup {Absent}
  BY BuiltConfig DEF RoutingInv
<1>3. ASSUME RoutingInv, out # Absent
      PROVE  \/ out.kind = "refused" /\ out.status \in Statuses
             \/ /\ out.kind = "sent" /\ out.pid \in Pids \cup {Absent}
                /\ out.own \in BOOLEAN /\ out.command \in SentCommand
  <2>1. /\ conf \in Settings /\ req \in Inputs /\ req \in Request
        /\ out = Dispatch(req, conf)
    BY <1>3, BuiltConfig, InputAssumption DEF RoutingInv
  <2>2. out.kind \in {"refused", "sent"}
    <3>1. ASSUME NEW e PROVE BuildCommand(req, conf, e).kind \in {"refused", "command"}
      BY Zenon DEF BuildCommand, Rejection
    <3> QED BY <2>1, <3>1 DEF Dispatch, HandleCheckout, Rejection
  <2>3. CASE out.kind = "refused"
    BY <1>1, <2>1, <2>3
  <2>4. CASE out.kind = "sent"
    <3>1. Dispatch(req, conf).kind = "sent"
      BY <2>1, <2>4
    <3> DEFINE e == ExpectedAction(req.path)
               built == BuildCommand(req, conf, e).command
    <3>2. /\ ResolveTarget(req, conf).kind = "target"
          /\ e # Absent /\ BuildCommand(req, conf, e).kind = "command"
          /\ out.pid = ResolveTarget(req, conf).pid
          /\ out.own = ResolveTarget(req, conf).own
          /\ out.command \in {built, WithoutPid(built)}
      BY <2>1, <3>1, SentByCheckout
    <3>3. e \in Actions
      BY <3>2 DEF ExpectedAction, Actions
    <3>4. built \in SentCommand
      BY <2>1, <3>2, <3>3, CommandType
    <3>5. WithoutPid(built) \in SentCommand
      BY <3>4, WithoutPidType
    <3>6. conf.pid \in Pids \cup {Absent}
      BY <2>1 DEF Settings
    <3>7. RequestedPid(req) # BadPid => RequestedPid(req) \in Pids \cup {Absent}
      BY <2>1 DEF RequestedPid, First, Request
    <3>8. /\ out.own \in BOOLEAN
          /\ out.pid \in {conf.pid, RequestedPid(req)}
          /\ out.own => RequestedPid(req) # BadPid
          /\ ~out.own => out.pid = conf.pid
          /\ out.own => out.pid = RequestedPid(req)
      BY <2>1, <3>2, TargetIsChecked
    <3> QED BY <2>4, <3>2, <3>4, <3>5, <3>6, <3>7, <3>8
  <2> QED BY <2>2, <2>3, <2>4
<1>4. RoutingInv => RoutingType
  <2>1. RoutingInv => raw \in RawEnvs \cup {Absent} /\ req \in Request \cup {Absent}
    BY InputAssumption DEF RoutingInv
  <2> QED BY <1>2, <1>3, <2>1 DEF RoutingType
<1> QED BY <1>4, RoutingInvHolds, PTL

-----------------------------------------------------------------------------
(* CheckoutGateway: what becomes of a command that is sent *)

GatewayType ==
    /\ cfg \in Config
    /\ pc \in [Requests -> Stages]
    /\ sent \in [Requests -> 0..MaxTries]
    /\ tries \in [Requests -> 0..MaxTries]
    /\ got \in [Requests -> Copies \cup {None}]
    /\ answer \in [Requests -> Answers \cup {None}]

\* Nothing is under way that was not counted.
SentInv == \A c \in Copies : Known(c) => c[2] <= sent[c[1]]

\* The copy being read is one of the request's own and was scheduled.
ReadInv ==
    \A r \in Requests :
        /\ pc[r] \in {"reading", "computing", "body"} => got[r] # None
        /\ got[r] # None => /\ got[r][1] = r /\ got[r][2] <= sent[r]
                            /\ got[r] \in scheduled \/ landed[got[r]] # None
        /\ pc[r] = "sending" => sent[r] > 0
        /\ pc[r] \in {"new", "signing"} => sent[r] = 0

\* An answer that hands on a response is about the slot that was read.
AnswerOk(r, a) ==
    IF a.response = None THEN a.status \in {202, 502}
    ELSE /\ got[r] # None /\ landed[got[r]] = a.response
         /\ a.status = HttpStatus(a.response.code)

AnswerInv ==
    \A r \in Requests :
        IF pc[r] = "done" THEN answer[r] # None /\ AnswerOk(r, answer[r])
                          ELSE answer[r] = None

Inv == IngressInv /\ GatewayType /\ SentInv /\ ReadInv /\ AnswerInv

-----------------------------------------------------------------------------
(* The parts of a step *)

LEMMA TriesFacts == MaxTries \in Nat \ {0} /\ MaxTries = MaxCopies
BY CopyAssumption, TriesAssumption DEF MaxTries

LEMMA AnswerFacts ==
    /\ None \notin Answers
    /\ \A x \in Responses : Answer(HttpStatus(x.code), x) \in Answers
    /\ Answer(202, None) \in Answers /\ Answer(502, None) \in Answers
<1>1. None \notin Answers
  BY AnswerAssumption
<1>2. ASSUME NEW x \in Responses PROVE Answer(HttpStatus(x.code), x) \in Answers
  <2>1. HttpStatus(x.code) \in {200, 202, 400, 401, 403, 404, 409, 429, 502}
    BY DEF HttpStatus
  <2> QED BY <2>1 DEF Answer, Answers
<1>3. Answer(202, None) \in Answers /\ Answer(502, None) \in Answers
  BY DEF Answer, Answers
<1> QED BY <1>1, <1>2, <1>3

\* What is read at the slot of a request's copy makes an answer about it.
LEMMA NormalizeOk ==
    ASSUME Inv, NEW r \in Requests, pc[r] \in {"reading", "body"},
           NEW result \in Held(got[r]) \cup {[shape |-> "none", error |-> FALSE]}
    PROVE  /\ Normalize(result, got[r]) \in Answers
           /\ AnswerOk(r, Normalize(result, got[r]))
<1> DEFINE c == got[r]
<1>1. c # None /\ c \in Copies
  BY DEF Inv, ReadInv, GatewayType
<1>2. CASE result.shape \in {"envelope", "status"}
  <2>1. landed[c] # None
    BY <1>2 DEF Held
  <2>2. landed[c] \in Responses
    BY <1>1, <2>1 DEF Inv, IngressInv, IngressType
  <2>3. Normalize(result, c) = Answer(HttpStatus(landed[c].code), landed[c])
    BY <1>2 DEF Normalize
  <2> QED BY <1>1, <2>1, <2>2, <2>3, AnswerFacts DEF AnswerOk, Answer
<1>3. CASE result.shape \notin {"envelope", "status"}
  <2>1. Normalize(result, c) \in {Answer(202, None), Answer(502, None)}
    BY <1>3 DEF Normalize
  <2> QED BY <2>1, AnswerFacts DEF AnswerOk, Answer
<1> QED BY <1>2, <1>3

LEMMA SettleInv ==
    ASSUME Inv, NEW r \in Requests, pc[r] # "done", NEW a \in Answers,
           AnswerOk(r, a), Settle(r, a)
    PROVE  Inv'
<1> USE DEF Inv
<1>1. /\ pc' = [pc EXCEPT ![r] = "done"] /\ answer' = [answer EXCEPT ![r] = a]
      /\ UNCHANGED <<cfg, sent, tries, got, ingress>>
  BY DEF Settle
<1>2. IngressInv'
  BY <1>1, IngressStutter
<1>3. GatewayType'
  BY <1>1 DEF GatewayType, Stages
<1>4. SentInv' /\ ReadInv'
  BY <1>1 DEF GatewayType, SentInv, ReadInv, Known, ingress
<1>5. AnswerInv'
  BY <1>1, AnswerFacts DEF GatewayType, AnswerInv, AnswerOk, ingress
<1> QED BY <1>2, <1>3, <1>4, <1>5

LEMMA FailInv ==
    ASSUME Inv, NEW r \in Requests, pc[r] # "done", Fail(r)
    PROVE  Inv'
<1>1. AnswerOk(r, Answer(502, None))
  BY DEF AnswerOk, Answer
<1> QED BY <1>1, SettleInv, AnswerFacts DEF Fail

LEMMA ReadStep ==
    ASSUME Inv, NEW r \in Requests, pc[r] \in {"reading", "computing", "body"},
           NEW stage \in {"reading", "computing", "body"}, NEW n \in 0..MaxTries,
           Read(r, stage, n)
    PROVE  Inv'
<1> USE DEF Inv
<1>1. /\ pc' = [pc EXCEPT ![r] = stage] /\ tries' = [tries EXCEPT ![r] = n]
      /\ UNCHANGED <<cfg, sent, got, answer, ingress>>
  BY DEF Read
<1>2. IngressInv'
  BY <1>1, IngressStutter
<1>3. GatewayType'
  BY <1>1 DEF GatewayType, Stages
<1>4. SentInv' /\ ReadInv'
  BY <1>1 DEF GatewayType, SentInv, ReadInv, Known, ingress
<1>5. AnswerInv'
  BY <1>1 DEF GatewayType, AnswerInv, AnswerOk, ingress
<1> QED BY <1>2, <1>3, <1>4, <1>5

LEMMA SendStep ==
    ASSUME Inv, NEW r \in Requests, pc[r] \in {"new", "signing", "sending"},
           sent[r] < MaxTries, Send(r)
    PROVE  Inv'
<1> USE DEF Inv
<1> DEFINE c == <<r, sent[r] + 1>>
<1>1. /\ pc' = [pc EXCEPT ![r] = "sending"] /\ sent' = [sent EXCEPT ![r] = sent[r] + 1]
      /\ Launch(c) /\ UNCHANGED <<cfg, tries, got, answer>>
  BY DEF Send
<1>2. sent[r] \in 0..MaxTries /\ MaxTries \in Nat
  BY TriesFacts DEF GatewayType
<1>3. c \in Copies /\ ~Known(c) /\ c[1] = r /\ c[2] = sent[r] + 1
  BY <1>2, TriesFacts DEF SentInv, Copies
<1> HIDE DEF c
<1>4. /\ IngressInv' /\ UNCHANGED <<scheduled, landed>>
      /\ \A d \in Copies : Known(d)' => Known(d) \/ d = c
  BY <1>1, <1>3, LaunchInv
<1>5. GatewayType'
  BY <1>1, <1>2 DEF GatewayType, Stages
<1>6. SentInv'
  <2> SUFFICES ASSUME NEW d \in Copies, Known(d)' PROVE d[2] <= sent'[d[1]]
    BY DEF SentInv
  <2>1. CASE d = c
    BY <1>1, <1>2, <1>3, <2>1 DEF GatewayType
  <2>2. CASE Known(d)
    <3>1. d[2] <= sent[d[1]] /\ d[1] \in Requests /\ d[2] \in Nat
      BY <2>2, CopyFacts DEF SentInv
    <3>2. sent[d[1]] \in Nat /\ sent'[d[1]] \in Nat /\ sent[d[1]] <= sent'[d[1]]
      BY <1>1, <1>2, <3>1 DEF GatewayType
    <3> QED BY <3>1, <3>2
  <2> QED BY <1>4, <2>1, <2>2
<1>7. ReadInv'
  <2> SUFFICES ASSUME NEW q \in Requests
               PROVE  /\ pc'[q] \in {"reading", "computing", "body"} => got'[q] # None
                      /\ got'[q] # None =>
                           /\ got'[q][1] = q /\ got'[q][2] <= sent'[q]
                           /\ got'[q] \in scheduled' \/ landed'[got'[q]] # None
                      /\ pc'[q] = "sending" => sent'[q] > 0
                      /\ pc'[q] \in {"new", "signing"} => sent'[q] = 0
    BY DEF ReadInv
  <2>1. CASE q = r
    <3>1. pc'[r] = "sending" /\ sent'[r] = sent[r] + 1 /\ sent'[r] > 0
      BY <1>1, <1>2 DEF GatewayType
    <3>2. got[r] # None => got[r][2] \in Nat /\ got[r][2] <= sent[r] /\ sent[r] \in Nat
      BY <1>2, CopyFacts DEF GatewayType, ReadInv
    <3> QED BY <1>1, <1>4, <2>1, <3>1, <3>2 DEF ReadInv
  <2>2. CASE q # r
    <3>1. pc'[q] = pc[q] /\ sent'[q] = sent[q] /\ got'[q] = got[q]
      BY <1>1, <2>2 DEF GatewayType
    <3> QED BY <1>4, <3>1 DEF ReadInv
  <2> QED BY <2>1, <2>2
<1>8. AnswerInv'
  <2>1. \A q \in Requests : /\ (pc'[q] = "done") = (pc[q] = "done")
                            /\ answer'[q] = answer[q] /\ got'[q] = got[q]
    BY <1>1 DEF GatewayType
  <2> QED BY <1>4, <2>1 DEF AnswerInv, AnswerOk
<1> QED BY <1>4, <1>5, <1>6, <1>7, <1>8

-----------------------------------------------------------------------------
(* The invariant *)

LEMMA InvInit == Init => Inv
<1> SUFFICES ASSUME Init PROVE Inv
  OBVIOUS
<1>1. IngressInv
  BY IngressInitInv DEF Init
<1>2. GatewayType
  BY TriesFacts, ConfigAssumption DEF Init, GatewayType, Stages
<1>3. SentInv
  BY DEF Init, IngressInit, SentInv, Known
<1>4. ReadInv /\ AnswerInv
  BY DEF Init, ReadInv, AnswerInv
<1> QED BY <1>1, <1>2, <1>3, <1>4 DEF Inv

LEMMA HandleInv ==
    ASSUME Inv, NEW r \in Requests, Handle(r)
    PROVE  Inv'
<1>1. sent[r] \in 0..MaxTries /\ tries[r] \in 0..MaxTries /\ MaxTries \in Nat \ {0}
  BY TriesFacts DEF Inv, GatewayType
<1>2. pc[r] \in {"new", "signing"} => sent[r] < MaxTries
  BY <1>1 DEF Inv, ReadInv
<1>3. ASSUME StartSending(r), pc[r] \in {"new", "signing"} PROVE Inv'
  BY <1>2, <1>3, SendStep, FailInv DEF StartSending
<1>4. CASE Open(r)
  <2>1. CASE pc' = [pc EXCEPT ![r] = "signing"] /\ pc[r] = "new"
             /\ UNCHANGED <<cfg, sent, tries, got, answer, ingress>>
    <3>1. IngressInv'
      BY <2>1, IngressStutter DEF Inv
    <3>2. GatewayType'
      BY <2>1 DEF Inv, GatewayType, Stages
    <3>3. SentInv'
      BY <2>1 DEF Inv, SentInv, Known, ingress
    <3>4. ReadInv' /\ AnswerInv'
      BY <2>1 DEF Inv, GatewayType, ReadInv, AnswerInv, AnswerOk, ingress
    <3> QED BY <3>1, <3>2, <3>3, <3>4 DEF Inv
  <2> QED BY <1>3, <1>4, <2>1, FailInv DEF Open
<1>5. CASE SignerAnswers(r)
  BY <1>3, <1>5, FailInv DEF SignerAnswers
<1>6. CASE MessageAccepted(r)
  <2> DEFINE c == <<r, sent[r]>>
  <2>1. /\ pc[r] = "sending" /\ (c \in scheduled \/ landed[c] # None)
        /\ pc' = [pc EXCEPT ![r] = "reading"] /\ tries' = [tries EXCEPT ![r] = 1]
        /\ got' = [got EXCEPT ![r] = c] /\ UNCHANGED <<cfg, sent, answer, ingress>>
    BY <1>6 DEF MessageAccepted
  <2>2. c \in Copies /\ c[1] = r /\ c[2] = sent[r]
    BY <1>1, <2>1, TriesFacts DEF Inv, ReadInv, Copies
  <2>3. sent[r] <= sent[r] /\ c # None
    BY <1>1, <2>2, NoneFacts
  <2> HIDE DEF c
  <2>4. IngressInv'
    BY <2>1, IngressStutter DEF Inv
  <2>5. GatewayType'
    BY <1>1, <2>1, <2>2 DEF Inv, GatewayType, Stages
  <2>6. SentInv' /\ ReadInv' /\ AnswerInv'
    BY <2>1, <2>2, <2>3 DEF Inv, GatewayType, SentInv, Known, ReadInv, AnswerInv,
       AnswerOk, ingress
  <2> QED BY <2>4, <2>5, <2>6 DEF Inv
<1>7. CASE MessageFails(r)
  <2>1. pc[r] = "sending" /\ ((sent[r] < MaxTries /\ Send(r)) \/ Fail(r))
    BY <1>7 DEF MessageFails
  <2> QED BY <2>1, SendStep, FailInv
<1>8. CASE ResultRead(r)
  <2>1. pc[r] = "reading" /\ 1 \in 0..MaxTries
    BY <1>1, <1>8 DEF ResultRead
  <2>2. PICK result \in Held(got[r]) : Settle(r, Normalize(result, got[r])) \/ Read(r, "computing", 1)
    BY <1>8 DEF ResultRead
  <2>3. CASE Settle(r, Normalize(result, got[r]))
    BY <2>1, <2>2, <2>3, NormalizeOk, SettleInv
  <2>4. CASE Read(r, "computing", 1)
    BY <2>1, <2>4, ReadStep
  <2> QED BY <2>2, <2>3, <2>4
<1>9. CASE ResultFails(r)
  <2>1. /\ pc[r] = "reading"
        /\ \/ tries[r] < MaxTries /\ Read(r, "reading", tries[r] + 1)
           \/ Read(r, "computing", 1)
    BY <1>9 DEF ResultFails
  <2>2. 1 \in 0..MaxTries /\ (tries[r] < MaxTries => tries[r] + 1 \in 0..MaxTries)
    BY <1>1
  <2> QED BY <2>1, <2>2, ReadStep
<1>10. ASSUME ComputeAgain(r), pc[r] \in {"computing", "body"} PROVE Inv'
  <2>1. \/ tries[r] < MaxTries /\ Read(r, "computing", tries[r] + 1)
        \/ Fail(r)
    BY <1>10 DEF ComputeAgain
  <2>2. tries[r] < MaxTries => tries[r] + 1 \in 0..MaxTries
    BY <1>1
  <2> QED BY <1>10, <2>1, <2>2, ReadStep, FailInv
<1>11. CASE ComputeFails(r)
  BY <1>10, <1>11 DEF ComputeFails
<1>12. CASE ComputeHeaders(r)
  BY <1>1, <1>12, ReadStep DEF ComputeHeaders
<1>13. CASE ComputeBody(r)
  <2>1. pc[r] = "body"
    BY <1>13 DEF ComputeBody
  <2>2. CASE ComputeAgain(r)
    BY <1>10, <2>1, <2>2
  <2>3. ASSUME NEW result \in Held(got[r]) \cup {[shape |-> "none", error |-> FALSE]},
               Settle(r, Normalize(result, got[r]))
        PROVE  Inv'
    BY <2>1, <2>3, NormalizeOk, SettleInv
  <2> QED BY <1>13, <2>2, <2>3 DEF ComputeBody
<1> QED BY <1>4, <1>5, <1>6, <1>7, <1>8, <1>9, <1>11, <1>12, <1>13 DEF Handle

LEMMA InvNext == Inv /\ [Next]_vars => Inv'
<1> SUFFICES ASSUME Inv, [Next]_vars PROVE Inv'
  OBVIOUS
<1>1. CASE \E r \in Requests : Handle(r)
  BY <1>1, HandleInv
<1>2. CASE IngressNext /\ UNCHANGED <<cfg, gateway>>
  <2>1. /\ IngressInv'
        /\ \A c \in Copies : landed[c] # None => landed'[c] = landed[c]
        /\ \A c \in Copies : Known(c)' => Known(c)
        /\ \A c \in scheduled : c \in scheduled' \/ landed'[c] # None
    BY <1>2, IngressStep DEF Inv
  <2>2. UNCHANGED <<cfg, pc, sent, tries, got, answer>>
    BY <1>2 DEF gateway
  <2>3. GatewayType'
    BY <2>2 DEF Inv, GatewayType
  <2>4. SentInv'
    BY <2>1, <2>2 DEF Inv, SentInv
  <2>5. ReadInv'
    BY <2>1, <2>2 DEF Inv, ReadInv, GatewayType
  <2>6. AnswerInv'
    <3> SUFFICES ASSUME NEW r \in Requests
                 PROVE  IF pc[r] = "done" THEN answer[r] # None /\ AnswerOk(r, answer[r])'
                                          ELSE answer[r] = None
      BY <2>2 DEF AnswerInv, AnswerOk
    <3>1. pc[r] = "done" => AnswerOk(r, answer[r]) /\ answer[r] # None
      BY DEF Inv, AnswerInv
    <3>2. answer[r] # None => answer[r] \in Answers
      BY DEF Inv, GatewayType
    <3>3. answer[r] # None /\ answer[r].response # None => answer[r].response \in Responses
      BY <3>2 DEF Answers
    <3>4. AnswerOk(r, answer[r]) => AnswerOk(r, answer[r])'
      BY <2>1, <2>2 DEF AnswerOk, Inv, GatewayType
    <3> QED BY <3>1, <3>4 DEF Inv, AnswerInv
  <2> QED BY <2>1, <2>3, <2>4, <2>5, <2>6 DEF Inv
<1>3. CASE UNCHANGED vars
  <2>1. IngressInv'
    BY <1>3, IngressStutter DEF vars, Inv
  <2> QED BY <1>3, <2>1 DEF vars, gateway, ingress, Inv, GatewayType, SentInv, Known,
                            ReadInv, AnswerInv, AnswerOk
<1> QED BY <1>1, <1>2, <1>3 DEF Next

LEMMA InvHolds == Spec => []Inv
BY InvInit, InvNext, PTL DEF Spec

-----------------------------------------------------------------------------
(* The properties *)

\* THEOREM: the type invariant; in particular no request is sent more often
\* than WRITE_API_RETRIES allows (withRetry).
THEOREM TypeCorrect == Spec => []TypeOK
<1>1. Inv => TypeOK
  BY DEF Inv, IngressInv, GatewayType, TypeOK
<1> QED BY <1>1, InvHolds, PTL

\* THEOREM: no two copies of commands with one key have both run, however
\* often the gateway gave up on a copy that was on its way (sendWriteCommand).
THEOREM SentOftenRunsOnce == Spec => []RunsOnce
<1>1. Inv => RunsOnce
  BY RunsOnceHolds DEF Inv
<1> QED BY <1>1, InvHolds, PTL

\* What an answer that hands on a response was read from.
LEMMA AnswerSource ==
    ASSUME Inv, NEW r \in Requests, answer[r] # None, answer[r].response # None
    PROVE  /\ got[r] \in Copies /\ got[r][1] = r /\ got[r][2] <= sent[r]
           /\ landed[got[r]] = answer[r].response
           /\ answer[r].response \in Responses
           /\ answer[r].status = HttpStatus(answer[r].response.code)
           /\ IF answer[r].response.by = None
                THEN answer[r].response.code \in Refusals
                ELSE /\ ledger[KeyOf[r]] = answer[r].response
                     /\ runs[KeyOf[r]] = 1
<1>1. /\ got[r] # None /\ landed[got[r]] = answer[r].response
      /\ answer[r].status = HttpStatus(answer[r].response.code)
  BY DEF Inv, AnswerInv, AnswerOk
<1>2. got[r] \in Copies /\ got[r][1] = r /\ got[r][2] <= sent[r]
  BY <1>1 DEF Inv, GatewayType, ReadInv
<1>3. landed[got[r]] \in Responses /\ CopyKey(got[r]) = KeyOf[r] /\ KeyOf[r] \in Keys
  BY <1>1, <1>2, KeyAssumption DEF Inv, IngressInv, IngressType, CopyKey
<1>4. IF landed[got[r]].by = None THEN landed[got[r]].code \in Refusals
      ELSE ledger[KeyOf[r]] = landed[got[r]]
  BY <1>1, <1>2, <1>3 DEF Inv, IngressInv, ResponseInv
<1>5. ledger[KeyOf[r]] # None => runs[KeyOf[r]] = 1
  BY <1>3 DEF Inv, IngressInv, RegistryInv
<1> QED BY <1>1, <1>2, <1>3, <1>4, <1>5

\* THEOREM: an answer that reports an outcome reports the one in the ledger,
\* of the one run there was (sendWriteCommand, normalizeWriteResult).
THEOREM AnswersAreTheLedgers == Spec => []AnswerIsTheLedgers
<1>1. Inv => AnswerIsTheLedgers
  <2> SUFFICES ASSUME Inv, NEW r \in Requests, answer[r] # None,
                      answer[r].response # None, answer[r].response.by # None
               PROVE  ledger[KeyOf[r]] = answer[r].response /\ runs[KeyOf[r]] = 1
    BY DEF AnswerIsTheLedgers
  <2> QED BY AnswerSource
<1> QED BY <1>1, InvHolds, PTL

\* THEOREM: a client that is told 200 has its command in the ledger, with a
\* response that says OK (normalizeWriteResult).
THEOREM SuccessIsARun == Spec => []SuccessMeansItRan
<1>1. Inv => SuccessMeansItRan
  <2> SUFFICES ASSUME Inv, NEW r \in Requests, answer[r] # None, answer[r].status = 200
               PROVE  ledger[KeyOf[r]] # None /\ ledger[KeyOf[r]].code = "OK"
    BY DEF SuccessMeansItRan
  <2>1. answer[r].response # None
    BY DEF Inv, AnswerInv, AnswerOk
  <2>2. answer[r].response.code = "OK"
    BY <2>1, AnswerSource DEF HttpStatus
  <2>3. answer[r].response.by # None
    BY <2>1, <2>2, AnswerSource DEF Refusals
  <2> QED BY <2>1, <2>2, <2>3, AnswerSource, NoneFacts
<1> QED BY <1>1, InvHolds, PTL

\* THEOREM: a refusal is final for a command that was sent once: there is no
\* copy left that could run (sendWriteCommand, M.route).
THEOREM RefusalsAreFinal == Spec => []RefusalIsFinal
<1>1. Inv => RefusalIsFinal
  <2> SUFFICES ASSUME Inv, NEW r \in Requests, answer[r] # None,
                      answer[r].response # None, answer[r].response.by = None,
                      sent[r] = 1,
                      \A q \in Requests \ {r} : KeyOf[q] = KeyOf[r] => sent[q] = 0,
                      ledger[KeyOf[r]] # None
               PROVE  FALSE
    BY DEF RefusalIsFinal
  <2> DEFINE c == ledger[KeyOf[r]].by
  <2>1. KeyOf[r] \in Keys
    BY KeyAssumption
  <2>2. c \in Copies /\ CopyKey(c) = KeyOf[r] /\ landed[c] = ledger[KeyOf[r]]
    BY <2>1 DEF Inv, IngressInv, RegistryInv
  <2>3. c[2] <= sent[c[1]] /\ c[2] \in 1..MaxCopies /\ c[1] \in Requests
    BY <2>2, CopyFacts DEF Inv, SentInv, Known
  <2>4. sent[c[1]] # 0
    BY <2>3
  <2>5. c[1] = r
    BY <2>2, <2>3, <2>4 DEF CopyKey
  <2>6. c[2] = 1
    BY <2>3, <2>5
  <2>7. got[r] \in Copies /\ got[r][1] = r /\ got[r][2] <= 1
    BY AnswerSource
  <2>8. got[r] = c
    <3>1. got[r] = <<got[r][1], got[r][2]>> /\ got[r][2] \in 1..MaxCopies
      BY <2>7, CopyFacts
    <3>2. got[r][2] = 1
      BY <2>7, <3>1
    <3>3. c = <<c[1], c[2]>>
      BY <2>2, CopyFacts
    <3> QED BY <2>5, <2>6, <2>7, <3>1, <3>2, <3>3
  <2>9. landed[c].by = None
    BY <2>8, AnswerSource
  <2> QED BY <2>2, <2>9, NoneFacts
<1> QED BY <1>1, InvHolds, PTL

-----------------------------------------------------------------------------
(* The ledger *)

Answered == {<<KeyOf[r], runs[KeyOf[r]]>> : r \in Reported}

LEMMA ReportedFacts ==
    ASSUME Inv, NEW r \in Reported
    PROVE  r \in Requests /\ KeyOf[r] \in Keys /\ ledger[KeyOf[r]] # None
<1>1. /\ r \in Requests /\ answer[r] # None /\ answer[r].response # None
      /\ answer[r].response.by # None
  BY DEF Reported
<1>2. ledger[KeyOf[r]] = answer[r].response
  BY <1>1, AnswerSource
<1> QED BY <1>1, <1>2, KeyAssumption

\* A step that leaves the answers alone leaves the ledger alone or is a run.
LEMMA IngressLedger ==
    ASSUME Inv, UNCHANGED answer,
           \/ UNCHANGED <<ledger, runs>>
           \/ \E k \in Keys, x \in Responses :
                 /\ ledger[k] = None /\ ledger' = [ledger EXCEPT ![k] = x]
                 /\ runs' = [runs EXCEPT ![k] = runs[k] + 1]
    PROVE  [Ledger!Next]_Ledger!vars
<1>1. Reported' = Reported
  BY DEF Reported
<1>2. CASE UNCHANGED <<ledger, runs>>
  <2>1. LedgerOutcome' = LedgerOutcome /\ Answered' = Answered
    BY <1>1, <1>2 DEF LedgerOutcome, Answered
  <2> QED BY <1>2, <2>1 DEF Ledger!vars, Answered
<1>3. ASSUME NEW k \in Keys, NEW x \in Responses,
             ledger[k] = None, ledger' = [ledger EXCEPT ![k] = x],
             runs' = [runs EXCEPT ![k] = runs[k] + 1]
      PROVE  [Ledger!Next]_Ledger!vars
  <2>1. /\ ledger \in [Keys -> Responses \cup {None}] /\ runs \in [Keys -> Nat]
        /\ x # None
    BY NoneFacts DEF Inv, IngressInv, IngressType
  <2>2. LedgerOutcome[k] = None
    BY <1>3 DEF LedgerOutcome
  <2>3. LedgerOutcome' = [LedgerOutcome EXCEPT ![k] = runs[k] + 1]
    BY <1>3, <2>1 DEF LedgerOutcome
  <2>4. \A r \in Reported : KeyOf[r] # k /\ runs'[KeyOf[r]] = runs[KeyOf[r]]
    BY <1>3, <2>1, ReportedFacts
  <2>5. Answered' = Answered
    BY <1>1, <2>4 DEF Answered
  <2>6. Ledger!Run(k)
    BY <1>3, <2>2, <2>3, <2>5 DEF Ledger!Run, Answered
  <2> QED BY <2>6 DEF Ledger!Next
<1> QED BY <1>2, <1>3

\* An answer that is given is an answer of the ledger, or says nothing of it.
LEMMA SettleLedger ==
    ASSUME Inv, NEW r \in Requests, pc[r] # "done", NEW a \in Answers,
           AnswerOk(r, a), Settle(r, a)
    PROVE  [Ledger!Next]_Ledger!vars
<1>1. Inv'
  BY SettleInv
<1>2. answer[r] = None /\ answer' = [answer EXCEPT ![r] = a] /\ UNCHANGED <<ledger, runs>>
  BY DEF Settle, ingress, process, Inv, AnswerInv
<1>3. answer \in [Requests -> Answers \cup {None}] /\ a # None
  BY AnswerFacts DEF Inv, GatewayType
<1>4. LedgerOutcome' = LedgerOutcome
  BY <1>2 DEF LedgerOutcome
<1>5. CASE a.response = None \/ a.response.by = None
  <2>1. Reported' = Reported
    BY <1>2, <1>3, <1>5 DEF Reported
  <2>2. Answered' = Answered
    BY <1>2, <2>1 DEF Answered
  <2> QED BY <1>2, <1>4, <2>2 DEF Ledger!vars, Answered
<1>6. CASE a.response # None /\ a.response.by # None
  <2>1. Reported' = Reported \cup {r}
    BY <1>2, <1>3, <1>6 DEF Reported
  <2>2. r \in Reported'
    BY <2>1
  <2> DEFINE k == KeyOf[r]
  <2>3. k \in Keys /\ ledger[k] # None
    <3>1. /\ got[r] # None /\ landed[got[r]] = a.response
      BY <1>6 DEF AnswerOk
    <3>2. got[r] \in Copies /\ got[r][1] = r
      BY <3>1 DEF Inv, GatewayType, ReadInv
    <3>3. ledger[CopyKey(got[r])] = a.response
      BY <1>6, <3>1, <3>2 DEF Inv, IngressInv, ResponseInv
    <3> QED BY <1>6, <3>2, <3>3, KeyAssumption DEF CopyKey
  <2>4. LedgerOutcome[k] = runs[k] /\ runs[k] # None
    <3>1. runs[k] \in Nat
      BY <2>3 DEF Inv, IngressInv, IngressType
    <3> QED BY <2>3, <3>1, NoneFacts DEF LedgerOutcome
  <2>5. Answered' = Answered \cup {<<k, LedgerOutcome[k]>>}
    BY <1>2, <2>1, <2>4 DEF Answered
  <2>6. Ledger!Answer(k)
    BY <1>2, <1>4, <2>4, <2>5 DEF Ledger!Answer, Answered
  <2> QED BY <2>3, <2>6 DEF Ledger!Next
<1> QED BY <1>5, <1>6

\* What a step of a request's handler can do to the ledger and the answers.
LEMMA HandleLedger ==
    ASSUME Inv, NEW r \in Requests, Handle(r)
    PROVE  [Ledger!Next]_Ledger!vars
<1>1. ASSUME UNCHANGED <<answer, ledger, runs>> PROVE [Ledger!Next]_Ledger!vars
  BY <1>1, IngressLedger
<1>2. ASSUME Fail(r), pc[r] # "done" PROVE [Ledger!Next]_Ledger!vars
  <2>1. AnswerOk(r, Answer(502, None))
    BY DEF AnswerOk, Answer
  <2> QED BY <1>2, <2>1, SettleLedger, AnswerFacts DEF Fail
<1>3. ASSUME Send(r) PROVE UNCHANGED <<answer, ledger, runs>>
  BY <1>3 DEF Send, Launch, process
<1>4. ASSUME NEW stage, NEW n, Read(r, stage, n) PROVE UNCHANGED <<answer, ledger, runs>>
  BY <1>4 DEF Read, ingress, process
<1>5. ASSUME NEW result \in Held(got[r]) \cup {[shape |-> "none", error |-> FALSE]},
             pc[r] \in {"reading", "body"}, Settle(r, Normalize(result, got[r]))
      PROVE  [Ledger!Next]_Ledger!vars
  BY <1>5, NormalizeOk, SettleLedger
<1>6. CASE Open(r)
  <2>1. CASE StartSending(r) \/ Fail(r)
    BY <1>1, <1>2, <1>3, <1>6, <2>1 DEF Open, StartSending
  <2>2. CASE UNCHANGED <<answer, ingress>>
    BY <1>1, <2>2 DEF ingress, process
  <2> QED BY <1>6, <2>1, <2>2 DEF Open
<1>7. CASE SignerAnswers(r)
  BY <1>1, <1>2, <1>3, <1>7 DEF SignerAnswers, StartSending
<1>8. CASE MessageAccepted(r)
  BY <1>1, <1>8 DEF MessageAccepted, ingress, process
<1>9. CASE MessageFails(r)
  BY <1>1, <1>2, <1>3, <1>9 DEF MessageFails
<1>10. CASE ResultRead(r)
  BY <1>1, <1>4, <1>5, <1>10 DEF ResultRead
<1>11. CASE ResultFails(r)
  BY <1>1, <1>4, <1>11 DEF ResultFails
<1>12. CASE ComputeFails(r)
  BY <1>1, <1>2, <1>4, <1>12 DEF ComputeFails, ComputeAgain
<1>13. CASE ComputeHeaders(r)
  BY <1>1, <1>4, <1>13 DEF ComputeHeaders
<1>14. CASE ComputeBody(r)
  BY <1>1, <1>2, <1>4, <1>5, <1>14 DEF ComputeBody, ComputeAgain
<1> QED BY <1>6, <1>7, <1>8, <1>9, <1>10, <1>11, <1>12, <1>13, <1>14 DEF Handle

LEMMA LedgerInit == Init => Ledger!Init
<1> SUFFICES ASSUME Init PROVE Ledger!Init
  OBVIOUS
<1>1. LedgerOutcome = [k \in Keys |-> None] /\ runs = [k \in Keys |-> 0]
  BY DEF Init, IngressInit, LedgerOutcome
<1>2. Reported = {}
  BY DEF Init, Reported
<1> QED BY <1>1, <1>2 DEF Ledger!Init

LEMMA LedgerStep == Inv /\ [Next]_vars => [Ledger!Next]_Ledger!vars
<1> SUFFICES ASSUME Inv, [Next]_vars PROVE [Ledger!Next]_Ledger!vars
  OBVIOUS
<1>1. CASE \E r \in Requests : Handle(r)
  BY <1>1, HandleLedger
<1>2. CASE IngressNext /\ UNCHANGED <<cfg, gateway>>
  BY <1>2, IngressStep, IngressLedger DEF gateway, Inv
<1>3. CASE UNCHANGED vars
  BY <1>3, IngressLedger DEF vars, gateway, ingress, process
<1> QED BY <1>1, <1>2, <1>3 DEF Next

\* THEOREM: the checkout API servers and the write process together are the
\* ledger of CommandLedger, without its faults: each command enters it once,
\* and every answer that reports an outcome reports the one entered.
THEOREM ImplementsLedger == Spec => LedgerSpec
BY LedgerInit, LedgerStep, InvHolds, PTL DEF Spec, LedgerSpec, Ledger!Spec

=============================================================================
