--------------------------- MODULE GatewayRouting ---------------------------
(***************************************************************************)
(* The checkout API server (scripts/http/checkout_api_server.mjs) up to    *)
(* the point where a command leaves it: the configuration it accepts at    *)
(* its start (buildEnv), the checks of a request (createServer,            *)
(* handleCheckout), the command built from it (buildCommand) and the write *)
(* process it is meant for (resolveTargetWritePid).  CheckoutGateway takes *)
(* over from there.                                                        *)
(*                                                                         *)
(* A field is a value or Absent, which stands for everything firstString   *)
(* skips (missing, blank, "null", "undefined"); blanks around a value are  *)
(* left out.  Only payload.siteId is also looked at as it is: there a      *)
(* Placeholder (" ", "null", "undefined") is a value.  The spellings of a  *)
(* field (tenant, Tenant, Tenant-Id) are one field, except where the code  *)
(* knows only some of them: payload.siteId and payload.SiteId (altSite).   *)
(* Actor stands for actor and role, which are treated alike.               *)
(***************************************************************************)
EXTENDS Integers

CONSTANTS Absent,   \* no value
          Placeholder, \* a string that firstString skips
          Pids,     \* process ids of the accepted form
          BadPid,   \* a process id that SAFE_WRITE_PID_RE does not match
          Scopes,   \* site ids and tenants
          Ids,      \* request ids, nonces and actors that clients send
          Fresh,    \* what the gateway fills in: a new id, a nonce, an actor
          Malformed, \* a site map that is no JSON object
          RawEnvs,  \* environments the server is started with
          Inputs    \* HTTP requests

ASSUME ValueAssumption ==
    /\ Absent \notin Pids \cup Scopes \cup Ids
                     \cup {BadPid, Fresh, Malformed, Placeholder}
    /\ Placeholder \notin Scopes
    /\ BadPid \notin Pids /\ Fresh \notin Ids

VARIABLES raw,  \* the environment variables until they are read, then Absent
          conf, \* what buildEnv made of them: Absent before the start
          req,  \* the request being handled, or Absent
          out   \* what became of it, or Absent

routingVars == <<raw, conf, req, out>>

\* firstString of two values; more of them by nesting.
First(a, b) == IF a # Absent THEN a ELSE b

\* clean.
Clean(site) == IF site = Placeholder THEN Absent ELSE site

Actions == {"CreateOrder", "CreatePaymentIntent", "checkout.create-order",
            "checkout.create-payment-intent", "other"}

\* A payload: what the gateway reads of it; pid says whether it holds a field
\* writeProcessId.
Payload == [siteId : Scopes \cup {Absent, Placeholder},
            altSite : Scopes \cup {Absent}, tenant : Scopes \cup {Absent},
            pid : BOOLEAN]

EmptyPayload ==
    [siteId |-> Absent, altSite |-> Absent, tenant |-> Absent, pid |-> FALSE]

\* An HTTP request: the line, the credentials, the headers, the body.
Request ==
    [method : {"GET", "POST", "OPTIONS"},
     path : {"/healthz", "/api/checkout/order", "/api/checkout/payment-intent",
             "other", "invalid"},
     auth : BOOLEAN,
     json : {"object", "too_large", "invalid"},
     headerPid : Pids \cup {BadPid, Absent}, headerId : Ids \cup {Absent},
     signed : BOOLEAN, action : Actions \cup {Absent},
     bodyPid : Pids \cup {BadPid, Absent}, bodyId : Ids \cup {Absent},
     nonce : Ids \cup {Absent}, actor : Ids \cup {Absent},
     timestamp : {"epoch", "iso", "bad", Absent},
     tenant : Scopes \cup {Absent}, siteId : Scopes \cup {Absent},
     payload : Payload \cup {Absent}]

\* A configured site map: what each of its keys is mapped to.
SiteMap == UNION {[K -> Pids] : K \in SUBSET Scopes}

Settings == [pid : Pids \cup {Absent}, token : BOOLEAN, allow : BOOLEAN,
             require : BOOLEAN, map : SiteMap \cup {Absent},
             fallback : Scopes \cup {Absent}, productionLike : BOOLEAN,
             unsafe : BOOLEAN]

RawEnv == [pid : Pids \cup {BadPid, Absent}, token : BOOLEAN, allow : BOOLEAN,
           require : BOOLEAN,
           map : (UNION {[K -> Pids \cup {BadPid, Absent}] : K \in SUBSET Scopes})
                    \cup {Absent, Malformed},
           fallback : Scopes \cup {Absent}, explicit : {"true", "false", Absent},
           mode : {"production", "development", Absent}, unsafe : BOOLEAN]

ASSUME EnvAssumption == RawEnvs \subseteq RawEnv /\ Absent \notin Settings
ASSUME InputAssumption == Inputs \subseteq Request

------------------------------------------------------------------------------
\* The start.

\* WRITE_API_PRODUCTION_LIKE decides where it is given, the mode where not.
IsProductionLike(env) ==
    IF env.explicit # Absent THEN env.explicit = "true" ELSE env.mode = "production"

\* Mistake: the entries are not looked at.
ParsesUnread(map) == map # Malformed

\* parseWritePidSiteMap: every key must be mapped to a well-formed process id.
ParsesAsSiteMap(map) ==
    map # Absent => map # Malformed /\ \A k \in DOMAIN map : map[k] \in Pids

\* Mistake: only the explicit flag makes a server production-like.
TokenNotAsked(env) == env.explicit = "true" => env.token \/ env.unsafe

\* A production-like server has a token, or says that it has none on purpose.
TokenOk(env) == IsProductionLike(env) => env.token \/ env.unsafe

\* Overrides need a token, and what only makes sense with overrides needs them.
OverrideOk(env) ==
    /\ env.require => env.allow
    /\ env.allow => env.token
    /\ env.map # Absent => env.allow /\ env.token

\* The environments buildEnv does not throw on.
BuildsEnv(env) ==
    /\ ParsesAsSiteMap(env.map) /\ env.pid # BadPid
    /\ TokenOk(env) /\ OverrideOk(env)

BuildEnv(env) ==
    [pid |-> env.pid, token |-> env.token, allow |-> env.allow,
     require |-> env.require, map |-> env.map, fallback |-> env.fallback,
     productionLike |-> IsProductionLike(env), unsafe |-> env.unsafe]

------------------------------------------------------------------------------
\* Reading a request.

\* Mistake: a token is asked for in production only.
RequireAuthInProduction(r, c) == c.token /\ c.productionLike => r.auth

RequireAuth(r, c) == c.token => r.auth

\* bodyPayloadObject: body.payload when it is an object, otherwise nothing.
BodyPayload(r) == IF r.payload # Absent THEN r.payload ELSE EmptyPayload

\* resolveSiteScope: the site at the top and the one in the payload p may not differ.
SiteScopeOk(r, p) ==
    r.siteId # Absent /\ Clean(p.siteId) # Absent => r.siteId = p.siteId
SiteScope(r, p) == First(r.siteId, Clean(p.siteId))

\* requestedWritePid: the header before the body.
RequestedPid(r) == First(r.headerPid, r.bodyPid)

\* Mistake: the site at the top, which is not signed, routes a signed command too.
RouteKeyUnsigned(r) ==
    LET p == BodyPayload(r)
    IN  First(SiteScope(r, p), First(r.tenant, p.tenant))

\* The key the site map is asked for: signed fields only in a signed request.
RouteKey(r) ==
    LET p == BodyPayload(r)
    IN  IF r.signed THEN First(Clean(p.siteId), First(p.altSite, r.tenant))
                    ELSE First(SiteScope(r, p), First(r.tenant, p.tenant))

Rejection(status, error) == [kind |-> "refused", status |-> status, error |-> error]

\* A process to send to; own says that the request named it.
Target(pid, own) == [kind |-> "target", pid |-> pid, own |-> own]

\* resolveTargetWritePid.
MappedPid(r, c) ==
    LET key == RouteKey(r)
    IN  IF ~SiteScopeOk(r, BodyPayload(r))
          THEN Rejection(400, "write_pid_route_key_mismatch")
        ELSE IF key = Absent THEN Rejection(400, "write_pid_route_key_missing")
        ELSE IF key \notin DOMAIN c.map
          THEN Rejection(403, "write_pid_route_not_allowed")
        ELSE IF c.map[key] # RequestedPid(r)
          THEN Rejection(403, "write_pid_route_mismatch")
        ELSE Target(RequestedPid(r), TRUE)

ResolveTarget(r, c) ==
    IF RequestedPid(r) = Absent /\ c.allow /\ c.require
      THEN Rejection(400, "missing_write_process_id_override")
    ELSE IF RequestedPid(r) = Absent \/ ~c.allow THEN Target(c.pid, FALSE)
    ELSE IF ~c.token THEN Rejection(503, "write_pid_override_not_configured")
    ELSE IF ~RequireAuth(r, c) THEN Rejection(401, "unauthorized")
    ELSE IF RequestedPid(r) = BadPid
      THEN Rejection(400, "invalid_write_process_id_override")
    ELSE IF c.map # Absent THEN MappedPid(r, c)
    ELSE Target(RequestedPid(r), TRUE)

------------------------------------------------------------------------------
\* Building the command.

\* inferExpectedAction.
ExpectedAction(path) ==
    CASE path = "/api/checkout/order" -> "CreateOrder"
      [] path = "/api/checkout/payment-intent" -> "CreatePaymentIntent"
      [] OTHER -> Absent

\* validateRouteAction, and the stricter comparison of a signed request.
RouteActionOk(r, expected) ==
    \/ ~r.signed /\ r.action = Absent
    \/ r.action = expected
    \/ /\ ~r.signed
       /\ \/ r.action = "checkout.create-order" /\ expected = "CreateOrder"
          \/ r.action = "checkout.create-payment-intent" /\ expected = "CreatePaymentIntent"

\* buildPayload (unsigned): the payload, or the body without the envelope's
\* fields; never with the field writeProcessId.
BuildPayload(r) == [BodyPayload(r) EXCEPT !.pid = FALSE]

\* The payload of the command before the site is filled in.
CommandPayload(r) == IF r.signed THEN BodyPayload(r) ELSE BuildPayload(r)

\* normalizeCommandTimestamp: "now" when none is given, Absent when malformed.
NormalizeTimestamp(t) ==
    CASE t = Absent -> "now"
      [] t \in {"epoch", "iso"} -> "epoch"
      [] OTHER -> Absent

CommandTimestamp(r) == IF r.signed THEN r.timestamp ELSE NormalizeTimestamp(r.timestamp)

\* Mistake: the header first, signed or not.
CommandRequestIdByHeader(r) == First(r.headerId, First(r.bodyId, Fresh))

\* commandRequestId: the signed id before the header, the header before an unsigned one.
CommandRequestId(r) ==
    IF r.signed THEN First(r.bodyId, First(r.headerId, Fresh))
                ELSE First(r.headerId, First(r.bodyId, Fresh))

\* commandNonce: only an unsigned command is given one.
CommandNonce(r) == IF r.signed THEN r.nonce ELSE First(r.nonce, Fresh)

CommandTenant(r, p, c) ==
    IF r.signed THEN r.tenant
    ELSE First(r.tenant, First(p.tenant, First(Clean(p.siteId), c.fallback)))

Command(r, p, c, expected) ==
    [action |-> expected, tenant |-> CommandTenant(r, p, c),
     requestId |-> CommandRequestId(r), nonce |-> CommandNonce(r),
     actor |-> IF r.signed THEN r.actor ELSE First(r.actor, Fresh),
     timestamp |-> CommandTimestamp(r), payload |-> p]

\* buildCommand.  The site is filled in where payload.siteId is falsy: a
\* Placeholder stays.
BuildCommand(r, c, expected) ==
    LET built == CommandPayload(r)
        site == SiteScope(r, built)
        p == IF r.signed \/ built.siteId # Absent THEN built
                                                ELSE [built EXCEPT !.siteId = site]
    IN  IF ~SiteScopeOk(r, built) THEN Rejection(400, "site_id_mismatch")
        ELSE IF ~RouteActionOk(r, expected) THEN Rejection(400, "action_route_mismatch")
        ELSE IF CommandTenant(r, p, c) = Absent THEN Rejection(400, "tenant_required")
        ELSE IF CommandTimestamp(r) = Absent THEN Rejection(400, "invalid_timestamp")
        ELSE [kind |-> "command", command |-> Command(r, p, c, expected)]

------------------------------------------------------------------------------
\* Handling a request.

\* handleCheckout takes the name of the process out of a command whose body
\* held it.
WithoutPid(command) == [command EXCEPT !.payload.pid = FALSE]

\* handleCheckout, up to the signing of the command.
HandleCheckout(r, c) ==
    LET built == BuildCommand(r, c, ExpectedAction(r.path))
        target == ResolveTarget(r, c)
        byBody == target.own /\ r.headerPid = Absent
    IN  IF r.json = "too_large" THEN Rejection(413, "payload_too_large")
        ELSE IF r.json = "invalid" THEN Rejection(400, "invalid_json")
        ELSE IF built.kind = "refused" THEN built
        ELSE IF target.kind = "refused" THEN target
        ELSE [kind |-> "sent", pid |-> target.pid, own |-> target.own,
              command |-> IF byBody THEN WithoutPid(built.command) ELSE built.command]

\* createServer: the order of its checks.
Dispatch(r, c) ==
    IF r.path = "invalid" THEN Rejection(400, "invalid_request_url")
    ELSE IF r.method = "OPTIONS" THEN Rejection(204, Absent)
    ELSE IF r.path = "/healthz" /\ r.method = "GET" THEN Rejection(200, Absent)
    ELSE IF ~RequireAuth(r, c) THEN Rejection(401, "unauthorized")
    ELSE IF r.method # "POST" THEN Rejection(405, "method_not_allowed")
    ELSE IF ExpectedAction(r.path) = Absent THEN Rejection(404, "not_found")
    ELSE HandleCheckout(r, c)

------------------------------------------------------------------------------
RoutingInit == /\ raw \in RawEnvs
               /\ conf = Absent /\ req = Absent /\ out = Absent

\* startServer: a process that buildEnv throws in exits.
Start ==
    /\ conf = Absent
    /\ BuildsEnv(raw)
    /\ conf' = BuildEnv(raw)
    /\ raw' = Absent
    /\ UNCHANGED <<req, out>>

\* A request comes in and is refused, or its command goes to be signed and sent.
Serve ==
    /\ conf # Absent /\ req = Absent
    /\ \E r \in Inputs : req' = r /\ out' = Dispatch(r, conf)
    /\ UNCHANGED <<raw, conf>>

\* The server keeps nothing of a request.
Finish ==
    /\ req # Absent
    /\ req' = Absent /\ out' = Absent
    /\ UNCHANGED <<raw, conf>>

RoutingNext == Start \/ Serve \/ Finish

RoutingSpec == RoutingInit /\ [][RoutingNext]_routingVars

------------------------------------------------------------------------------
\* Properties.

\* What a command says of the site or tenant it is for.
Scope(r, command) ==
    First(Clean(command.payload.siteId),
          First(IF r.signed THEN command.payload.altSite ELSE Absent, command.tenant))

Sent == out # Absent /\ out.kind = "sent"

SentCommand == [action : Actions, tenant : Scopes, requestId : Ids \cup {Fresh},
                nonce : Ids \cup {Fresh, Absent}, actor : Ids \cup {Fresh, Absent},
                timestamp : {"now", "epoch", "iso", "bad"}, payload : Payload]

\* The type invariant.
RoutingType ==
    /\ raw \in RawEnvs \cup {Absent}
    /\ conf \in Settings \cup {Absent}
    /\ req \in Request \cup {Absent}
    /\ \/ out = Absent
       \/ out.kind = "refused" /\ out.status \in {200, 204} \cup 400..503
       \/ /\ out.kind = "sent"
          /\ out.pid \in Pids \cup {Absent}
          /\ out.own \in BOOLEAN
          /\ out.command \in SentCommand

MapGives(scope) == scope \in DOMAIN conf.map /\ conf.map[scope] = out.pid

\* The key the map is asked for and the command are computed apart, from
\* different fields in different orders (resolveTargetWritePid, buildCommand):
\* a command that goes to a process its client named is for a site or tenant
\* that the map gives to that process.  In one case it is not: a Placeholder
\* in the payload of an unsigned request keeps the site at the top out of the
\* command; the map is asked for that site, and the command is for its tenant.
MapDecides ==
    Sent /\ out.own /\ conf.map # Absent =>
        \/ MapGives(Scope(req, out.command))
        \/ /\ ~req.signed /\ out.command.payload.siteId = Placeholder
           /\ MapGives(req.siteId)

\* Only a request with the token reaches another process than the configured
\* one, whatever buildEnv was given (createServer, resolveTargetWritePid).
ForeignPidIsAuthenticated ==
    Sent /\ out.pid # conf.pid => conf.token /\ req.auth /\ out.pid \in Pids

\* Where a named process is required, none is filled in: resolveTargetWritePid
\* looks at the requirement only where overrides are allowed, and relies on
\* buildEnv for the rest.
RequiredPidIsNamed == Sent /\ conf.require => out.own

\* A production-like server that was not explicitly opened sends nothing for a
\* client without the token.
ProductionIsAuthenticated ==
    Sent /\ conf.productionLike /\ ~conf.unsafe => req.auth

\* Defaults, aliases and headers of the gateway do not touch what a client has
\* signed: a signed command carries the fields of the body.  Two do not: the
\* request id when the client signed none, and the field writeProcessId in the
\* payload, which is taken out when the body named the process.
SignedCommandIsTheClients ==
    Sent /\ req.signed =>
        LET command == out.command
        IN  /\ command.action = req.action /\ command.tenant = req.tenant
            /\ command.nonce = req.nonce /\ command.actor = req.actor
            /\ command.timestamp = req.timestamp
            /\ req.bodyId # Absent => command.requestId = req.bodyId
            /\ \/ command.payload = BodyPayload(req)
               \/ /\ out.own /\ req.headerPid = Absent
                  /\ command.payload = [BodyPayload(req) EXCEPT !.pid = FALSE]

=============================================================================
