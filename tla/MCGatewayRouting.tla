-------------------------- MODULE MCGatewayRouting --------------------------
(* Instance of GatewayRouting for TLC.  FrontDoor varies what createServer    *)
(* looks at, Routes what decides the target process, Identities what decides *)
(* who the command is from; the other fields are those of Plain.             *)
EXTENDS GatewayRouting, TLC

CONSTANTS p0, p1, s1, s2, i1, i2

MCPids == {p0, p1}
MCScopes == {s1, s2}
MCIds == {i1, i2}

MCRawEnvs ==
    [pid : {p0, BadPid, Absent}, token : BOOLEAN, allow : BOOLEAN, require : BOOLEAN,
     map : {Absent, Malformed, s1 :> p1, s1 :> p1 @@ s2 :> p0, s1 :> Absent, s1 :> BadPid},
     fallback : {Absent, s2}, explicit : {"true", "false", Absent},
     mode : {"production", "development", Absent}, unsafe : BOOLEAN]

Plain == [method |-> "POST", path |-> "/api/checkout/order", auth |-> TRUE,
          json |-> "object", headerPid |-> Absent, headerId |-> Absent, signed |-> FALSE,
          action |-> "CreateOrder", bodyPid |-> Absent, bodyId |-> i1, nonce |-> i1,
          actor |-> Absent, timestamp |-> "iso", tenant |-> s1, siteId |-> Absent,
          payload |-> Absent]

FrontDoor ==
    {[Plain EXCEPT !.method = m, !.path = p, !.auth = a, !.json = j] :
        m \in {"GET", "POST", "OPTIONS"},
        p \in {"/healthz", "/api/checkout/order", "/api/checkout/payment-intent",
               "other", "invalid"},
        a \in BOOLEAN, j \in {"object", "too_large", "invalid"}}

Routes ==
    {[Plain EXCEPT !.headerPid = h, !.bodyPid = b, !.signed = s, !.tenant = t,
                   !.siteId = u, !.payload = p, !.auth = a] :
        h \in {Absent, p1, BadPid}, b \in {Absent, p0, p1}, s \in BOOLEAN,
        t \in {Absent, s1}, u \in {Absent, s1, s2}, a \in BOOLEAN,
        p \in {Absent} \cup [siteId : {Absent, Placeholder, s1, s2}, altSite : {Absent, s2},
                           tenant : {Absent, s2}, pid : {FALSE}]}

Identities ==
    {[Plain EXCEPT !.headerId = h, !.bodyId = b, !.signed = s, !.action = a,
                   !.timestamp = t, !.nonce = n, !.actor = c, !.bodyPid = p,
                   !.payload = y] :
        h \in {Absent, i2}, b \in {Absent, i1}, s \in BOOLEAN,
        a \in {Absent, "CreateOrder", "checkout.create-order", "other"},
        t \in {"epoch", "iso", "bad", Absent}, n \in {Absent, i1}, c \in {Absent, i1},
        p \in {Absent, p1}, y \in {Absent, [EmptyPayload EXCEPT !.pid = TRUE]}}

MCInputs == FrontDoor \cup Routes \cup Identities

=============================================================================
