----------------------------- MODULE ProxyRules -----------------------------
(***************************************************************************)
(* What becomes of a host: the nested dialers of buildRuleDialer           *)
(* (services/proxy_listener.go) at the server, the dialer that             *)
(* StartTrafficClient makes of the client's settings.                      *)
(***************************************************************************)
EXTENDS Settings

(* xproxy.PerHost: hosts of the list take one dialer, the rest the other. *)
PerHost(other, matched, list) == [h \in Hosts |-> IF h \in list THEN matched[h] ELSE other[h]]

Always(dialer) == [h \in Hosts |-> dialer]

AllowBeforeDeny(rules) ==      \* Slip: the layers are nested the other way round
    LET fallback == IF rules.default = "deny" THEN Always("reject") ELSE Always("tunnel")
        deny == PerHost(fallback, Always("reject"), rules.deny)
    IN  PerHost(deny, Always("tunnel"), rules.allow)

(* deny, then allow, then the default. *)
RuleDialer(rules) ==
    LET fallback == IF rules.default = "deny" THEN Always("reject") ELSE Always("tunnel")
        allow == PerHost(fallback, Always("tunnel"), rules.allow)
    IN  PerHost(allow, Always("reject"), rules.deny)

(* The client's proxy for the hosts of its list, when it may use one. *)
RouteDialer(useProxy, conf) ==
    IF useProxy THEN PerHost(Always("direct"), Always("proxy"), conf.allow)
    ELSE Always("direct")

(* A proxy URL without a type cannot be parsed. *)
ProxyUsable(conf) == conf.type # ""

=============================================================================
