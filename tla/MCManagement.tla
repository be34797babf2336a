---------------------------- MODULE MCManagement ----------------------------
(* Instance of Management for TLC: first replies of up to three tokens. *)
EXTENDS Management

Routing == {RouteToken("route", 2, 6), RouteToken("route", 4, 5), RouteToken("route-ipv6", 2, 2),
            RouteToken("route-ipv6", 2, 4), Token("ifconfig-ipv6", "ip6"),
            RedirectToken("redirect-gateway", {"def1"}), RedirectToken("redirect-gateway", {"!ipv4"})}
Excluded(via) == [RouteToken("route", 2, 6) EXCEPT !.gateway = via]
Other == {Excluded("keyword"), Excluded("address"), RedirectToken("redirect-gateway", {}), 
          RedirectToken("redirect-gateway-ipv6", {}),
          Token("cipher", "weak"), Token("cipher", "strong"), Token("compress", "active"),
          Token("auth-token", "t1"), Token("auth-token-user", "u"), Token("route-gateway", "bad"),
          Token("DNS", "d"), Token("peer-id", "1"), Token("setenv", "x")}
Gateway == Token("route-gateway", "gw")

MCReplies ==
    {<<>>, <<Gateway>>} \union {<<s, Gateway>> : s \in Other} \union
    {<<s, Gateway, t>> : s, t \in Routing}
MCLater ==
    {<<>>, <<Gateway>>, <<Gateway, Token("route-gateway", "other"), RouteToken("route", 6, 7)>>,
     <<Token("auth-token", "t2")>>, <<Token("cipher", "weak"), Gateway>>}
MCIncludes == {[dest |-> 0, prefix |-> 2]}

=============================================================================
