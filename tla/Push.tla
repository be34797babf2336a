-------------------------------- MODULE Push --------------------------------
(***************************************************************************)
(* The options a gateway pushes: how a PUSH_REPLY is parsed, which replies *)
(* are refused, and which networks are routed into the tunnel for one.     *)
(*                                                                         *)
(* A reply is a sequence of tokens.  Addresses have Width bits (32 in the  *)
(* program); masks keep their bit arithmetic.                              *)
(***************************************************************************)
EXTENDS Integers, Sequences, FiniteSets, SequencesExt

CONSTANTS
    Width,      \* bits of an address
    None

\* Powers of two, as a function that proofs can compute with.
Pow2[n \in Nat] == IF n = 0 THEN 1 ELSE 2 * Pow2[n - 1]

Addr == 0 .. Pow2[Width] - 1

\* The sub-flags of redirect-gateway; others are ignored.
RedirectFlags == {"def1", "local", "autolocal", "bypass-dhcp", "bypass-dns", "block-local", "ipv6", "!ipv4"}

\* None is the absence of a value, of a prefix and of a redirection (the two
\* values the policy names are strings, which the prover does not know).
ASSUME PushAssumption ==
    /\ Width \in Nat \ {0}
    /\ None \notin STRING \union {"weak", "active"} /\ None \notin Nat
    /\ \A flags \in SUBSET RedirectFlags : flags # None

Families == {"V4", "V6"}
Net == [family : Families, dest : Addr, prefix : 0 .. Width]

\* The gateway a route names for itself: none, a keyword (net_gateway) or an
\* address.
RouteGateways == {"none", "keyword", "address"}

\* A token: the option, its value ("bad" does not parse), the destination,
\* mask (or prefix length) and gateway of a route, the flags of
\* redirect-gateway.
PushToken == [opt : STRING, val : STRING, dest : Addr, mask : Nat, gateway : RouteGateways,
              flags : SUBSET RedirectFlags]
Token(opt, val) == [opt |-> opt, val |-> val, dest |-> 0, mask |-> 0, gateway |-> "none", flags |-> {}]
RouteToken(opt, dest, mask) == [Token(opt, "ok") EXCEPT !.dest = dest, !.mask = mask]
RedirectToken(opt, flags) == [Token(opt, "ok") EXCEPT !.flags = flags]

-----------------------------------------------------------------------------
(* Masks *)

Bit(m, i) == (m \div Pow2[i]) % 2
Ones(m) == Cardinality({i \in 0 .. Width - 1 : Bit(m, i) = 1})
LeadingOnes(m) == Max({0} \union {k \in 1 .. Width : \A i \in Width - k .. Width - 1 : Bit(m, i) = 1})

\* None for a mask with a hole.
Ipv4MaskToPrefix(m) == IF Ones(m) # LeadingOnes(m) THEN None ELSE LeadingOnes(m)

Ipv4PrefixToMask(prefix) ==
    IF prefix = 0 THEN 0
    ELSE ((Pow2[Width] - 1) * Pow2[Width - Min({prefix, Width})]) % Pow2[Width]

-----------------------------------------------------------------------------
(* Parsing *)

PushOptions == [dns |-> <<>>, search |-> <<>>, domain |-> None, routes |-> <<>>,
                routeGateway |-> None, ifconfig |-> None, ifconfigIpv6 |-> None,
                cipher |-> None, compress |-> None, redirect |-> None,
                authToken |-> None, authTokenUser |-> None, extras |-> <<>>]

\* Sub-flags of several redirect-gateway directives are joined.
MergeRedirect(existing, flags) == IF existing = None THEN flags ELSE existing \union flags

\* Directives that are recorded for display only.
Diagnostic == {"NTP", "WINS", "tun-mtu", "ping-restart", "ping-exit", "ping", "peer-id", "topology"}

\* The second half of parse_token: the session's cipher, compression,
\* redirection and token; what is not recognised is kept in extras.
ParseSession(opts, t) ==
    CASE t.opt = "cipher" -> [opts EXCEPT !.cipher = t.val]
      [] t.opt = "compress" -> [opts EXCEPT !.compress = t.val]
      [] t.opt = "redirect-gateway" -> [opts EXCEPT !.redirect = MergeRedirect(@, t.flags)]
      [] t.opt = "redirect-gateway-ipv6" ->
            [opts EXCEPT !.redirect = MergeRedirect(@, t.flags \union {"ipv6"})]
      [] t.opt = "auth-token" -> [opts EXCEPT !.authToken = t.val]
      [] t.opt = "auth-token-user" -> [opts EXCEPT !.authTokenUser = t.val]
      [] OTHER -> [opts EXCEPT !.extras = Append(@, t.opt)]

\* Directives whose value is parsed; one that does not parse changes nothing.
Checked == {"DNS", "route", "route-ipv6", "route-gateway", "ifconfig", "ifconfig-ipv6"}

\* The route's own gateway is recorded if it parses as an address.
AddRoute(opts, family, t, prefix) ==
    IF prefix = None THEN opts
    ELSE [opts EXCEPT !.routes = Append(@, [family |-> family, dest |-> t.dest, prefix |-> prefix,
                                            gateway |-> IF t.gateway = "address" THEN t.gateway ELSE "none"])]

\* parse_token: lists grow, the first route-gateway wins, for all else the
\* last.
ParseToken(opts, t) ==
    IF t.opt \in Diagnostic \/ (t.opt \in Checked /\ t.val = "bad") THEN opts
    ELSE CASE t.opt = "DNS" -> [opts EXCEPT !.dns = Append(@, t.val)]
           [] t.opt = "DOMAIN-SEARCH" -> [opts EXCEPT !.search = Append(@, t.val)]
           [] t.opt = "DOMAIN" -> [opts EXCEPT !.domain = t.val]
           [] t.opt = "route" -> AddRoute(opts, "V4", t, Ipv4MaskToPrefix(t.mask))
           [] t.opt = "route-ipv6" -> AddRoute(opts, "V6", t, t.mask)
           [] t.opt = "route-gateway" ->
                 IF opts.routeGateway # None THEN opts ELSE [opts EXCEPT !.routeGateway = t.val]
           [] t.opt = "ifconfig" -> [opts EXCEPT !.ifconfig = t.val]
           [] t.opt = "ifconfig-ipv6" -> [opts EXCEPT !.ifconfigIpv6 = t.val]
           [] OTHER -> ParseSession(opts, t)

\* The options after each number of tokens, and after them all.
ParseSteps(reply) ==
    LET opts[i \in 0 .. Len(reply)] ==
            IF i = 0 THEN PushOptions ELSE ParseToken(opts[i - 1], reply[i])
    IN opts

Parse(reply) == ParseSteps(reply)[Len(reply)]

-----------------------------------------------------------------------------
(* Policy and routes *)

CipherAcceptable(cipher) == cipher # "weak"
CompressionAcceptable(compress) == compress # "active"
PushReplyAcceptable(opts) == CipherAcceptable(opts.cipher) /\ CompressionAcceptable(opts.compress)

\* A family whose addresses a bare redirect-gateway leaves alone.
IsFullTunnel(flags) == flags # {}
CoversIpv4(flags) == "!ipv4" \notin flags /\ IsFullTunnel(flags)
CoversIpv6(flags) == "ipv6" \in flags

\* The two halves of an address space.
Halves(family) == {[family |-> family, dest |-> d, prefix |-> 1] : d \in {0, Pow2[Width - 1]}}

RedirectGatewayRoutes(flags) ==
    (IF CoversIpv4(flags) THEN Halves("V4") ELSE {}) \union
    (IF CoversIpv6(flags) THEN Halves("V6") ELSE {})

\* Plausible slip: a prefix that does not fit is passed on.
RouteForApplyAnyPrefix(r, opts) == r.family = "V6" => opts.ifconfigIpv6 # None

\* A route without an address of its family, or with a prefix that does not
\* fit, is left out.
RouteForApply(r, opts) ==
    /\ r.family = "V6" => opts.ifconfigIpv6 # None
    /\ r.prefix <= Width

\* pushed_to_ipnet: the network alone; the route's own gateway goes nowhere.
NetOf(r) == [family |-> r.family, dest |-> r.dest, prefix |-> r.prefix]

Desired(opts) ==
    {NetOf(r) : r \in {x \in {opts.routes[i] : i \in DOMAIN opts.routes} : RouteForApply(x, opts)}} \union
    (IF opts.redirect = None THEN {} ELSE RedirectGatewayRoutes(opts.redirect))

=============================================================================
