----------------------------- MODULE Management -----------------------------
(***************************************************************************)
(* openvpn's management channel, from the first command to the routes:     *)
(* the hold and the subscriptions, the lines openvpn writes, how they are  *)
(* read, and what the event loop does with them.                           *)
(*                                                                         *)
(* A line may arrive in two pieces.  When another arm of the event loop    *)
(* wins while read_event waits for the second one, the first is lost.      *)
(* Outcomes of an attempt are in module Connect, the kernel's side of a    *)
(* route in module Routes: here is what is asked for.                      *)
(***************************************************************************)
EXTENDS Push

CONSTANTS
    Replies,        \* first push replies of the gateway
    Later,          \* push replies of a restart or renegotiation
    Includes,       \* networks of the profile's include routes, as [dest, prefix]
    Tokens,         \* auth-tokens of the gateway
    InitialUser,    \* the user name of the profile's authentication type, or None
    MaxLines,       \* model bound: lines openvpn writes
    MaxWire         \* model bound: pieces on the way when it writes another line

VARIABLES
    phase,          \* openvpn: "hold", "handshake", "pushed", "up", "gone"
    sent,           \* number of startup commands sent
    wire,           \* pieces on the way
    buf,            \* pieces read_event has consumed
    pushOpts,       \* the options in force
    haveConnected,
    routed,         \* networks the route manager was asked to keep
    self,           \* networks openvpn routes itself
    creds,          \* RenegCreds: token and user
    answer,         \* how the last prompt was answered
    over,           \* the event loop has ended
    lines,          \* history: lines written
    seen,           \* history: number of the last line that became an event
    ordered,        \* history: every event came after the one before it
    lastPushed,     \* history: the last reply openvpn received
    issued,         \* history: the last token openvpn told of
    source,         \* history: "push", then "notified" of a token, then "overtaken" by a reply
    cut             \* history: a line was lost

vars == <<phase, sent, wire, buf, pushOpts, haveConnected, routed, self, creds, answer, over,
          lines, seen, ordered, lastPushed, issued, source, cut>>
channel == <<wire, buf, seen, ordered, cut>>
loop == <<pushOpts, haveConnected, routed, creds, answer, over>>

-----------------------------------------------------------------------------
(* The configuration *)

\* The directives build() writes that matter here.
Directives == {"management-hold", "route-noexec", "auth-nocache", "auth-user-pass"}

\* write_profile_routes: a route line for each network, its prefix as a mask.
ConfigRoutes == {[dest |-> n.dest, mask |-> Ipv4PrefixToMask(n.prefix)] : n \in Includes}

\* The commands of the bring-up, in order.
Startup == <<"state on", "log on", "bytecount", "hold off", "hold release">>

Subscribed(cmd) == \E i \in 1 .. sent : Startup[i] = cmd

-----------------------------------------------------------------------------

Line(kind) == [kind |-> kind, token |-> None, reply |-> <<>>]
NoCreds == [token |-> None, user |-> None]

TypeOK ==
    /\ phase \in {"hold", "handshake", "pushed", "up", "gone"}
    /\ sent \in 0 .. Len(Startup)
    /\ haveConnected \in BOOLEAN /\ over \in BOOLEAN /\ ordered \in BOOLEAN /\ cut \in BOOLEAN
    /\ routed \subseteq Net /\ self \subseteq Net
    /\ creds.token \in Tokens \union {None}
    /\ lines \in 0 .. MaxLines /\ seen \in 0 .. MaxLines

Init ==
    /\ phase = IF "management-hold" \in Directives THEN "hold" ELSE "handshake"
    /\ sent = 0
    /\ wire = <<>> /\ buf = <<>>
    /\ pushOpts = PushOptions
    /\ haveConnected = FALSE
    /\ routed = {} /\ self = {}
    /\ creds = NoCreds
    /\ answer = NoCreds
    /\ over = FALSE
    /\ lines = 0 /\ seen = 0 /\ ordered = TRUE
    /\ lastPushed = None /\ issued = None /\ source = "push" /\ cut = FALSE

-----------------------------------------------------------------------------
(* openvpn *)

\* The newest token, once openvpn has written the line.
TokenOf(line, before) ==
    CASE line.kind = "token" -> line.token
      [] line.kind = "push" ->
            LET given == {i \in DOMAIN line.reply : line.reply[i].opt = "auth-token"}
            IN IF given = {} THEN before ELSE line.reply[Max(given)].val
      [] OTHER -> before

Kinds == {"hold", "push", "connected", "state", "token", "prompt", "otherPrompt", "log", "garbage",
          "verifyFailed", "fatal"}

\* None is no token, reply or line; the gateway's auth-tokens are tokens.
ASSUME ManagementAssumption ==
    /\ MaxLines \in Nat /\ MaxWire \in Nat
    /\ None \notin Tokens /\ None \notin Replies \union Later
    /\ None \notin [kind : Kinds, token : Tokens \union {None}, reply : Replies \union Later \union {<<>>}]
    /\ \A reply \in Replies \union Later :
          /\ reply \in Seq(PushToken)
          /\ \A i \in DOMAIN reply : reply[i].opt = "auth-token" => reply[i].val \in Tokens

\* openvpn writes a line, if the client subscribed to its kind, in one piece
\* or in two.
Writes(line) ==
    /\ lines < MaxLines /\ Len(wire) <= MaxWire
    /\ lines' = lines + 1
    /\ issued' = TokenOf(line, issued)
    /\ source' = CASE line.kind = "token" /\ source = "push" -> "notified"
                   [] line.kind = "push" /\ source = "notified" /\ issued' # issued -> "overtaken"
                   [] OTHER -> source
    /\ LET piece(part) == [part |-> part, id |-> lines + 1, issued |-> issued, line |-> line]
           wanted == CASE line.kind \in {"state", "connected"} -> Subscribed("state on")
                       [] line.kind \in {"push", "log"} -> Subscribed("log on")
                       [] OTHER -> TRUE
       IN \/ wanted /\ wire' \in {wire \o <<piece("whole")>>, wire \o <<piece("head"), piece("tail")>>}
          \/ ~wanted /\ UNCHANGED wire

OpenVpnUnchanged == UNCHANGED <<sent, buf, seen, ordered, cut, loop>>

HoldNotice ==
    /\ phase = "hold"
    /\ Writes(Line("hold"))
    /\ OpenVpnUnchanged /\ UNCHANGED <<phase, self, lastPushed>>

\* The gateway's reply, during a handshake or at a renegotiation.
ReceivesPush ==
    /\ phase \in {"handshake", "up"}
    /\ \E reply \in IF lastPushed = None THEN Replies ELSE Later :
        /\ Writes([Line("push") EXCEPT !.reply = reply])
        /\ lastPushed' = reply
    /\ phase' = IF phase = "handshake" THEN "pushed" ELSE phase
    /\ OpenVpnUnchanged /\ UNCHANGED self

\* The tunnel is up; openvpn installs the routes it knows of, unless told not to.
Connects ==
    /\ phase \in {"pushed"} \union IF lastPushed # None THEN {"handshake"} ELSE {}
    /\ Writes(Line("connected"))
    /\ phase' = "up"
    /\ self' = IF "route-noexec" \in Directives THEN {}
               ELSE {[family |-> "V4", dest |-> n.dest, prefix |-> Ipv4MaskToPrefix(n.mask)] : n \in ConfigRoutes}
    /\ OpenVpnUnchanged /\ UNCHANGED lastPushed

\* openvpn holds at every restart unless the hold was turned off.
Unheld == IF Subscribed("hold off") THEN "handshake" ELSE "hold"

\* A restart goes back to the handshake; the reply may be the same, and then
\* is not logged again.
Restarts ==
    /\ phase = "up"
    /\ Writes(Line("state"))
    /\ phase' = Unheld
    /\ OpenVpnUnchanged /\ UNCHANGED <<self, lastPushed>>

\* Lines that come at any time: tokens and prompts, log lines, and lines the
\* parser does not know.
OtherLine ==
    /\ phase \in {"handshake", "pushed", "up"}
    /\ \/ \E t \in Tokens : Writes([Line("token") EXCEPT !.token = t])
       \/ \E kind \in {"prompt", "otherPrompt", "log", "garbage"} : Writes(Line(kind))
    /\ OpenVpnUnchanged /\ UNCHANGED <<phase, self, lastPushed>>

Dies ==
    /\ phase \notin {"hold", "gone"}
    /\ \E kind \in {"verifyFailed", "fatal"} : Writes(Line(kind))
    /\ phase' = "gone"
    /\ OpenVpnUnchanged /\ UNCHANGED <<self, lastPushed>>

-----------------------------------------------------------------------------
(* The client *)

\* release_startup_hold and what comes before it: the hold is turned off for
\* good and released.
Send ==
    /\ sent < Len(Startup)
    /\ sent' = sent + 1
    /\ phase' = IF Startup[sent + 1] = "hold release" /\ phase = "hold" THEN "handshake" ELSE phase
    /\ UNCHANGED <<channel, loop, self, lines, lastPushed, issued, source>>

\* parse_line: the prefix decides, so what has lost its beginning is unknown.
Parsed(pieces) ==
    IF pieces[1].part = "tail" \/ pieces[1].line.kind = "garbage" THEN None ELSE pieces[1].line

\* Plausible slip: a push reply without a token forgets the token.
AbsorbPushForgets(opts) == [token |-> opts.authToken, user |-> opts.authTokenUser]

\* absorb_push: the last token and the last user win.
AbsorbPush(opts) ==
    [token |-> IF opts.authToken # None THEN opts.authToken ELSE creds.token,
     user |-> IF opts.authTokenUser # None THEN opts.authTokenUser ELSE creds.user]

\* response: the token with the user that came with it or the profile's;
\* without a token or without a user the prompt is not answered.
Response ==
    LET user == IF creds.user # None THEN creds.user ELSE InitialUser IN
    IF creds.token = None \/ user = None THEN NoCreds ELSE [token |-> creds.token, user |-> user]

\* Plausible slip: the networks of a later reply come on top of those installed.
ApplyRoutesOnTop(opts, installed) ==
    IF opts.routeGateway = None THEN installed ELSE installed \union Desired(opts)

\* apply_routes: without a route gateway, what is installed is left alone.
ApplyRoutes(opts, installed) == IF opts.routeGateway = None THEN installed ELSE Desired(opts)

OnPush(reply) ==
    LET opts == Parse(reply) IN
    IF PushReplyAcceptable(opts)
    THEN /\ creds' = AbsorbPush(opts)
         /\ pushOpts' = opts
         /\ routed' = IF haveConnected THEN ApplyRoutes(opts, routed) ELSE routed
         /\ UNCHANGED <<haveConnected, answer, over>>
    ELSE /\ over' = TRUE
         /\ UNCHANGED <<pushOpts, haveConnected, routed, creds, answer>>

\* CONNECTED clears the routes and applies the options in force.
OnConnected ==
    /\ haveConnected' = TRUE
    /\ routed' = ApplyRoutes(pushOpts, {})
    /\ UNCHANGED <<pushOpts, creds, answer, over>>

OnToken(t) ==
    /\ creds' = [creds EXCEPT !.token = t]
    /\ UNCHANGED <<pushOpts, haveConnected, routed, answer, over>>

OnPrompt ==
    /\ answer' = Response
    /\ UNCHANGED <<pushOpts, haveConnected, routed, creds, over>>

\* What the event loop does with an event.
Handle(event) ==
    CASE event.kind = "push" -> OnPush(event.reply)
      [] event.kind = "connected" -> OnConnected
      [] event.kind = "token" -> OnToken(event.token)
      [] event.kind = "prompt" -> OnPrompt
      [] event.kind \in {"verifyFailed", "fatal"} ->
            over' = TRUE /\ UNCHANGED <<pushOpts, haveConnected, routed, creds, answer>>
      [] OTHER -> UNCHANGED loop

\* Plausible slip: the buffer is not cleared for the next line.
BufAfterLineKept(pieces) == <<pieces[1]>>

\* The buffer is cleared before every line.
BufAfterLine(pieces) == <<>>

\* The event at hand is a hold: it is released at once.
Released == Head(wire).part # "head" /\ Parsed(Append(buf, Head(wire))) # None
            /\ Parsed(Append(buf, Head(wire))).kind = "hold"

\* read_event consumes what has arrived; at the end of a line it is parsed,
\* and an unknown line is skipped.
Read ==
    /\ ~over /\ sent = Len(Startup) /\ wire # <<>>
    /\ wire' = Tail(wire)
    /\ LET pieces == Append(buf, Head(wire))  event == Parsed(pieces) IN
       \/ /\ Head(wire).part = "head"
          /\ buf' = pieces
          /\ UNCHANGED <<loop, seen, ordered>>
       \/ /\ Head(wire).part # "head" /\ event = None
          /\ buf' = BufAfterLine(pieces)
          /\ UNCHANGED <<loop, seen, ordered>>
       \/ /\ Head(wire).part # "head" /\ event # None
          /\ buf' = BufAfterLine(pieces)
          /\ seen' = pieces[1].id
          /\ ordered' = (ordered /\ pieces[1].id > seen)
          /\ Handle(event)
    /\ phase' = IF phase = "hold" /\ Released THEN "handshake" ELSE phase
    /\ UNCHANGED <<sent, self, lines, lastPushed, issued, source, cut>>

\* Another arm of the loop wins: the pending read is dropped with what it has
\* consumed.
OtherArm ==
    /\ ~over /\ buf # <<>>
    /\ buf' = <<>>
    /\ cut' = TRUE
    /\ UNCHANGED <<phase, sent, wire, seen, ordered, loop, self, lines, lastPushed, issued, source>>

Next ==
    \/ HoldNotice \/ ReceivesPush \/ Connects \/ Restarts \/ OtherLine \/ Dies
    \/ Send \/ Read \/ OtherArm

Spec == Init /\ [][Next]_vars

-----------------------------------------------------------------------------
(* Properties *)

\* A network holds an address; a mask does.
InNet(n, a) == n.dest \div Pow2[Width - n.prefix] = a \div Pow2[Width - n.prefix]
InMask(dest, mask, a) == \A i \in 0 .. Width - 1 : Bit(mask, i) = 1 => Bit(dest, i) = Bit(a, i)
Contiguous(mask) == \A i, j \in 0 .. Width - 1 : i < j /\ Bit(mask, i) = 1 => Bit(mask, j) = 1

\* A route token's network holds the address.
Covers(t, family, a) ==
    /\ t.val # "bad"
    /\ \/ /\ family = "V4" /\ t.opt = "route"
          /\ Contiguous(t.mask) /\ InMask(t.dest, t.mask, a)
       \/ /\ family = "V6" /\ t.opt = "route-ipv6"
          /\ t.mask <= Width /\ InNet([dest |-> t.dest, prefix |-> t.mask], a)

Says(reply, opt) == \E i \in DOMAIN reply : reply[i].opt = opt /\ reply[i].val # "bad"
Flag(reply, flag) ==
    \E i \in DOMAIN reply :
        \/ reply[i].opt \in {"redirect-gateway", "redirect-gateway-ipv6"} /\ flag \in reply[i].flags
        \/ reply[i].opt = "redirect-gateway-ipv6" /\ flag = "ipv6"

Redirects(reply) ==
    \E i \in DOMAIN reply : reply[i].opt \in {"redirect-gateway", "redirect-gateway-ipv6"}

\* The reply says that traffic to the address goes through the tunnel: by a
\* route that names no gateway of its own, or by a redirection, whatever its
\* sub-flags.  IPv6 routes count if the tunnel has an IPv6 address.
SentThrough(reply, family, a) ==
    \/ /\ \E i \in DOMAIN reply : Covers(reply[i], family, a) /\ reply[i].gateway = "none"
       /\ family = "V6" => Says(reply, "ifconfig-ipv6")
    \/ /\ Redirects(reply)
       /\ IF family = "V4" THEN ~Flag(reply, "!ipv4") ELSE Flag(reply, "ipv6")

\* A redirection without any sub-flag.
BareRedirect(reply) == Redirects(reply) /\ \A flag \in RedirectFlags : ~Flag(reply, flag)

\* A route with a gateway of its own holds the address.
SentElsewhere(reply, family, a) ==
    \E i \in DOMAIN reply : Covers(reply[i], family, a) /\ reply[i].gateway # "none"

\* Once connected, with every line read and none cut, exactly the traffic
\* that the gateway's last reply names is sent into the tunnel, address by
\* address, if the reply has a route gateway: through restarts, re-pushes and
\* any split of the lines; openvpn adds no route of its own (so the profile's
\* include routes, which it alone is told of, are not routed).  Two forms of
\* the reply are left out, because the code does not do what they say: a bare
\* redirect-gateway (nothing of IPv4 is redirected), and the addresses of a
\* route that names its own gateway, such as net_gateway (they are routed
\* into the tunnel all the same).
RoutedAsPushed ==
    haveConnected /\ ~over /\ ~cut /\ wire = <<>> /\ phase = "up" /\ Says(lastPushed, "route-gateway") =>
        \A family \in Families, a \in Addr :
            \/ family = "V4" /\ BareRedirect(lastPushed)
            \/ SentElsewhere(lastPushed, family, a)
            \/ (\E n \in routed \union self : n.family = family /\ InNet(n, a))
                   <=> SentThrough(lastPushed, family, a)

\* Every line becomes at most one event, and events keep the order of their
\* lines, although a read may be dropped in the middle of a line.
EventsInOrder == ordered

\* The event at hand is a prompt for credentials.
Prompted ==
    LET event == Parsed(Append(buf, Head(wire)))
    IN Head(wire).part # "head" /\ event # None /\ event.kind = "prompt"

\* Every prompt for credentials is answered with the newest token openvpn had
\* told of before it, whichever way it came (a push reply or a notification)
\* and however many replies without a token followed, if no line was cut; it
\* goes unanswered only without a token or a user name.  Left out are the
\* behaviours where a push reply brings another token after a notification
\* did: the comment on absorb_push calls the notification authoritative then,
\* and the code answers with the later one.
AnswersWithNewest ==
    [][Read /\ Prompted /\ ~cut /\ source # "overtaken" =>
          \/ answer'.token = Head(wire).issued
          \/ answer' = NoCreds /\ creds.user = None /\ InitialUser = None]_vars

=============================================================================
