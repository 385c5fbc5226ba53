------------------------------ MODULE LbConfig ------------------------------
(***************************************************************************)
(* The configuration of infra-lb and what it decides (lbproxy/config.go,   *)
(* listener.go, egress.go): ParseConfig accepts a configuration or rejects *)
(* it as a whole; an accepted one routes requests to target groups and     *)
(* dials destinations for egress.                                          *)
(*                                                                         *)
(* A name is a sequence of labels, the last one topmost, and a pattern a   *)
(* name with or without `*.' before it; a path is a sequence of            *)
(* characters.  An address is public or not.                               *)
(***************************************************************************)
EXTENDS Integers, Sequences, SequencesExt, FiniteSets

CONSTANTS RawConfigs,   \* decoded configurations: [listener, groups]
          Hosts, Paths, \* of requests
          Addresses,    \* a host resolves to any sequence of these
          Public        \* the public ones

VARIABLES raw,      \* the configuration as decoded
          cfg,      \* the same with its defaults
          verdict   \* "none" until validated

lcVars == <<raw, cfg, verdict>>

IsEgress(p) == p \in {"egress-http", "egress-tls", "egress-proxy"}
-----------------------------------------------------------------------------
(* setDefaults *)

Or(n, default) == IF n <= 0 THEN default ELSE n

DefaultWeight(w) == Or(w, 1)

DefaultMode(l) ==
  IF l.mode # "" THEN l.mode
  ELSE CASE l.protocol = "https" -> "terminate" [] l.protocol = "tls" -> "passthrough" [] OTHER -> ""

HealthDefaults(hc, p) ==
  LET proto == IF hc.protocol = "" THEN p ELSE hc.protocol
  IN [protocol |-> proto,
      path |-> IF hc.path = <<>> /\ proto # "tcp" THEN <<"/">> ELSE hc.path,
      port |-> hc.port,
      interval |-> Or(hc.interval, 5), timeout |-> Or(hc.timeout, 2),
      healthy |-> Or(hc.healthy, 2), unhealthy |-> Or(hc.unhealthy, 3)]

GroupDefaults(g) ==
  [g EXCEPT !.hc = HealthDefaults(@, g.protocol),
            !.targets = [i \in DOMAIN @ |-> [@[i] EXCEPT !.weight = DefaultWeight(@)]]]

setDefaults(c) ==
  [listener |-> [c.listener EXCEPT !.mode = DefaultMode(c.listener)],
   groups |-> [n \in DOMAIN c.groups |-> GroupDefaults(c.groups[n])]]
-----------------------------------------------------------------------------
(* Validate *)

Protocols == {"http", "https", "tcp"}
PortOK(p) == p \in 1..65535

ValidTargets(ts) ==
  \A i \in DOMAIN ts :
    /\ ts[i].isIP /\ PortOK(ts[i].port) /\ ts[i].weight <= 1000
    /\ \A j \in 1..(i - 1) : ts[j].id # ts[i].id

ValidHealth(hc) ==
  /\ hc.protocol \in Protocols
  /\ hc.protocol # "tcp" => IsPrefix(<<"/">>, hc.path)
  /\ hc.port \in 0..65535
  /\ hc.timeout <= hc.interval

ValidGroup(g) ==
  /\ g.protocol \in Protocols
  /\ g.ca # "none" => g.protocol = "https" /\ g.ca = "good"
  /\ ValidHealth(g.hc) /\ ValidTargets(g.targets)

\* The group protocols a listener protocol and mode can send to.
Accepts(l) ==
  CASE l.protocol = "http" /\ l.mode = "" -> {"http"}
    [] l.protocol = "https" /\ l.mode = "terminate" -> {"http"}
    [] l.protocol = "https" /\ l.mode = "reencrypt" -> {"https"}
    [] l.protocol = "tls" /\ l.mode = "passthrough" -> {"tcp", "https"}
    [] l.protocol = "tcp" /\ l.mode = "" -> {"tcp"}
    [] OTHER -> {}

Sends(l, n, groups) == n \in DOMAIN groups /\ groups[n].protocol \in Accepts(l)

\* A host that is empty is <<>>; other hosts are patterns.
ValidRule(l, r, groups) ==
  /\ r.host # <<>> \/ r.prefix # <<>>
  /\ r.prefix # <<>> => IsPrefix(<<"/">>, r.prefix)
  /\ l.protocol = "tls" => r.prefix = <<>>
  /\ Sends(l, r.group, groups)

ValidRouting(l, groups) ==
  /\ Accepts(l) # {}
  /\ IF l.protocol = "https" THEN l.certs # <<>> /\ \A i \in DOMAIN l.certs : l.certs[i].pair
     ELSE l.certs = <<>>
  /\ Sends(l, l.default, groups)
  /\ l.protocol = "tcp" => l.rules = <<>>
  /\ \A i \in DOMAIN l.rules : ValidRule(l, l.rules[i], groups)

validateEgress(l) ==
  /\ l.mode = "" /\ l.certs = <<>> /\ l.default = 0 /\ l.rules = <<>>
  /\ \A d \in l.egress.domains : d.labels # <<>>
  /\ l.egress.compiles

ValidListener(l, groups) ==
  /\ l.isIP /\ PortOK(l.port)
  /\ IF IsEgress(l.protocol) THEN l.hasEgress /\ validateEgress(l)
     ELSE ~l.hasEgress /\ ValidRouting(l, groups)

Validate(c) ==
  /\ \A n \in DOMAIN c.groups : ValidGroup(c.groups[n])
  /\ ValidListener(c.listener, c.groups)
-----------------------------------------------------------------------------
(* The API's side (resource/listener.go): the same kinds of specs, defaulted  *)
(* and validated one by one before they are stored, then rendered by the      *)
(* agents (manager/l7.go).                                                    *)

OrZero(n, default) == IF n = 0 THEN default ELSE n

SpecHealth(hc, p) ==
  LET proto == IF hc.protocol = "" THEN p ELSE hc.protocol
  IN [protocol |-> proto,
      path |-> IF hc.path = <<>> /\ proto # "tcp" THEN <<"/">> ELSE hc.path,
      port |-> hc.port,
      interval |-> OrZero(hc.interval, 5), timeout |-> OrZero(hc.timeout, 2),
      healthy |-> OrZero(hc.healthy, 2), unhealthy |-> OrZero(hc.unhealthy, 3)]

SpecProtocol(g) == IF g.protocol = "" THEN "http" ELSE g.protocol

\* LBTargetGroupSpec.WithDefaults, LBTargetSpec.WithDefaults
SpecDefaults(g) ==
  [g EXCEPT !.protocol = SpecProtocol(g), !.hc = SpecHealth(@, SpecProtocol(g)),
            !.targets = [i \in DOMAIN @ |-> [@[i] EXCEPT !.weight = OrZero(@, 1)]]]

SpecHealthOK(hc) ==
  /\ hc.protocol \in Protocols
  /\ IF hc.protocol = "tcp" THEN hc.path = <<>> ELSE IsPrefix(<<"/">>, hc.path)
  /\ hc.port \in 0..65535
  /\ hc.interval >= 1 /\ hc.timeout >= 1 /\ hc.timeout < hc.interval
  /\ hc.healthy \in 1..10 /\ hc.unhealthy \in 1..10

\* LBTargetGroupSpec.Validate, LBTargetSpec.Validate, of defaulted specs
SpecGroupOK(g) ==
  /\ g.protocol \in Protocols /\ PortOK(g.port)
  /\ g.ca # "none" => g.protocol = "https"
  /\ SpecHealthOK(g.hc)
  /\ \A i \in DOMAIN g.targets : g.targets[i].port \in 0..65535 /\ g.targets[i].weight \in 1..1000

SpecRuleOK(l, r) ==
  /\ r.group # 0 /\ (r.host # <<>> \/ r.prefix # <<>>)
  /\ r.prefix # <<>> => l.protocol # "tls" /\ IsPrefix(<<"/">>, r.prefix)

\* LBListenerSpec.Validate, of a defaulted spec
SpecListenerOK(l) ==
  /\ PortOK(l.port) /\ l.default # 0
  /\ \/ l.protocol = "http" /\ l.mode = "" /\ l.certs = <<>>
     \/ l.protocol = "https" /\ l.mode \in {"terminate", "reencrypt"} /\ l.certs # <<>>
     \/ l.protocol = "tls" /\ l.mode = "passthrough" /\ l.certs = <<>>
     \/ l.protocol = "tcp" /\ l.mode = "" /\ l.certs = <<>> /\ l.rules = <<>>
  /\ \A i \in DOMAIN l.rules : SpecRuleOK(l, l.rules[i])

Admitted(c) ==
  /\ SpecListenerOK([c.listener EXCEPT !.mode = DefaultMode(c.listener)])
  /\ \A n \in DOMAIN c.groups : SpecGroupOK(SpecDefaults(c.groups[n]))

\* listenerEntries, targetGroup: a target without a port has its group's
Rendered(c) ==
  [listener |-> [c.listener EXCEPT !.mode = DefaultMode(c.listener)],
   groups |-> [n \in DOMAIN c.groups |->
     LET g == SpecDefaults(c.groups[n])
     IN [g EXCEPT !.targets = [i \in DOMAIN @ |-> [@[i] EXCEPT !.port = OrZero(@, g.port)]]]]]
-----------------------------------------------------------------------------
(* Routing *)

matchHost(p, h) ==
  IF p.wild THEN Len(h) > Len(p.labels) /\ IsSuffix(p.labels, h) ELSE p.labels = h

Matches(r, host, path) ==
  /\ r.host # <<>> => matchHost(r.host[1], host)
  /\ IsPrefix(r.prefix, path)

Score(r) == 2 * Len(r.prefix) + (IF r.host # <<>> THEN 1 ELSE 0)

\* Mutant: the last of the rules that match as well is taken.
Better_Last(score, best) == score >= best

Better(score, best) == score > best

\* route: the loop over the rules, with the best group and score so far
route(l, host, path) ==
  LET step(best, r) ==
        IF Matches(r, host, path) /\ Better(Score(r), best[2]) THEN <<r.group, Score(r)>> ELSE best
  IN FoldLeft(step, <<l.default, -1>>, l.rules)[1]

\* certSet.pick: the first certificate naming the server, else the first
CertPick(l, host) ==
  LET naming == {i \in DOMAIN l.certs : host # <<>> /\ \E d \in l.certs[i].names : matchHost(d, host)}
  IN IF l.certs = <<>> THEN 0
     ELSE IF naming = {} THEN 1 ELSE CHOOSE i \in naming : \A j \in naming : i <= j
-----------------------------------------------------------------------------
(* Egress *)

Dialable(p, a) == a \in Public \/ a \in p.nets

allowsDomain(p, host) == \E d \in p.domains : matchHost(d, host)

\* policy.dial to a name that resolves to addrs, of which `up' answer
dialName(p, host, addrs, up) ==
  LET fit == IF allowsDomain(p, host)
             THEN {i \in DOMAIN addrs : Dialable(p, addrs[i]) /\ addrs[i] \in up} ELSE {}
  IN IF fit = {} THEN {} ELSE {addrs[CHOOSE i \in fit : \A j \in fit : i <= j]}

\* policy.dial to an address
dialAddress(p, a, up) == IF a \in p.nets /\ a \in up THEN {a} ELSE {}
-----------------------------------------------------------------------------

LcInit == raw \in RawConfigs /\ cfg = raw /\ verdict = "none"

\* ParseConfig
ParseConfig ==
  /\ verdict = "none"
  /\ cfg' = setDefaults(raw)
  /\ verdict' = IF Validate(cfg') THEN "accepted" ELSE "rejected"
  /\ UNCHANGED raw

LcSpec == LcInit /\ [][ParseConfig]_lcVars
-----------------------------------------------------------------------------
(* Properties *)

Running == verdict = "accepted"
Serving == Running /\ ~IsEgress(cfg.listener.protocol)

\* Whatever is asked of an accepted configuration goes to a group it declares
\* and whose protocol the listener can send, and an https listener has a
\* certificate to answer with; a tls listener routes by name only.
RoutedToAccepted ==
  Serving =>
    \A h \in Hosts, p \in Paths :
      LET n == route(cfg.listener, h, IF cfg.listener.protocol = "tls" THEN <<>> ELSE p)
      IN /\ n \in DOMAIN cfg.groups /\ cfg.groups[n].protocol \in Accepts(cfg.listener)
         /\ cfg.listener.protocol = "https" => CertPick(cfg.listener, h) # 0

\* The rule that route takes has the longest path prefix of those that match, a
\* rule naming the host before one that does not, the first of equals; without
\* one it is the default (the comment on route).
LongestPrefix ==
  Serving =>
    \A h \in Hosts, p \in Paths :
      LET rules == cfg.listener.rules
          fit == {i \in DOMAIN rules :
                    /\ IsPrefix(rules[i].prefix, p)
                    /\ \/ rules[i].host = <<>>
                       \/ rules[i].host[1].wild /\ h # rules[i].host[1].labels /\ IsSuffix(rules[i].host[1].labels, h)
                       \/ ~rules[i].host[1].wild /\ h = rules[i].host[1].labels}
          before(i, j) ==
            \/ Len(rules[i].prefix) > Len(rules[j].prefix)
            \/ /\ Len(rules[i].prefix) = Len(rules[j].prefix)
               /\ \/ rules[i].host # <<>> /\ rules[j].host = <<>>
                  \/ (rules[i].host = <<>>) = (rules[j].host = <<>>) /\ i <= j
      IN IF fit = {} THEN route(cfg.listener, h, p) = cfg.listener.default
         ELSE \E i \in fit : /\ route(cfg.listener, h, p) = rules[i].group
                             /\ \A j \in fit : before(i, j)

\* The balancer is only ever given weights, thresholds and times it can work
\* with: defaults are filled in before the bounds are checked.
BalancerFed ==
  Running => \A n \in DOMAIN cfg.groups :
    /\ \A i \in DOMAIN cfg.groups[n].targets : cfg.groups[n].targets[i].weight \in 1..1000
    /\ cfg.groups[n].hc.healthy > 0 /\ cfg.groups[n].hc.unhealthy > 0
    /\ cfg.groups[n].hc.timeout \in 1..cfg.groups[n].hc.interval

\* Every address an egress listener connects to is allowed by address, or is a
\* public address of an allowed name, whatever the names resolve to (egress.go:
\* `only its public addresses are dialed').
EgressWithin ==
  Running /\ IsEgress(cfg.listener.protocol) =>
    LET p == cfg.listener.egress
        named(h) == \E d \in p.domains : IF d.wild THEN IsSuffix(d.labels, h) /\ h # d.labels ELSE h = d.labels
    IN \A h \in Hosts, addrs \in [1..2 -> Addresses], up \in SUBSET Addresses :
         /\ \A a \in dialName(p, h, addrs, up) : named(h) /\ a \in Public \union p.nets
         /\ \A a \in Addresses : dialAddress(p, a, up) \subseteq p.nets

\* An egress listener reaches what it allows: an allowed name with a public
\* address that answers is dialed although others of its addresses are not.
EgressReaches ==
  Running /\ IsEgress(cfg.listener.protocol) =>
    \A h \in Hosts, addrs \in [1..2 -> Addresses], up \in SUBSET Addresses :
      (/\ \E d \in cfg.listener.egress.domains : d.wild = FALSE /\ d.labels = h
       /\ \E i \in 1..2 : addrs[i] \in Public /\ addrs[i] \in up)
        => dialName(cfg.listener.egress, h, addrs, up) # {}

\* What the API admits, rendered by an agent, infra-lb accepts, as long as every
\* group speaks what its listeners send and the records are whole: two validators
\* in two programs agree (l7.go validates what it has rendered before applying).
AdmittedIsAccepted ==
  LET l == Rendered(raw).listener
      used == {l.default} \union {l.rules[i].group : i \in DOMAIN l.rules}
      whole == /\ ~l.hasEgress /\ l.isIP /\ \A i \in DOMAIN l.certs : l.certs[i].pair
               /\ \A n \in DOMAIN raw.groups :
                    LET ts == raw.groups[n].targets
                    IN raw.groups[n].ca # "bad" /\ \A i, j \in DOMAIN ts : ts[i].isIP /\ (i # j => ts[i].id # ts[j].id)
      fit == \A n \in used : n \in DOMAIN raw.groups /\ Rendered(raw).groups[n].protocol \in Accepts(l)
  IN Admitted(raw) /\ whole /\ fit => Validate(setDefaults(Rendered(raw)))

\* A configuration that was admitted is accepted and does what it says: requests are
\* routed as the rules say, and egress is what the policy allows.
ConfigHolds ==
  /\ RoutedToAccepted /\ LongestPrefix /\ BalancerFed /\ AdmittedIsAccepted
  /\ EgressWithin /\ EgressReaches
=============================================================================
