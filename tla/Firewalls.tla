----------------------------- MODULE Firewalls -----------------------------
(***************************************************************************)
(* The passes that keep iptables chains in line with a policy, on every    *)
(* host: security groups (manager/security_group.go), access-control       *)
(* policies (acl.go, firewall.go), WAF policies (waf.go) and the filter of *)
(* an egress proxy (egress.go).  Each turns a policy into a program of     *)
(* iptables commands and runs it command by command, while packets pass.   *)
(*                                                                         *)
(* One policy of one of the four kinds; a packet and a rule's conditions   *)
(* are small records, and a rule that matches nothing in particular        *)
(* matches every packet.                                                   *)
(***************************************************************************)
EXTENDS Naturals, Sequences, SequencesExt, FiniteSets

CONSTANTS Kinds,            \* among "sg", "acl", "waf", "egress"
          Hosts,
          RuleLists(_),     \* kind -> the rule lists a policy may have
          Targets,          \* what a WAF policy protects is matched by one of these
          Packets,
          MaxEvents,        \* bound on changes, failures and crashes
          None

VARIABLES kind,
          pol,      \* the record: [exists, del, fin, rules, target, phase]
          kern,     \* host -> [chain, links]: the chain's rules or None, and its jumps
          agent,    \* host -> [pc, got, prog, bad, hit]: hit once the comparison has failed
          events

fwVars == <<kind, pol, kern, agent, events>>

NoKernel == [chain |-> None, links |-> {}]
NewAgent == [pc |-> "idle", got |-> None, prog |-> <<>>, bad |-> FALSE, hit |-> FALSE]
-----------------------------------------------------------------------------
(* Rules, and what the kernel makes of a packet *)

\* A rule of the kernel: 0 is no condition, and source 9 the block of every address.
Rule(proto, port, src, est, act) == [proto |-> proto, port |-> port, src |-> src, est |-> est, act |-> act]
Always(act) == Rule("any", 0, 0, FALSE, act)

Hits(r, p) ==
  /\ r.proto \in {"any", p.proto}
  /\ r.port \in {0, p.port}
  /\ r.src \in {0, 9, p.src}
  /\ r.est => p.est

\* The first rule that hits and ends it; LOG goes on.
Verdict(chain, p) ==
  LET ends == {i \in DOMAIN chain : Hits(chain[i], p) /\ chain[i].act # "LOG"}
  IN IF ends = {} THEN "RETURN" ELSE chain[CHOOSE i \in ends : \A j \in ends : i <= j].act

\* sgRuleArgs: the port counts for tcp and udp only
SgRule(r) ==
  Rule(IF r.proto = "all" THEN "any" ELSE r.proto,
       IF r.proto \in {"tcp", "udp"} THEN r.port ELSE 0, r.src, FALSE, "ACCEPT")

\* ruleArgs
AclRule(r) ==
  Rule(IF r.proto \in {"", "all"} THEN "any" ELSE r.proto, r.port, r.src, FALSE,
       IF r.action = "allow" THEN "ACCEPT" ELSE "DROP")

\* wafRuleArgs
WafRule(r) ==
  LET act == CASE r.action = "block" -> "DROP" [] r.action = "allow" -> "ACCEPT" [] OTHER -> "LOG"
  IN CASE r.match = "source_ip" -> Rule("any", 0, r.value, FALSE, act)
       [] r.match = "port" -> Rule("tcp", r.value, 0, FALSE, act)
       [] OTHER -> Always(act)

\* The filter chain of EnsureEgress, where the source stands for the address
EgressRule(r) ==
  Rule(IF r.proto \in {"tcp", "udp"} THEN r.proto ELSE "any",
       IF r.proto \in {"tcp", "udp"} THEN r.port ELSE 0, r.src, FALSE, "ACCEPT")

\* rulesFor of a WAF policy: a stable sort
ByPriority(rs) == SortSeq(rs, LAMBDA a, b : a.prio < b.prio)

Established == Rule("any", 0, 0, TRUE, "ACCEPT")

SgContent(rs) == <<Established>> \o [i \in DOMAIN rs |-> SgRule(rs[i])] \o <<Always("DROP")>>

\* The rules the other chains are filled with, in order
AclContent(rs) == [i \in DOMAIN rs |-> AclRule(rs[i])]
WafContent(rs) == [i \in DOMAIN rs |-> WafRule(ByPriority(rs)[i])]
EgressContent(rs) == [i \in DOMAIN rs |-> EgressRule(rs[i])] \o <<Always("REJECT")>>
-----------------------------------------------------------------------------
(* Programs of commands; one that must succeed ends the program when it fails *)

Cmd(op, arg, must) == [op |-> op, arg |-> arg, must |-> must]

Fill(rules) == <<Cmd("F", None, TRUE)>> \o [i \in DOMAIN rules |-> Cmd("A", rules[i], TRUE)]

New == <<Cmd("N", None, FALSE)>>

\* Mutant: the chain stays where the target was.
WafEnsureChain_Linked(rs, t) == New \o Fill(WafContent(rs)) \o <<Cmd("link", t, TRUE)>>

\* ExecSecurityGroup.EnsureChain, ExecFirewall.Apply, ExecWAF.EnsureChain, and
\* ExecEgress.EnsureEgress with syncChain
SgEnsureChain(rs) == New \o Fill(SgContent(rs))
Apply(rs, t) == New \o Fill(AclContent(rs)) \o <<Cmd("link", t, TRUE)>>
WafEnsureChain(rs, t) ==
  New \o Fill(WafContent(rs)) \o <<Cmd("unlinkOthers", t, FALSE), Cmd("link", t, TRUE)>>
EnsureEgress(rs, t) == New \o <<Cmd("same", Fill(EgressContent(rs)), FALSE), Cmd("link", t, TRUE)>>

\* Flush, then delete, which fails while the chain is jumped to
Drop(must) == <<Cmd("F", None, FALSE), Cmd("X", None, must)>>

SgDeleteChain == Drop(FALSE)
Clear(t) == <<Cmd("unlink", t, FALSE)>> \o Drop(FALSE)
WafDeleteChain(t) == <<Cmd("unlink", t, FALSE)>> \o Drop(FALSE)

Prune == <<Cmd("unlinkOthers", None, FALSE)>> \o Drop(TRUE)

\* What `iptables -S' prints back for a rule: a block of every address is left out.
Printed(r) == IF r.src = 9 THEN [r EXCEPT !.src = 0] ELSE r

\* Mutant: the chain is filled again on every pass.
Same_Never(chain, fill) == FALSE

\* syncChain's comparison of the chain as printed with the rules as written
Same(chain, fill) ==
  chain # None /\ [i \in DOMAIN chain |-> Printed(chain[i])] = [i \in 1..(Len(fill) - 1) |-> fill[i + 1].arg]

Works(k, c) ==
  CASE c.op = "N" -> k.chain = None
    [] c.op \in {"F", "A", "link"} -> k.chain # None
    [] c.op = "unlink" -> c.arg \in k.links
    [] c.op = "X" -> k.chain = <<>> /\ k.links = {}
    [] OTHER -> TRUE

Effect(k, c) ==
  CASE c.op \in {"N", "F"} -> [k EXCEPT !.chain = <<>>]
    [] c.op = "A" -> [k EXCEPT !.chain = Append(@, c.arg)]
    [] c.op = "link" -> [k EXCEPT !.links = @ \union {c.arg}]
    [] c.op = "unlink" -> [k EXCEPT !.links = @ \ {c.arg}]
    [] c.op = "unlinkOthers" -> [k EXCEPT !.links = @ \intersect {c.arg}]
    [] c.op = "X" -> [k EXCEPT !.chain = None]
    [] OTHER -> k
-----------------------------------------------------------------------------
(* Users and the compute pass *)

FwInit ==
  /\ kind \in Kinds
  /\ \E rs \in RuleLists(kind), t \in Targets :
       pol = [exists |-> TRUE, del |-> FALSE, fin |-> FALSE, rules |-> rs, target |-> t, phase |-> "Pending"]
  /\ kern = [h \in Hosts |-> NoKernel]
  /\ agent = [h \in Hosts |-> NewAgent]
  /\ events = 0

Event == events < MaxEvents /\ events' = events + 1

SetRules(rs) ==
  /\ Event /\ pol.exists /\ ~pol.del /\ rs # pol.rules
  /\ pol' = [pol EXCEPT !.rules = rs]
  /\ UNCHANGED <<kind, kern, agent>>

\* The target of a WAF policy gets another address or bridge.
Retarget(t) ==
  /\ Event /\ kind = "waf" /\ pol.exists /\ ~pol.del /\ t # pol.target
  /\ pol' = [pol EXCEPT !.target = t]
  /\ UNCHANGED <<kind, kern, agent>>

\* A policy is deleted; for an egress filter, switched off or its gateway deleted.
DeletePolicy ==
  /\ Event /\ pol.exists /\ ~pol.del
  /\ pol' = IF kind = "egress" THEN [pol EXCEPT !.del = TRUE, !.exists = FALSE]
            ELSE IF pol.fin THEN [pol EXCEPT !.del = TRUE] ELSE [pol EXCEPT !.exists = FALSE]
  /\ UNCHANGED <<kind, kern, agent>>
-----------------------------------------------------------------------------
(* The passes *)

Begin(h, prog) ==
  /\ agent[h].pc = "idle"
  /\ agent' = [agent EXCEPT ![h] = [pc |-> "run", got |-> pol, prog |-> prog, bad |-> FALSE, hit |-> FALSE]]
  /\ UNCHANGED <<kind, pol, kern, events>>

Live(k) == kind = k /\ pol.exists /\ ~pol.del
Deleted(k) == kind = k /\ pol.exists /\ pol.del /\ pol.fin

\* ensure of each pass: the finalizer, then the chain
SgEnsure(h) == Live("sg") /\ Begin(h, SgEnsureChain(pol.rules))
AclEnsure(h) == Live("acl") /\ Begin(h, Apply(pol.rules, pol.target))
WafEnsure(h) == Live("waf") /\ Begin(h, WafEnsureChain(pol.rules, pol.target))

\* finalize of each pass
SgFinalize(h) == Deleted("sg") /\ Begin(h, SgDeleteChain)
AclFinalize(h) == Deleted("acl") /\ Begin(h, Clear(pol.target))
WafFinalize(h) == Deleted("waf") /\ Begin(h, WafDeleteChain(pol.target))

\* The egress pass: the filter of a gateway that wants one, and a chain no
\* gateway wants is pruned
EgressPass(h) ==
  \/ Live("egress") /\ Begin(h, EnsureEgress(pol.rules, pol.target))
  \/ kind = "egress" /\ ~pol.exists /\ kern[h].chain # None /\ Begin(h, Prune)

\* One command
Run(h) ==
  LET a == agent[h]  c == Head(a.prog)
  IN /\ a.pc = "run" /\ a.prog # <<>>
     /\ kern' = [kern EXCEPT ![h] = IF Works(@, c) THEN Effect(@, c) ELSE @]
     /\ agent' = [agent EXCEPT ![h] =
          IF c.op = "same" THEN [a EXCEPT !.prog = IF Same(kern[h].chain, c.arg) THEN Tail(@) ELSE c.arg \o Tail(@)]
          ELSE IF c.must /\ ~Works(kern[h], c) THEN [a EXCEPT !.prog = <<>>, !.bad = TRUE]
          ELSE [a EXCEPT !.prog = Tail(@)]]
     /\ UNCHANGED <<kind, pol, events>>

\* A command fails; the comparison then finds the chain different.
Fails(h) ==
  LET a == agent[h]
  IN /\ Event /\ a.pc = "run" /\ a.prog # <<>>
     /\ agent' = [agent EXCEPT ![h] =
          IF Head(a.prog).must THEN [a EXCEPT !.prog = <<>>, !.bad = TRUE]
          ELSE IF Head(a.prog).op = "same" THEN [a EXCEPT !.prog = Head(@).arg \o Tail(@), !.hit = TRUE]
          ELSE [a EXCEPT !.prog = Tail(@)]]
     /\ UNCHANGED <<kind, pol, kern>>

\* The record after a pass; an egress filter's is the gateway's, which says
\* nothing of it.
Saved(g, bad) ==
  IF kind = "egress" THEN g
  ELSE IF bad THEN [g EXCEPT !.fin = g.del => g.fin, !.phase = "Error"]
  ELSE IF g.del THEN [g EXCEPT !.exists = FALSE, !.fin = FALSE]
  ELSE [g EXCEPT !.fin = TRUE, !.phase = "Ready"]

\* The save is refused when the record has changed; the next pass tries again.
Save(h) ==
  LET a == agent[h]
  IN /\ a.pc = "run" /\ a.prog = <<>>
     /\ pol' = IF pol = a.got THEN Saved(pol, a.bad) ELSE pol
     /\ agent' = [agent EXCEPT ![h] = NewAgent]
     /\ UNCHANGED <<kind, kern, events>>

Crash(h) ==
  /\ Event /\ agent[h].pc # "idle"
  /\ agent' = [agent EXCEPT ![h] = NewAgent]
  /\ UNCHANGED <<kind, pol, kern>>

Pass(h) ==
  \/ SgEnsure(h) \/ AclEnsure(h) \/ WafEnsure(h) \/ SgFinalize(h) \/ AclFinalize(h) \/ WafFinalize(h)
  \/ EgressPass(h) \/ Run(h) \/ Save(h)

FwNext ==
  \/ \E rs \in RuleLists(kind) : SetRules(rs)
  \/ \E t \in Targets : Retarget(t)
  \/ DeletePolicy
  \/ \E h \in Hosts : Pass(h) \/ Fails(h) \/ Crash(h)

FwFairness == \A h \in Hosts : WF_fwVars(Pass(h))

FwSpec == FwInit /\ [][FwNext]_fwVars /\ FwFairness
-----------------------------------------------------------------------------
(* Properties *)

\* What the resources' comments say of a packet under rules rs
Admits(r, p) ==
  /\ r.proto \in {"", "all", "any", p.proto}
  /\ r.port \in {0, p.port} \/ r.proto \notin {"tcp", "udp"}
  /\ r.src \in {0, 9, p.src}

WafHits(r, p) ==
  CASE r.match = "source_ip" -> r.value \in {0, p.src}
    [] r.match = "port" -> p.proto = "tcp" /\ r.value \in {0, p.port}
    [] OTHER -> TRUE

Promised(k, rs, p) ==
  CASE k = "sg" -> IF p.est \/ \E i \in DOMAIN rs : Admits(rs[i], p) THEN "ACCEPT" ELSE "DROP"
    [] k = "acl" ->
         LET hit == {i \in DOMAIN rs : Admits(rs[i], p)}
         IN IF hit = {} THEN "RETURN"
            ELSE IF rs[CHOOSE i \in hit : \A j \in hit : i <= j].action = "allow" THEN "ACCEPT" ELSE "DROP"
    [] k = "waf" ->
         LET hit == {i \in DOMAIN rs : rs[i].action # "log" /\ WafHits(rs[i], p)}
             first == CHOOSE i \in hit : \A j \in hit : rs[i].prio < rs[j].prio \/ (rs[i].prio = rs[j].prio /\ i <= j)
         IN IF hit = {} THEN "RETURN" ELSE IF rs[first].action = "allow" THEN "ACCEPT" ELSE "DROP"
    [] k = "egress" -> IF \E i \in DOMAIN rs : Admits(rs[i], p) THEN "ACCEPT" ELSE "REJECT"

InForce(h) ==
  /\ kern[h].chain # None
  /\ kern[h].links = IF kind = "sg" THEN {} ELSE {pol.target}
  /\ \A p \in Packets : Verdict(kern[h].chain, p) = Promised(kind, pol.rules, p)

Settles == <>[][FALSE]_events

\* A policy that stays ends up in force on every host, between its passes:
\* linked once, where its target is, with a verdict for each packet that is the
\* one its rules promise, whatever failed on the way.
PolicyInForce ==
  \A h \in Hosts : Settles /\ <>[](pol.exists /\ ~pol.del) => <>[](agent[h].pc = "idle" => InForce(h))

\* A chain never ends a packet other than some rules of the policy do, not even
\* while it is being filled.
VerdictOfItsRules ==
  \A h \in Hosts :
    kern[h].chain # None =>
      \E rs \in RuleLists(kind) :
        \A p \in Packets : Verdict(kern[h].chain, p) \in {"RETURN", Promised(kind, rs, p)}

\* An egress filter in force stays in force while its gateway is the same
\* as the pass has read it and its chain can be read (egress.go: `a pass that
\* changes nothing leaves no gap').
NoGap ==
  [][\A h \in Hosts :
       (/\ kind = "egress" /\ InForce(h) /\ pol.exists /\ pol' = pol
        /\ ~agent[h].hit /\ agent[h].got \in {None, pol}) => InForce(h)']_fwVars

\* A filter no gateway asks for any more goes from every host.
EgressPruned ==
  \A h \in Hosts : Settles /\ <>[](kind = "egress" /\ ~pol.exists) => <>[](kern[h].chain = None)

\* The passes end where the policy wants them: its rules in force, or no filter.
FilterSettles == PolicyInForce /\ EgressPruned

\* The record of a policy goes only after its chain (resource/acl.go: `so the
\* iptables chain is torn down before the policy record is removed').
\* It does not hold (README, Properties that do not hold).
TornDownBefore ==
  kind # "egress" /\ ~pol.exists => \A h \in Hosts : agent[h].pc = "idle" => kern[h].chain = None
=============================================================================
