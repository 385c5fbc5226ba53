-------------------------- MODULE FunctionPoolProofs --------------------------
(***************************************************************************)
(* ClaimedAlone of FunctionPool, for every number of functions, instances, *)
(* ports, invocations and faults: an instance in use is used by one        *)
(* invocation, and its record stays Assigned and unmarked.  The argument:  *)
(* an invocation holds its instance from the swap that assigns it, or from *)
(* its creation in a cold start, to the swap that gives it back; nobody    *)
(* claims, marks or removes an instance that is held, because a listing    *)
(* only shows as deleting what is still so, or gone, when it is acted on.  *)
(***************************************************************************)
EXTENDS FunctionPool, WellFoundedInduction, TLAPS

\* The fields of a pass and of an invocation.
CtlFields == {"pc", "fns", "insts", "cps", "todo", "fn", "work", "evict", "need", "cand", "port"}
InvFields == {"pc", "fn", "work", "cur", "port", "cand", "tries"}

\* What a pass has listed as deleting.
Deleting(c) == {i \in Slots : c.insts[i] # Nothing /\ c.insts[i].del}

\* What a pass knows where it stands: the instances it finalizes were listed as
\* deleting, and what it works on in a function is of the right kind.
PassOK(c) ==
  /\ DOMAIN c = CtlFields
  /\ c.pc \in {"final", "remove"} => c.todo # {} /\ c.todo \subseteq Deleting(c)
  /\ c.pc \in {"deps", "sync", "ports", "putcp", "putinst", "putfn", "dropfn"} =>
       c.fn \in Fns /\ c.todo \subseteq Fns
  /\ c.pc \in {"mark", "getcp", "markcp"} /\ c.fn # Nothing => c.fn \in Fns /\ c.todo \subseteq Fns
  /\ c.pc = "sync" => c.work # {} /\ c.work \subseteq {i \in Slots : Listed(c, i)}
  /\ c.pc = "putcp" => c.cand # {} /\ c.cand \subseteq Ports
  /\ c.pc = "putinst" => c.port \in Ports

\* What an invocation knows where it stands.
InvOK(c) ==
  /\ DOMAIN c = InvFields
  /\ c.pc \in {"list", "claim", "swap", "cold", "putcp", "putinst"} => c.fn \in Fns
  /\ c.pc = "claim" => DOMAIN c.work # {}
  /\ c.pc \in {"claim", "swap"} => DOMAIN c.work \subseteq Slots
  /\ c.pc = "putcp" => c.cand # {} /\ c.cand \subseteq Ports
  /\ c.pc = "putinst" => c.port \in Ports
  /\ c.pc \in {"swap", "wait", "giveup", "forward"} => c.cur \in Slots

\* The types the argument is about.
PoolTyped ==
  /\ insts \in [Slots -> InstRecords \cup {Nothing}]
  /\ PassOK(ctl)
  /\ DOMAIN inv = Invs /\ \A v \in Invs : InvOK(inv[v])

\* An invocation has an instance, from the swap or the cold start on.
Holds(v) == inv[v].pc \in {"wait", "giveup", "forward"}

\* What a record in use looks like.
InUse(r) == r # Nothing /\ r.state = "Assigned" /\ ~r.del

\* An instance that is held is Assigned, not marked, and held once.
HoldInv ==
  /\ \A v \in Invs : Holds(v) => InUse(insts[inv[v].cur])
  /\ \A v, w \in Invs : Holds(v) /\ Holds(w) /\ inv[v].cur = inv[w].cur => v = w

\* What the pass has listed as deleting is deleting, or gone: its name is not
\* used again as long as the pass remembers it.
ListInv == \A i \in Deleting(ctl) : insts[i] = Nothing \/ insts[i].del

\* The inductive invariant.
PoolInv == PoolTyped /\ HoldInv /\ ListInv

-----------------------------------------------------------------------------

USE FpAssumption DEF FpAssumption

\* What a loop takes next is in its list.
LEMMA FirstIn ==
  ASSUME NEW s, s \subseteq Nat, s # {}
  PROVE  First(s) \in s
<1> DEFINE R == OpToRel(<, Nat)
<1>1. IsWellFoundedOn(R, Nat)
  BY NatLessThanWellFounded
<1>2. \A x, y \in Nat : y < x => <<y, x>> \in R
  BY DEF OpToRel
<1> HIDE DEF R
<1>3. \E x \in s : \A y \in s : ~(<<y, x>> \in R)
  <2>1. s \subseteq Nat /\ s # {}
    OBVIOUS
  <2>2. QED
    BY ONLY <1>1, <2>1, WFMin, Zenon
<1>4. PICK x \in s : \A y \in s : ~(<<y, x>> \in R)
  BY <1>3
<1>5. \A y \in s : x <= y
  <2> TAKE y \in s
  <2>1. x \in Nat /\ y \in Nat
    OBVIOUS
  <2>2. ~(y < x)
    BY ONLY <1>2, <1>4, <2>1, Zenon
  <2>3. QED
    BY <2>1, <2>2
<1>6. QED
  BY <1>5 DEF First

\* A pass d remembers of the listed instances no more than pass c.
Remembers(d, c) == \A i \in Slots : d.insts[i] \in {c.insts[i], Nothing}

\* Where the loop over the instances without a function leads.
LEMMA ReapOK ==
  ASSUME NEW c, DOMAIN c = CtlFields
  PROVE  PassOK(AtReap(c)) /\ Remembers(AtReap(c), c)
<1>1. CASE c.todo = {}
  BY <1>1 DEF AtReap, IdleCtl, PassOK, Remembers, CtlFields
<1>2. CASE c.todo # {}
  BY <1>2 DEF AtReap, PassOK, Remembers, CtlFields
<1>3. QED
  BY <1>1, <1>2

\* Forgetting keeps where a pass stands, which is not at a finalization.
LEMMA TrimOK ==
  ASSUME NEW c, PassOK(c), c.pc \in {"mark", "putfn"}
  PROVE  PassOK(Trim(c)) /\ Remembers(Trim(c), c)
  BY DEF Trim, PassOK, Remembers, CtlFields

\* Where the loop over the functions leads.
LEMMA NextOK ==
  ASSUME NEW c, DOMAIN c = CtlFields, c.todo \subseteq Fns
  PROVE  PassOK(AtNext(c)) /\ Remembers(AtNext(c), c)
<1>1. CASE c.todo = {}
  <2> DEFINE S == {i \in Slots : /\ Listed(c, i) /\ ~c.insts[i].del
                                 /\ c.fns[c.insts[i].fn] = Nothing}
             d == [c EXCEPT !.todo = S]
  <2>1. AtNext(c) = AtReap(d)
    BY <1>1 DEF AtNext
  <2>2. DOMAIN d = CtlFields /\ d.insts = c.insts
    BY DEF CtlFields
  <2> HIDE DEF d
  <2>3. PassOK(AtReap(d)) /\ Remembers(AtReap(d), d)
    BY <2>2, ReapOK
  <2>4. QED
    BY <2>1, <2>2, <2>3 DEF Remembers
<1>2. CASE c.todo # {}
  <2> DEFINE f == First(c.todo)
             d == [c EXCEPT !.todo = @ \ {f}, !.fn = f]
  <2>1. f \in Fns
    BY <1>2, FirstIn
  <2>2. /\ DOMAIN d = CtlFields /\ d.insts = c.insts /\ d.fn = f
        /\ d.todo \subseteq Fns
    BY DEF CtlFields
  <2>3. AtNext(c) = IF ~c.fns[f].del THEN [d EXCEPT !.pc = "deps"]
                    ELSE IF Of(c, f) = {} THEN [d EXCEPT !.pc = "dropfn"]
                    ELSE Trim([d EXCEPT !.pc = "mark", !.evict = Of(c, f)])
    BY <1>2 DEF AtNext
  <2> HIDE DEF d, f
  <2>4. /\ PassOK([d EXCEPT !.pc = "deps"]) /\ Remembers([d EXCEPT !.pc = "deps"], c)
        /\ PassOK([d EXCEPT !.pc = "dropfn"]) /\ Remembers([d EXCEPT !.pc = "dropfn"], c)
    BY <2>1, <2>2 DEF PassOK, Remembers, CtlFields
  <2> DEFINE m == [d EXCEPT !.pc = "mark", !.evict = Of(c, f)]
  <2>5. m.pc = "mark" /\ PassOK(m) /\ m.insts = c.insts
    BY <2>1, <2>2 DEF PassOK, CtlFields
  <2> HIDE DEF m
  <2>6. PassOK(Trim(m)) /\ Remembers(Trim(m), c)
    BY <2>5, TrimOK DEF Remembers
  <2>7. QED
    BY <2>3, <2>4, <2>6 DEF m
<1>3. QED
  BY <1>1, <1>2

\* Where the loop over the instances listed as deleting leads.
LEMMA FinalOK ==
  ASSUME NEW c, DOMAIN c = CtlFields, c.todo \subseteq Deleting(c)
  PROVE  PassOK(AtFinal(c)) /\ Remembers(AtFinal(c), c)
<1>1. CASE c.todo # {}
  BY <1>1 DEF AtFinal, PassOK, Remembers, CtlFields, Deleting
<1>2. CASE c.todo = {}
  <2> DEFINE d == [c EXCEPT !.todo = {f \in Fns : c.fns[f] # Nothing}]
  <2>1. AtFinal(c) = AtNext(d)
    BY <1>2 DEF AtFinal
  <2>2. DOMAIN d = CtlFields /\ d.insts = c.insts /\ d.todo \subseteq Fns
    BY DEF CtlFields
  <2> HIDE DEF d
  <2>3. QED
    BY <2>1, <2>2, NextOK DEF Remembers
<1>3. QED
  BY <1>1, <1>2

\* Where the loop over the orphaned computes leads.
LEMMA RetireOK ==
  ASSUME NEW c, DOMAIN c = CtlFields
  PROVE  PassOK(AtRetire(c)) /\ Remembers(AtRetire(c), c)
<1>1. CASE c.todo # {}
  BY <1>1 DEF AtRetire, PassOK, Remembers, CtlFields
<1>2. CASE c.todo = {}
  <2> DEFINE d == [c EXCEPT !.todo = {i \in Slots : Listed(c, i) /\ c.insts[i].del}]
  <2>1. AtRetire(c) = AtFinal(d)
    BY <1>2 DEF AtRetire
  <2>2. DOMAIN d = CtlFields /\ d.insts = c.insts /\ d.todo \subseteq Deleting(d)
    BY DEF CtlFields, Deleting, Listed
  <2> HIDE DEF d
  <2>3. QED
    BY <2>1, <2>2, FinalOK DEF Remembers
<1>3. QED
  BY <1>1, <1>2

\* Where the loop over the instances to evict leads.
LEMMA MarkOK ==
  ASSUME NEW c, DOMAIN c = CtlFields, c.fn # Nothing => c.fn \in Fns /\ c.todo \subseteq Fns
  PROVE  PassOK(AtMark(c)) /\ Remembers(AtMark(c), c)
<1>1. CASE c.evict # {}
  <2> DEFINE m == [c EXCEPT !.pc = "mark"]
  <2>1. m.pc = "mark" /\ PassOK(m) /\ m.insts = c.insts
    BY DEF PassOK, CtlFields
  <2>2. AtMark(c) = Trim(m)
    BY <1>1 DEF AtMark
  <2> HIDE DEF m
  <2>3. QED
    BY <2>1, <2>2, TrimOK DEF Remembers
<1>2. CASE c.evict = {} /\ c.fn = Nothing
  BY <1>2, ReapOK DEF AtMark
<1>3. CASE c.evict = {} /\ c.fn # Nothing /\ c.fns[c.fn].del
  BY <1>3, NextOK DEF AtMark
<1>4. CASE c.evict = {} /\ c.fn # Nothing /\ ~c.fns[c.fn].del
  <2> DEFINE m == [c EXCEPT !.pc = "putfn"]
  <2>1. m.pc = "putfn" /\ PassOK(m) /\ m.insts = c.insts
    BY <1>4 DEF PassOK, CtlFields
  <2>2. AtMark(c) = Trim(m)
    BY <1>4 DEF AtMark
  <2> HIDE DEF m
  <2>3. QED
    BY <2>1, <2>2, TrimOK DEF Remembers
<1>5. QED
  BY <1>1, <1>2, <1>3, <1>4

\* Where a pass goes when an error ends a function or an orphan.
LEMMA ErrorOK ==
  ASSUME NEW c, DOMAIN c = CtlFields, c.fn # Nothing => c.todo \subseteq Fns
  PROVE  PassOK(AtError(c)) /\ Remembers(AtError(c), c)
<1> DEFINE d == [c EXCEPT !.evict = {}, !.work = {}, !.need = 0, !.cand = {}, !.port = Nothing]
<1>1. DOMAIN d = CtlFields /\ d.insts = c.insts /\ d.todo = c.todo
  BY DEF CtlFields
<1>2. AtError(c) = IF c.fn = Nothing THEN AtReap(d) ELSE AtNext(d)
  BY DEF AtError
<1> HIDE DEF d
<1>3. QED
  BY <1>1, <1>2, ReapOK, NextOK DEF Remembers

\* Where filling the pool up to MinWarm leads.
LEMMA FillOK ==
  ASSUME NEW c, DOMAIN c = CtlFields, c.fn \in Fns, c.todo \subseteq Fns, NEW d \in AtFill(c)
  PROVE  PassOK(d) /\ Remembers(d, c)
<1>1. CASE c.need > 0
  BY <1>1 DEF AtFill, PassOK, Remembers, CtlFields
<1>2. CASE ~(c.need > 0)
  <2>1. PICK s \in Evictable(c, c.fn) : d = AtMark([c EXCEPT !.evict = s])
    BY <1>2 DEF AtFill
  <2> DEFINE m == [c EXCEPT !.evict = s]
  <2>2. /\ DOMAIN m = CtlFields /\ m.insts = c.insts /\ m.fn \in Fns /\ m.todo \subseteq Fns
        /\ d = AtMark(m)
    BY <2>1 DEF CtlFields
  <2> HIDE DEF m
  <2>3. QED
    BY <2>2, MarkOK DEF Remembers
<1>3. QED
  BY <1>1, <1>2

\* Where syncing the phases leads.
LEMMA SyncOK ==
  ASSUME NEW c, DOMAIN c = CtlFields, c.fn \in Fns, c.todo \subseteq Fns,
         c.work \subseteq {i \in Slots : Listed(c, i)}, NEW d \in AtSync(c)
  PROVE  PassOK(d) /\ Remembers(d, c)
<1>1. CASE c.work # {}
  BY <1>1 DEF AtSync, PassOK, Remembers, CtlFields, Listed
<1>2. CASE c.work = {}
  <2> DEFINE m == [c EXCEPT !.need = Missing(c, c.fn)]
  <2>1. /\ DOMAIN m = CtlFields /\ m.insts = c.insts /\ m.fn \in Fns /\ m.todo \subseteq Fns
    BY DEF CtlFields
  <2>2. d \in AtFill(m)
    BY <1>2 DEF AtSync
  <2> HIDE DEF m
  <2>3. QED
    BY <2>1, <2>2, FillOK DEF Remembers
<1>3. QED
  BY <1>1, <1>2

-----------------------------------------------------------------------------
\* What a step of the controller does to its pass: it remembers nothing new, or
\* lists the instances as they are.
PassStep == PassOK(ctl') /\ (Remembers(ctl', ctl) \/ (ctl'.insts = insts /\ UNCHANGED insts))

\* The listings, the orphaned computes and the instances to finalize.
LEMMA PassListing ==
  ASSUME PoolInv, CtlListFunctions \/ CtlListInstances \/ CtlListComputes \/ CtlRetire
  PROVE  PassStep
<1> USE DEF PoolInv, PoolTyped
<1>0. DOMAIN ctl = CtlFields
  BY DEF PassOK
<1>1. CASE CtlListFunctions
  BY <1>0, <1>1 DEF CtlListFunctions, PassStep, PassOK, Remembers, CtlFields
<1>2. CASE CtlListInstances
  BY <1>0, <1>2 DEF CtlListInstances, PassStep, PassOK, CtlFields
<1>3. CASE CtlListComputes
  <2> DEFINE c == [ctl EXCEPT !.cps = cps]
             d == [c EXCEPT !.todo = Orphans(c)]
  <2>1. DOMAIN d = CtlFields /\ d.insts = ctl.insts /\ ctl' = AtRetire(d)
    BY <1>0, <1>3 DEF CtlListComputes, CtlFields
  <2> HIDE DEF d
  <2>2. QED
    BY <2>1, RetireOK DEF PassStep, Remembers
<1>4. CASE CtlRetire
  <2> DEFINE d == [ctl EXCEPT !.todo = @ \ {First(ctl.todo)}]
  <2>1. DOMAIN d = CtlFields /\ d.insts = ctl.insts /\ ctl' = AtRetire(d)
    BY <1>0, <1>4 DEF CtlRetire, CtlFields
  <2> HIDE DEF d
  <2>2. QED
    BY <2>1, RetireOK DEF PassStep, Remembers
<1>5. QED
  BY <1>1, <1>2, <1>3, <1>4

\* The finalization of an instance.
LEMMA PassFinalize ==
  ASSUME PoolInv, CtlFinalize \/ CtlRemove
  PROVE  PassStep
<1> USE DEF PoolInv, PoolTyped
<1>0. /\ DOMAIN ctl = CtlFields
      /\ ctl.todo # {} /\ ctl.todo \subseteq Deleting(ctl)
  BY DEF PassOK, CtlFinalize, CtlRemove
<1> DEFINE d == [ctl EXCEPT !.todo = @ \ {First(ctl.todo)}]
<1>1. DOMAIN d = CtlFields /\ d.insts = ctl.insts /\ d.todo \subseteq Deleting(d)
  BY <1>0 DEF CtlFields, Deleting
<1>2. CASE ctl' = AtFinal(d)
  <2> HIDE DEF d
  <2>1. QED
    BY <1>1, <1>2, FinalOK DEF PassStep, Remembers
<1>3. CASE ctl' = [ctl EXCEPT !.pc = "remove"]
  BY <1>0, <1>3 DEF PassStep, PassOK, Remembers, CtlFields, Deleting
<1>4. QED
  BY <1>2, <1>3 DEF CtlFinalize, CtlRemove

\* The ends of a function's turn.
LEMMA PassFunction ==
  ASSUME PoolInv, CtlDropFunction \/ CtlPutFunction \/ CtlDeps
  PROVE  PassStep
<1> USE DEF PoolInv, PoolTyped
<1>0. DOMAIN ctl = CtlFields /\ ctl.fn \in Fns /\ ctl.todo \subseteq Fns
  BY DEF PassOK, CtlDropFunction, CtlPutFunction, CtlDeps
<1>1. CASE ctl' = AtNext(ctl)
  BY <1>0, <1>1, NextOK DEF PassStep
<1>2. CASE ctl' \in AtSync([ctl EXCEPT !.work = OutOfSync(ctl, ctl.fn)])
  <2> DEFINE d == [ctl EXCEPT !.work = OutOfSync(ctl, ctl.fn)]
  <2>1. /\ DOMAIN d = CtlFields /\ d.insts = ctl.insts /\ d.fn \in Fns
        /\ d.todo \subseteq Fns /\ d.work \subseteq {i \in Slots : Listed(d, i)}
    BY <1>0 DEF CtlFields, OutOfSync, Of, Listed
  <2>2. ctl' \in AtSync(d)
    BY <1>2
  <2> HIDE DEF d
  <2>3. QED
    BY <2>1, <2>2, SyncOK DEF PassStep, Remembers
<1>3. QED
  BY <1>1, <1>2 DEF CtlDropFunction, CtlPutFunction, CtlDeps

\* Syncing and filling.
LEMMA PassFill ==
  ASSUME PoolInv, CtlSync \/ CtlPorts \/ CtlPutCompute \/ CtlPutInstance
  PROVE  PassStep
<1> USE DEF PoolInv, PoolTyped
<1>0. DOMAIN ctl = CtlFields /\ ctl.fn \in Fns /\ ctl.todo \subseteq Fns
  BY DEF PassOK, CtlSync, CtlPorts, CtlPutCompute, CtlPutInstance
<1>1. CASE ctl' = AtError(ctl)
  BY <1>0, <1>1, ErrorOK DEF PassStep
<1>2. CASE CtlSync /\ ctl' # AtError(ctl)
  <2> DEFINE d == [ctl EXCEPT !.work = @ \ {First(ctl.work)}]
  <2>1. ctl.work \subseteq {i \in Slots : Listed(ctl, i)}
    BY <1>2 DEF CtlSync, PassOK
  <2>2. /\ DOMAIN d = CtlFields /\ d.insts = ctl.insts /\ d.fn \in Fns
        /\ d.todo \subseteq Fns /\ d.work \subseteq {i \in Slots : Listed(d, i)}
    BY <1>0, <2>1 DEF CtlFields, Listed
  <2>3. ctl' \in AtSync(d)
    BY <1>2 DEF CtlSync
  <2> HIDE DEF d
  <2>4. QED
    BY <2>2, <2>3, SyncOK DEF PassStep, Remembers
<1>3. CASE CtlPorts /\ ctl' # AtError(ctl)
  <2>1. UsedPorts \subseteq Ports /\ UsedPorts # Ports
    BY <1>3 DEF CtlPorts, UsedPorts
  <2>2. ctl' = [ctl EXCEPT !.pc = "putcp", !.cand = Ports \ UsedPorts]
    BY <1>3 DEF CtlPorts
  <2>3. QED
    BY <1>0, <2>1, <2>2 DEF PassStep, PassOK, Remembers, CtlFields
<1>4. CASE CtlPutCompute /\ ctl' # AtError(ctl)
  <2>1. ctl.pc = "putcp" /\ ctl.cand # {} /\ ctl.cand \subseteq Ports
    BY <1>4 DEF CtlPutCompute, PassOK
  <2>2. First(ctl.cand) \in Ports
    BY <2>1, FirstIn
  <2>3. CASE ctl' = [ctl EXCEPT !.pc = "putinst", !.port = First(ctl.cand), !.cand = {}]
    BY <1>0, <2>2, <2>3 DEF PassStep, PassOK, Remembers, CtlFields
  <2>4. CASE ctl.cand # {First(ctl.cand)} /\ ctl' = [ctl EXCEPT !.cand = @ \ {First(ctl.cand)}]
    <3>1. /\ ctl.cand \ {First(ctl.cand)} # {}
          /\ ctl.cand \ {First(ctl.cand)} \subseteq Ports
      BY <2>1, <2>4
    <3>2. QED
      BY <1>0, <2>1, <2>4, <3>1 DEF PassStep, PassOK, Remembers, CtlFields
  <2>5. QED
    BY <1>4, <2>3, <2>4 DEF CtlPutCompute
<1>5. CASE CtlPutInstance /\ ctl' # AtError(ctl)
  <2> DEFINE d == [ctl EXCEPT !.need = @ - 1, !.port = Nothing]
  <2>1. /\ DOMAIN d = CtlFields /\ d.insts = ctl.insts /\ d.fn \in Fns
        /\ d.todo \subseteq Fns
    BY <1>0 DEF CtlFields
  <2>2. ctl' \in AtFill(d)
    BY <1>5 DEF CtlPutInstance
  <2> HIDE DEF d
  <2>3. QED
    BY <2>1, <2>2, FillOK DEF PassStep, Remembers
<1>6. QED
  BY <1>1, <1>2, <1>3, <1>4, <1>5

\* deleteInstance, and the end of a pass.
LEMMA PassEvict ==
  ASSUME PoolInv, CtlMark \/ CtlMarkLost \/ CtlGetCompute \/ CtlMarkCompute \/ CtlCrash
  PROVE  PassStep
<1> USE DEF PoolInv, PoolTyped
<1>0. DOMAIN ctl = CtlFields
  BY DEF PassOK
<1>1. CASE CtlCrash
  BY <1>1 DEF CtlCrash, IdleCtl, PassStep, PassOK, Remembers, CtlFields
<1>2. CASE ~CtlCrash
  <2>1. ctl.fn # Nothing => ctl.fn \in Fns /\ ctl.todo \subseteq Fns
    BY <1>2 DEF PassOK, CtlMark, CtlMarkLost, CtlGetCompute, CtlMarkCompute
  <2>2. CASE ctl' = AtError(ctl)
    BY <1>0, <2>1, <2>2, ErrorOK DEF PassStep
  <2>3. CASE \E i : ctl' = [ctl EXCEPT !.pc = "getcp", !.port = ctl.insts[i].port]
    BY <1>0, <2>1, <2>3 DEF PassStep, PassOK, Remembers, CtlFields
  <2>4. CASE ctl' = [ctl EXCEPT !.pc = "markcp", !.cps[ctl.port] = cps[ctl.port]]
    BY <1>0, <2>1, <2>4 DEF PassStep, PassOK, Remembers, CtlFields
  <2>5. CASE \E i : ctl' = AtMark([ctl EXCEPT !.evict = @ \ {i}])
    <3>1. PICK i : ctl' = AtMark([ctl EXCEPT !.evict = @ \ {i}])
      BY <2>5
    <3> DEFINE d == [ctl EXCEPT !.evict = @ \ {i}]
    <3>2. /\ DOMAIN d = CtlFields /\ d.insts = ctl.insts /\ d.fn = ctl.fn
          /\ d.todo = ctl.todo /\ ctl' = AtMark(d)
      BY <1>0, <3>1 DEF CtlFields
    <3> HIDE DEF d
    <3>3. QED
      BY <2>1, <3>2, MarkOK DEF PassStep, Remembers
  <2>6. CASE ctl' = AtMark([ctl EXCEPT !.evict = @ \ {First(@)}, !.port = Nothing])
    <3> DEFINE d == [ctl EXCEPT !.evict = @ \ {First(@)}, !.port = Nothing]
    <3>2. /\ DOMAIN d = CtlFields /\ d.insts = ctl.insts /\ d.fn = ctl.fn
          /\ d.todo = ctl.todo /\ ctl' = AtMark(d)
      BY <1>0, <2>6 DEF CtlFields
    <3> HIDE DEF d
    <3>3. QED
      BY <2>1, <3>2, MarkOK DEF PassStep, Remembers
  <2>7. QED
    <3>1. CASE CtlMark
      BY <3>1, <2>2, <2>3, <2>5 DEF CtlMark
    <3>2. CASE CtlMarkLost
      BY <3>2, <2>2 DEF CtlMarkLost
    <3>3. CASE CtlGetCompute
      BY <3>3, <2>4, <2>6 DEF CtlGetCompute
    <3>4. CASE CtlMarkCompute
      BY <3>4, <2>2, <2>6 DEF CtlMarkCompute
    <3>5. QED
      BY <1>2, <3>1, <3>2, <3>3, <3>4
<1>3. QED
  BY <1>1, <1>2

-----------------------------------------------------------------------------
\* A step on one instance changes no other.
LEMMA OneChanges ==
  ASSUME PoolTyped, NEW i \in Slots, NEW e \in InstRecords \cup {Nothing},
         insts' = [insts EXCEPT ![i] = e]
  PROVE  /\ insts' \in [Slots -> InstRecords \cup {Nothing}]
         /\ insts'[i] = e
         /\ \A j \in Slots \ {i} : insts'[j] = insts[j]
  BY DEF PoolTyped

\* What a step of the controller may do to the records: those in use stay so,
\* and what it has listed does not come back unmarked.
KeepsUse ==
  /\ insts' \in [Slots -> InstRecords \cup {Nothing}]
  /\ \A i \in Slots : InUse(insts[i]) => InUse(insts'[i])
  /\ \A i \in Slots : ctl.insts[i] # Nothing /\ (insts[i] = Nothing \/ insts[i].del) =>
       insts'[i] = Nothing \/ insts'[i].del

\* CtlRemove: what is removed was listed as deleting.
LEMMA RemoveKeeps ==
  ASSUME PoolInv, CtlRemove
  PROVE  KeepsUse
<1> DEFINE i == First(ctl.todo)
<1>1. ctl.todo # {} /\ ctl.todo \subseteq Deleting(ctl)
  BY DEF PoolInv, PoolTyped, PassOK, CtlRemove
<1>2. i \in Deleting(ctl) /\ i \in Slots
  BY <1>1, FirstIn DEF Deleting
<1>3. ~InUse(insts[i])
  BY <1>2 DEF PoolInv, ListInv, InUse
<1>4. insts' = [insts EXCEPT ![i] = Nothing]
  BY DEF CtlRemove
<1> HIDE DEF i
<1>5. QED
  BY <1>2, <1>3, <1>4 DEF KeepsUse, PoolInv, PoolTyped, InUse

\* CtlSync: only the phase changes.
LEMMA SyncKeeps ==
  ASSUME PoolInv, CtlSync
  PROVE  KeepsUse
<1> DEFINE i == First(ctl.work)
<1>0. insts \in [Slots -> InstRecords \cup {Nothing}]
  BY DEF PoolInv, PoolTyped
<1>1. i \in Slots /\ ctl.insts[i] # Nothing
  <2>1. ctl.work # {} /\ ctl.work \subseteq {j \in Slots : Listed(ctl, j)}
    BY DEF PoolInv, PoolTyped, PassOK, CtlSync
  <2>2. QED
    BY <2>1, FirstIn DEF Listed
<1>2. CASE UNCHANGED insts
  BY <1>0, <1>2 DEF KeepsUse
<1>3. CASE insts[i] \in InstRecords /\ insts' = [insts EXCEPT ![i].phase = Tracked(ctl, i)]
  <2> DEFINE e == [insts[i] EXCEPT !.phase = Tracked(ctl, i)]
  <2>1. Tracked(ctl, i) \in {"Pending", "Reconciling", "Ready", "Error"}
    BY DEF Tracked
  <2>2. e \in InstRecords /\ e.state = insts[i].state /\ e.del = insts[i].del
    BY <1>3, <2>1, Zenon DEF InstRecords
  <2>3. insts' = [insts EXCEPT ![i] = e]
    BY <1>3
  <2> HIDE DEF e, i
  <2>4. QED
    BY <1>0, <1>1, <1>3, <2>2, <2>3 DEF KeepsUse, InUse
<1>4. QED
  BY <1>0, <1>1, <1>2, <1>3 DEF CtlSync

\* CtlPutInstance: a new instance has a name nobody uses.
LEMMA FillKeeps ==
  ASSUME PoolInv, CtlPutInstance
  PROVE  KeepsUse
<1>0. insts \in [Slots -> InstRecords \cup {Nothing}]
  BY DEF PoolInv, PoolTyped
<1>1. CASE UNCHANGED insts
  BY <1>0, <1>1 DEF KeepsUse
<1>2. ASSUME NEW i \in FreshSlots, insts' = [insts EXCEPT ![i] = NewInst(ctl.fn, ctl.port, "Warm")]
      PROVE  KeepsUse
  <2>1. ctl.fn \in Fns /\ ctl.port \in Ports
    BY DEF PoolInv, PoolTyped, PassOK, CtlPutInstance
  <2>2. NewInst(ctl.fn, ctl.port, "Warm") \in InstRecords
    BY <2>1 DEF NewInst, InstRecords
  <2>3. i \in Slots /\ insts[i] = Nothing /\ ctl.insts[i] = Nothing
    BY DEF FreshSlots
  <2>4. QED
    BY <1>0, <1>2, <2>2, <2>3 DEF KeepsUse, InUse
<1>3. QED
  BY <1>1, <1>2 DEF CtlPutInstance

\* CtlMark: what is in use is not marked.
LEMMA MarkKeeps ==
  ASSUME PoolInv, CtlMark
  PROVE  KeepsUse
<1> DEFINE i == First(ctl.evict)
<1>0. insts \in [Slots -> InstRecords \cup {Nothing}]
  BY DEF PoolInv, PoolTyped
<1>1. CASE UNCHANGED insts
  BY <1>0, <1>1 DEF KeepsUse
<1>2. CASE i \notin Slots /\ insts' = [insts EXCEPT ![i].del = TRUE]
  BY <1>0, <1>2 DEF KeepsUse
<1>3. CASE i \in Slots /\ insts[i] # Nothing /\ ~Busy(insts[i]) /\ insts' = [insts EXCEPT ![i].del = TRUE]
  <2> DEFINE e == [insts[i] EXCEPT !.del = TRUE]
  <2>1. insts[i] \in InstRecords
    BY <1>0, <1>3
  <2>2. e \in InstRecords /\ e.del = TRUE
    BY <2>1, Zenon DEF InstRecords
  <2>3. insts' = [insts EXCEPT ![i] = e]
    BY <1>3
  <2>4. ~InUse(insts[i])
    BY <1>3 DEF InUse, Busy
  <2> HIDE DEF e, i
  <2>5. QED
    BY <1>0, <1>3, <2>2, <2>3, <2>4 DEF KeepsUse, InUse
<1>4. QED
  BY <1>1, <1>2, <1>3 DEF CtlMark

\* A step of the controller preserves the invariant.
LEMMA ControllerStep ==
  ASSUME PoolInv, CtlStep \/ CtlCrash
  PROVE  PoolInv'
<1>1. PassStep
  BY PassListing, PassFinalize, PassFunction, PassFill, PassEvict DEF CtlStep
<1>2. inv' = inv
  BY DEF CtlStep, CtlCrash, CtlListFunctions, CtlListInstances, CtlListComputes, CtlRetire,
         CtlFinalize, CtlRemove, CtlDropFunction, CtlDeps, CtlSync, CtlPorts, CtlPutCompute,
         CtlPutInstance, CtlMark, CtlMarkLost, CtlGetCompute, CtlMarkCompute, CtlPutFunction
<1>3. KeepsUse
  <2>1. CASE UNCHANGED insts
    BY <2>1 DEF KeepsUse, PoolInv, PoolTyped
  <2>2. CASE CtlRemove \/ CtlSync \/ CtlPutInstance \/ CtlMark
    BY <2>2, RemoveKeeps, SyncKeeps, FillKeeps, MarkKeeps
  <2>3. QED
    BY <2>1, <2>2 DEF CtlStep, CtlCrash, CtlListFunctions, CtlListInstances, CtlListComputes,
         CtlRetire, CtlFinalize, CtlDropFunction, CtlDeps, CtlPorts, CtlPutCompute,
         CtlMarkLost, CtlGetCompute, CtlMarkCompute, CtlPutFunction
<1>4. PoolTyped'
  BY <1>1, <1>2, <1>3 DEF PoolInv, PoolTyped, PassStep, KeepsUse
<1>5. HoldInv'
  <2>1. \A v \in Invs : Holds(v) => inv[v].cur \in Slots
    BY DEF PoolInv, PoolTyped, InvOK, Holds
  <2>2. QED
    BY <1>2, <1>3, <2>1 DEF PoolInv, HoldInv, Holds, KeepsUse
<1>6. ListInv'
  <2>1. CASE Remembers(ctl', ctl)
    BY <1>3, <2>1 DEF PoolInv, ListInv, Deleting, Remembers, KeepsUse
  <2>2. CASE ctl'.insts = insts /\ UNCHANGED insts
    BY <2>2 DEF ListInv, Deleting
  <2>3. QED
    BY <1>1, <2>1, <2>2 DEF PassStep
<1>7. QED
  BY <1>4, <1>5, <1>6 DEF PoolInv

-----------------------------------------------------------------------------
\* Where an invocation has an instance.
Holding == {"wait", "giveup", "forward"}

\* What a step of invocation v may do to the records: those others use stay in
\* use, and what the controller has listed does not come back unmarked.
OthersKeep(v) ==
  /\ insts' \in [Slots -> InstRecords \cup {Nothing}]
  /\ \A i \in Slots : InUse(insts[i]) => InUse(insts'[i]) \/ (Holds(v) /\ i = inv[v].cur)
  /\ \A i \in Slots : ctl.insts[i] # Nothing /\ (insts[i] = Nothing \/ insts[i].del) =>
       insts'[i] = Nothing \/ insts'[i].del

\* v becomes r, and has its instance for itself if it has one.
Alone(v, r) ==
  /\ InvOK(r)
  /\ r.pc \in Holding =>
       InUse(insts'[r.cur]) /\ \A w \in Invs \ {v} : Holds(w) => inv[w].cur # r.cur

\* A step of an invocation preserves the invariant.
LEMMA OneInvocation ==
  ASSUME PoolInv, NEW v \in Invs, NEW r, inv' = [inv EXCEPT ![v] = r], ctl' = ctl,
         OthersKeep(v), Alone(v, r)
  PROVE  PoolInv'
<1>0. /\ inv'[v] = r /\ \A w \in Invs \ {v} : inv'[w] = inv[w]
      /\ DOMAIN inv' = Invs
  BY DEF PoolInv, PoolTyped
<1>1. PoolTyped'
  BY <1>0 DEF PoolInv, PoolTyped, OthersKeep, Alone
<1>2. HoldInv'
  <2>1. ASSUME NEW w \in Invs, Holds(w)'
        PROVE  InUse(insts'[inv'[w].cur])
    <3>1. CASE w = v
      BY <1>0, <2>1, <3>1 DEF Holds, Holding, Alone
    <3>2. CASE w # v
      <4>1. Holds(w) /\ inv[w].cur \in Slots /\ inv'[w] = inv[w]
        BY <1>0, <2>1, <3>2 DEF Holds, PoolInv, PoolTyped, InvOK
      <4>2. InUse(insts[inv[w].cur])
        BY <4>1 DEF PoolInv, HoldInv
      <4>3. ~(Holds(v) /\ inv[w].cur = inv[v].cur)
        BY <3>2, <4>1 DEF PoolInv, HoldInv
      <4>4. QED
        BY <4>1, <4>2, <4>3 DEF OthersKeep
    <3>3. QED
      BY <3>1, <3>2
  <2>2. ASSUME NEW w \in Invs, NEW x \in Invs, Holds(w)', Holds(x)', inv'[w].cur = inv'[x].cur
        PROVE  w = x
    <3>1. CASE w # v /\ x # v
      BY <1>0, <2>2, <3>1 DEF Holds, PoolInv, HoldInv
    <3>2. CASE w = v /\ x # v
      BY <1>0, <2>2, <3>2 DEF Holds, Holding, Alone
    <3>3. CASE w # v /\ x = v
      BY <1>0, <2>2, <3>3 DEF Holds, Holding, Alone
    <3>4. QED
      BY <3>1, <3>2, <3>3
  <2>3. QED
    BY <2>1, <2>2 DEF HoldInv
<1>3. ListInv'
  BY DEF PoolInv, ListInv, Deleting, OthersKeep
<1>4. QED
  BY <1>1, <1>2, <1>3 DEF PoolInv

\* With no candidate an invocation ends or starts an instance itself.
LEMMA ClaimOK ==
  ASSUME NEW c, DOMAIN c = InvFields, DOMAIN c.work \subseteq Slots, c.fn \in Fns
  PROVE  InvOK(AtClaim(c)) /\ AtClaim(c).pc \notin Holding
<1>1. CASE DOMAIN c.work # {}
  BY <1>1 DEF AtClaim, InvOK, InvFields, Holding
<1>2. CASE DOMAIN c.work = {}
  BY <1>2 DEF AtClaim, InvOK, InvFields, Holding, IdleInv, EndInv
<1>3. QED
  BY <1>1, <1>2

\* Steps that leave the records alone and give up or have no instance.
LEMMA QuietInvocation ==
  ASSUME PoolInv, NEW v \in Invs, NEW r, inv' = [inv EXCEPT ![v] = r], ctl' = ctl,
         insts' = insts, InvOK(r), r.pc \notin Holding
  PROVE  PoolInv'
<1>1. OthersKeep(v) /\ Alone(v, r)
  BY DEF OthersKeep, Alone, PoolInv, PoolTyped
<1>2. QED
  BY <1>1, OneInvocation

\* An invocation that is over.
LEMMA EndOK == InvOK(EndInv) /\ EndInv.pc \notin Holding
  BY DEF InvOK, EndInv, IdleInv, Holding, InvFields

\* Invoke up to the swap: the listing and the check of a candidate.
LEMMA LookingStep ==
  ASSUME PoolInv, NEW v \in Invs, (\E f \in Fns : InvStart(v, f)) \/ InvList(v) \/ InvCheck(v)
  PROVE  PoolInv'
<1>0. InvOK(inv[v])
  BY DEF PoolInv, PoolTyped
<1>1. ASSUME NEW f \in Fns, InvStart(v, f)
      PROVE  PoolInv'
  <2> DEFINE r == [IdleInv EXCEPT !.pc = "list", !.fn = f]
  <2>1. InvOK(r) /\ r.pc \notin Holding
    BY DEF InvOK, IdleInv, InvFields, Holding
  <2>2. inv' = [inv EXCEPT ![v] = r] /\ ctl' = ctl /\ insts' = insts
    BY <1>1 DEF InvStart, InvSet
  <2> HIDE DEF r
  <2>3. QED
    BY <2>1, <2>2, QuietInvocation
<1>2. CASE InvList(v)
  <2> DEFINE w == [i \in {j \in Slots : /\ insts[j] # Nothing
                                        /\ insts[j].fn = inv[v].fn
                                        /\ ~insts[j].del
                                        /\ insts[j].state = "Warm"} |-> insts[i].port]
             c == [inv[v] EXCEPT !.work = w]
             r == AtClaim(c)
  <2>1. inv' = [inv EXCEPT ![v] = r] /\ ctl' = ctl /\ insts' = insts
    BY <1>2 DEF InvList, InvSet
  <2>2. DOMAIN w \subseteq Slots
    OBVIOUS
  <2>3. inv[v].fn \in Fns /\ DOMAIN inv[v] = InvFields
    BY <1>0, <1>2 DEF InvList, InvOK
  <2> HIDE DEF w
  <2>4. DOMAIN c = InvFields /\ DOMAIN c.work \subseteq Slots /\ c.fn \in Fns
    BY <2>2, <2>3 DEF InvFields
  <2> HIDE DEF c
  <2>5. InvOK(r) /\ r.pc \notin Holding
    BY <2>4, ClaimOK
  <2> HIDE DEF r
  <2>6. QED
    BY <2>1, <2>5, QuietInvocation
<1>3. CASE InvCheck(v)
  <2> DEFINE i == First(DOMAIN inv[v].work)
             w == [j \in DOMAIN inv[v].work \ {i} |-> inv[v].work[j]]
             c == [inv[v] EXCEPT !.work = w]
             t == [c EXCEPT !.pc = "swap", !.cur = i, !.port = inv[v].work[i]]
  <2>1. /\ inv[v].fn \in Fns /\ DOMAIN inv[v] = InvFields
        /\ DOMAIN inv[v].work # {} /\ DOMAIN inv[v].work \subseteq Slots
    BY <1>0, <1>3 DEF InvCheck, InvOK
  <2>2. i \in Slots /\ DOMAIN w \subseteq Slots
    BY <2>1, FirstIn
  <2>3. /\ inv' = [inv EXCEPT ![v] = AtClaim(c)] \/ inv' = [inv EXCEPT ![v] = t]
        /\ ctl' = ctl /\ insts' = insts
    BY <1>3 DEF InvCheck, InvSet
  <2> HIDE DEF i, w
  <2>4. DOMAIN c = InvFields /\ DOMAIN c.work \subseteq Slots /\ c.fn \in Fns
    BY <2>1, <2>2 DEF InvFields
  <2> HIDE DEF c
  <2>5. InvOK(AtClaim(c)) /\ AtClaim(c).pc \notin Holding
    BY <2>4, ClaimOK
  <2>6. InvOK(t) /\ t.pc \notin Holding
    BY <2>2, <2>4 DEF InvOK, InvFields, Holding
  <2> HIDE DEF t
  <2>7. QED
    BY <2>3, <2>5, <2>6, QuietInvocation
<1>4. QED
  BY <1>1, <1>2, <1>3

\* The swap: it only takes an instance that nobody has.
LEMMA ClaimStep ==
  ASSUME PoolInv, NEW v \in Invs, InvClaim(v)
  PROVE  PoolInv'
<1> DEFINE i == inv[v].cur
<1>0. /\ InvOK(inv[v]) /\ inv[v].pc = "swap" /\ i \in Slots /\ ctl' = ctl
      /\ insts \in [Slots -> InstRecords \cup {Nothing}]
  BY DEF PoolInv, PoolTyped, InvOK, InvClaim
<1>1. CASE inv' = [inv EXCEPT ![v] = EndInv] /\ insts' = insts
  BY <1>0, <1>1, EndOK, QuietInvocation
<1>2. CASE inv' = [inv EXCEPT ![v] = AtClaim(inv[v])] /\ insts' = insts
  <2>1. InvOK(AtClaim(inv[v])) /\ AtClaim(inv[v]).pc \notin Holding
    BY <1>0, ClaimOK DEF InvOK
  <2>2. QED
    BY <1>0, <1>2, <2>1, QuietInvocation
<1>3. CASE /\ Claimable(insts[i]) /\ insts' = [insts EXCEPT ![i].state = "Assigned"]
           /\ inv' = [inv EXCEPT ![v] = [inv[v] EXCEPT !.pc = "forward", !.work = <<>>]]
  <2> DEFINE e == [insts[i] EXCEPT !.state = "Assigned"]
             r == [inv[v] EXCEPT !.pc = "forward", !.work = <<>>]
  <2>1. insts[i] \in InstRecords /\ insts[i].state = "Warm" /\ ~insts[i].del
    BY <1>0, <1>3 DEF Claimable
  <2>2. e \in InstRecords /\ e.state = "Assigned" /\ e.del = insts[i].del
    BY <2>1, Zenon DEF InstRecords
  <2>3. insts' = [insts EXCEPT ![i] = e] /\ inv' = [inv EXCEPT ![v] = r]
    BY <1>3
  <2>4. InvOK(r) /\ r.cur = i
    BY <1>0 DEF InvOK, InvFields
  <2>5. ~InUse(insts[i])
    BY <2>1 DEF InUse
  <2>6. \A w \in Invs : Holds(w) => inv[w].cur # i
    BY <2>5 DEF PoolInv, HoldInv
  <2> HIDE DEF e, r, i
  <2>7. insts'[i] = e /\ \A j \in Slots \ {i} : insts'[j] = insts[j]
    BY <1>0, <2>3
  <2>8. InUse(insts'[i])
    BY <2>1, <2>2, <2>7 DEF InUse
  <2>9. OthersKeep(v)
    BY <1>0, <2>1, <2>2, <2>3, <2>7, <2>8 DEF OthersKeep
  <2>10. Alone(v, r)
    BY <2>4, <2>6, <2>8 DEF Alone
  <2>11. QED
    BY <1>0, <2>3, <2>9, <2>10, OneInvocation
<1>4. QED
  BY <1>1, <1>2, <1>3 DEF InvClaim, InvSet

\* A cold start up to its compute, and the ends without an instance.
LEMMA ColdStep ==
  ASSUME PoolInv, NEW v \in Invs, InvCold(v) \/ InvPutCompute(v) \/ InvRetire(v) \/ InvCrash(v)
  PROVE  PoolInv'
<1>0. InvOK(inv[v]) /\ ctl' = ctl /\ insts' = insts
  BY DEF PoolInv, PoolTyped, InvCold, InvPutCompute, InvRetire, InvCrash
<1>1. CASE inv' = [inv EXCEPT ![v] = EndInv]
  BY <1>0, <1>1, EndOK, QuietInvocation
<1>2. CASE InvCold(v) /\ inv' # [inv EXCEPT ![v] = EndInv]
  <2> DEFINE r == [inv[v] EXCEPT !.pc = "putcp", !.cand = Ports \ UsedPorts]
  <2>1. UsedPorts \subseteq Ports /\ UsedPorts # Ports
    BY <1>2 DEF InvCold, InvSet, UsedPorts
  <2>2. inv' = [inv EXCEPT ![v] = r]
    BY <1>2 DEF InvCold, InvSet
  <2>3. inv[v].fn \in Fns
    BY <1>0, <1>2 DEF InvOK, InvCold
  <2>4. InvOK(r) /\ r.pc \notin Holding
    BY <1>0, <2>1, <2>3 DEF InvOK, InvFields, Holding
  <2> HIDE DEF r
  <2>5. QED
    BY <1>0, <2>2, <2>4, QuietInvocation
<1>3. CASE InvPutCompute(v) /\ inv' # [inv EXCEPT ![v] = EndInv]
  <2> DEFINE p == First(inv[v].cand)
             r == [inv[v] EXCEPT !.pc = "putinst", !.port = p, !.cand = {}]
             t == [inv[v] EXCEPT !.cand = @ \ {p}]
  <2>1. /\ inv[v].fn \in Fns /\ inv[v].pc = "putcp"
        /\ inv[v].cand # {} /\ inv[v].cand \subseteq Ports
    BY <1>0, <1>3 DEF InvOK, InvPutCompute
  <2>2. p \in Ports
    BY <2>1, FirstIn
  <2>3. \/ inv' = [inv EXCEPT ![v] = r]
        \/ inv[v].cand # {p} /\ inv' = [inv EXCEPT ![v] = t]
    BY <1>3 DEF InvPutCompute, InvSet
  <2>4. InvOK(r) /\ r.pc \notin Holding
    BY <1>0, <2>1, <2>2 DEF InvOK, InvFields, Holding
  <2>5. inv[v].cand # {p} => inv[v].cand \ {p} # {}
    BY <2>1
  <2>6. inv[v].cand # {p} => InvOK(t) /\ t.pc \notin Holding
    BY <1>0, <2>1, <2>5 DEF InvOK, InvFields, Holding
  <2> HIDE DEF r, t
  <2>7. QED
    BY <1>0, <2>3, <2>4, <2>6, QuietInvocation
<1>4. QED
  BY <1>1, <1>2, <1>3 DEF InvRetire, InvCrash, InvSet

\* A cold start's instance has a name nobody uses.
LEMMA ColdInstance ==
  ASSUME PoolInv, NEW v \in Invs, InvPutInstance(v)
  PROVE  PoolInv'
<1>0. /\ InvOK(inv[v]) /\ inv[v].fn \in Fns /\ inv[v].port \in Ports /\ ctl' = ctl
      /\ ~Holds(v) /\ insts \in [Slots -> InstRecords \cup {Nothing}]
  BY DEF PoolInv, PoolTyped, InvOK, InvPutInstance, Holds
<1>1. CASE inv' = [inv EXCEPT ![v] = EndInv] /\ insts' = insts
  BY <1>0, <1>1, EndOK, QuietInvocation
<1>2. ASSUME NEW i \in FreshSlots,
             insts' = [insts EXCEPT ![i] = NewInst(inv[v].fn, inv[v].port, "Assigned")],
             inv' = [inv EXCEPT ![v] = [inv[v] EXCEPT !.pc = "wait", !.cur = i]]
      PROVE  PoolInv'
  <2> DEFINE e == NewInst(inv[v].fn, inv[v].port, "Assigned")
             r == [inv[v] EXCEPT !.pc = "wait", !.cur = i]
  <2>1. e \in InstRecords /\ e.state = "Assigned" /\ ~e.del
    BY <1>0 DEF NewInst, InstRecords
  <2>2. /\ i \in Slots /\ insts[i] = Nothing /\ ctl.insts[i] = Nothing
        /\ \A w \in Invs : inv[w].cur # i
    BY DEF FreshSlots
  <2>3. InvOK(r) /\ r.cur = i
    BY <1>0, <2>2 DEF InvOK, InvFields
  <2>4. insts' = [insts EXCEPT ![i] = e] /\ inv' = [inv EXCEPT ![v] = r]
    BY <1>2
  <2> HIDE DEF e, r
  <2>5. insts'[i] = e /\ \A j \in Slots \ {i} : insts'[j] = insts[j]
    BY <1>0, <2>2, <2>4
  <2>6. InUse(insts'[i])
    BY <2>1, <2>5 DEF InUse
  <2>7. OthersKeep(v)
    BY <1>0, <2>1, <2>2, <2>4, <2>5, <2>6 DEF OthersKeep
  <2>8. Alone(v, r)
    BY <2>2, <2>3, <2>6 DEF Alone
  <2>9. QED
    BY <1>0, <2>4, <2>7, <2>8, OneInvocation
<1>3. QED
  BY <1>1, <1>2 DEF InvPutInstance, InvSet

\* While an invocation waits or tries again it keeps its instance.
LEMMA KeepingStep ==
  ASSUME PoolInv, NEW v \in Invs, NEW r, inv' = [inv EXCEPT ![v] = r], ctl' = ctl,
         insts' = insts, Holds(v), InvOK(r), r.cur = inv[v].cur
  PROVE  PoolInv'
<1>1. OthersKeep(v)
  BY DEF OthersKeep, PoolInv, PoolTyped
<1>2. Alone(v, r)
  BY DEF Alone, PoolInv, HoldInv
<1>3. QED
  BY <1>1, <1>2, OneInvocation

\* Giving an instance back changes no other.
LEMMA GivingStep ==
  ASSUME PoolInv, NEW v \in Invs, NEW r, inv' = [inv EXCEPT ![v] = r], ctl' = ctl,
         Holds(v), InvOK(r), r.pc \notin Holding, NEW e \in InstRecords,
         insts' = [insts EXCEPT ![inv[v].cur] = e]
  PROVE  PoolInv'
<1> DEFINE i == inv[v].cur
<1>1. i \in Slots /\ InUse(insts[i]) /\ insts \in [Slots -> InstRecords \cup {Nothing}]
  BY DEF PoolInv, PoolTyped, InvOK, HoldInv, Holds
<1>2. insts'[i] = e /\ \A j \in Slots \ {i} : insts'[j] = insts[j]
  BY <1>1
<1>3. insts' \in [Slots -> InstRecords \cup {Nothing}]
  BY <1>1
<1>4. OthersKeep(v)
  BY <1>1, <1>2, <1>3 DEF OthersKeep, InUse
<1>5. Alone(v, r)
  BY DEF Alone
<1>6. QED
  BY <1>4, <1>5, OneInvocation

\* waitReady, the failed cold start and the release.
LEMMA UsingStep ==
  ASSUME PoolInv, NEW v \in Invs, InvWait(v) \/ InvGiveUp(v) \/ InvRelease(v)
  PROVE  PoolInv'
<1> DEFINE i == inv[v].cur
<1>0. InvOK(inv[v]) /\ ctl' = ctl /\ Holds(v)
  BY DEF PoolInv, PoolTyped, InvWait, InvGiveUp, InvRelease, Holds
<1>1. /\ i \in Slots /\ insts[i] # Nothing /\ insts[i] \in InstRecords
      /\ DOMAIN inv[v] = InvFields
  BY <1>0 DEF PoolInv, PoolTyped, HoldInv, InUse, Holds, InvOK
<1>2. CASE InvWait(v)
  <2>1. \E q \in {"forward", "giveup"} : inv' = [inv EXCEPT ![v] = [inv[v] EXCEPT !.pc = q]]
    BY <1>2 DEF InvWait, InvSet
  <2>2. PICK q \in {"forward", "giveup"} : inv' = [inv EXCEPT ![v] = [inv[v] EXCEPT !.pc = q]]
    BY <2>1
  <2> DEFINE r == [inv[v] EXCEPT !.pc = q]
  <2>3. inv' = [inv EXCEPT ![v] = r] /\ insts' = insts
    BY <1>2, <2>2 DEF InvWait
  <2>4. InvOK(r) /\ r.cur = i
    BY <1>1 DEF InvOK, InvFields
  <2> HIDE DEF r
  <2>5. QED
    BY <1>0, <2>3, <2>4, KeepingStep
<1>3. CASE InvGiveUp(v)
  <2> DEFINE e == [insts[i] EXCEPT !.del = TRUE, !.state = "Warm"]
             r == [inv[v] EXCEPT !.pc = "retire"]
  <2>1. e \in InstRecords
    BY <1>1, Zenon DEF InstRecords
  <2>2. insts' = [insts EXCEPT ![i] = e] /\ inv' = [inv EXCEPT ![v] = r]
    BY <1>1, <1>3 DEF InvGiveUp, InvSet
  <2>3. InvOK(r) /\ r.pc \notin Holding
    BY <1>1 DEF InvOK, InvFields, Holding
  <2> HIDE DEF e, r
  <2>4. QED
    BY <1>0, <2>1, <2>2, <2>3, GivingStep
<1>4. CASE InvRelease(v) /\ insts' # insts
  <2> DEFINE e == [insts[i] EXCEPT !.state = "Warm"]
  <2>1. e \in InstRecords
    BY <1>1, Zenon DEF InstRecords
  <2>2. insts' = [insts EXCEPT ![i] = e] /\ inv' = [inv EXCEPT ![v] = EndInv]
    BY <1>1, <1>4 DEF InvRelease, InvSet
  <2> HIDE DEF e
  <2>3. QED
    BY <1>0, <2>1, <2>2, EndOK, GivingStep
<1>5. CASE InvRelease(v) /\ insts' = insts
  <2> DEFINE t == [inv[v] EXCEPT !.tries = @ + 1]
  <2>1. inv' = [inv EXCEPT ![v] = EndInv] \/ inv' = [inv EXCEPT ![v] = t]
    BY <1>5 DEF InvRelease, InvSet
  <2>2. InvOK(t) /\ t.cur = i
    BY <1>0, <1>1 DEF InvOK, InvFields
  <2> HIDE DEF t
  <2>3. QED
    BY <1>0, <1>5, <2>1, <2>2, EndOK, KeepingStep, QuietInvocation
<1>6. QED
  BY <1>2, <1>3, <1>4, <1>5

-----------------------------------------------------------------------------
\* Initially nothing is held.
LEMMA PoolInit == FpInit => PoolInv
<1> SUFFICES ASSUME FpInit PROVE PoolInv
  OBVIOUS
<1>1. PassOK(IdleCtl) /\ InvOK(IdleInv) /\ IdleInv.pc = "idle"
  BY DEF PassOK, IdleCtl, CtlFields, InvOK, IdleInv, InvFields
<1>2. \A i \in Slots : IdleCtl.insts[i] = Nothing
  BY DEF IdleCtl
<1>3. QED
  BY <1>1, <1>2 DEF FpInit, PoolInv, PoolTyped, HoldInv, Holds, ListInv, Deleting

\* Every step preserves the invariant.
LEMMA PoolStep == PoolInv /\ [FpNext]_fpVars => PoolInv'
<1> SUFFICES ASSUME PoolInv, [FpNext]_fpVars PROVE PoolInv'
  OBVIOUS
<1>1. CASE UNCHANGED <<insts, ctl, inv>>
  BY <1>1 DEF PoolInv, PoolTyped, HoldInv, Holds, ListInv, Deleting
<1>2. CASE CtlStep \/ CtlCrash
  BY <1>2, ControllerStep
<1>3. ASSUME NEW v \in Invs, (\E f \in Fns : InvStart(v, f)) \/ InvStep(v) \/ InvCrash(v)
      PROVE  PoolInv'
  BY <1>3, LookingStep, ClaimStep, ColdStep, ColdInstance, UsingStep DEF InvStep
<1>4. QED
  BY <1>1, <1>2, <1>3 DEF FpNext, fpVars, CreateFunction, DeleteFunction, AgentReady,
     AgentError, AgentRemove, Age

\* What is claimed is claimed by one invocation and stays Assigned and unmarked,
\* through evictions, finalizations, cold starts, timeouts, lost releases and
\* crashes of infra-api or of the controller (function/invoke.go, acquire and
\* release; controllers/function.go, deleteInstance and finalizeInstance).
THEOREM InstancesAreClaimedAlone == FpSpec => []ClaimedAlone
<1>1. FpInit => PoolInv
  BY PoolInit
<1>2. PoolInv /\ [FpNext]_fpVars => PoolInv'
  BY PoolStep
<1>3. PoolInv => ClaimedAlone
  BY DEF PoolInv, HoldInv, Holds, InUse, ClaimedAlone, ExclusiveClaim, ClaimHolds, Using
<1>4. QED
  BY <1>1, <1>2, <1>3, PTL DEF FpSpec
=============================================================================
