------------------------------- MODULE Proxy -------------------------------
(***************************************************************************)
(* infra-lb around its target groups (lbproxy): the loop that loads its    *)
(* configuration file and writes its status (status.go), the listeners and *)
(* the groups a configuration becomes (proxy.go, listener.go), and what is *)
(* accepted on the sockets (l4.go, l7.go, egress.go) until a listener      *)
(* drains.                                                                 *)
(*                                                                         *)
(* Requests read the group map and the listeners' configurations through   *)
(* atomic pointers, without the lock Apply holds, so Apply takes a step    *)
(* for each pointer it swaps.                                              *)
(***************************************************************************)
EXTENDS Naturals, FiniteSets, Listing

CONSTANTS Contents,     \* what the file may hold: [valid, groups, listeners]
          AtStart,      \* what it may hold when infra-lb starts
          Names,        \* of listeners, numbered as the configuration lists them
          Slots,        \* listener objects that exist at a time
          Conns,        \* connections and requests at a time
          SilentBackends, \* whether a backend may keep a half-closed connection
          MaxEvents,    \* bound on what happens to the file and the addresses
          Unset         \* no content

VARIABLES file,     \* [at, stamp]: the configuration file
          loader,   \* Run and load
          groups,   \* Proxy.groups
          live,     \* Proxy.listeners: name -> slot, 0 for none
          slot,     \* slot -> listener
          conn,     \* connection -> where it is
          blocked,  \* the bind keys whose address cannot be bound now
          status,   \* the status file
          hup, stop, events

pxVars == <<file, loader, groups, live, slot, conn, blocked, status, hup, stop, events>>

Unused == [key |-> 0, kind |-> "http", group |-> 0, bound |-> FALSE, closed |-> FALSE, pc |-> "unused"]
NoConn == [pc |-> "none", at |-> 0, group |-> 0]
FirstLoad == [pc |-> "load", force |-> TRUE, poll |-> FALSE, seen |-> 0, raw |-> Unset,
              applied |-> Unset, cfg |-> Unset, err |-> "", todo |-> {}]

PxInit ==
  /\ \E c \in AtStart : file = [at |-> c, stamp |-> 1]
  /\ loader = FirstLoad
  /\ groups = {} /\ live = [n \in Names |-> 0]
  /\ slot = [i \in Slots |-> Unused]
  /\ conn = [c \in Conns |-> NoConn]
  /\ blocked = {} /\ status = [err |-> "", bound |-> {}]
  /\ hup = FALSE /\ stop = FALSE /\ events = 0

Event == events < MaxEvents /\ events' = events + 1
-----------------------------------------------------------------------------
(* Outside: the file, its signal, the addresses, the end *)

\* The agent writes the file by renaming over it; every write has its stamp.
WriteFile(c) ==
  /\ Event /\ c # file.at
  /\ file' = [at |-> c, stamp |-> file.stamp + 1]
  /\ \E h \in BOOLEAN : hup' = (hup \/ h)
  /\ UNCHANGED <<loader, groups, live, slot, conn, blocked, status, stop>>

Address(k) ==
  /\ Event
  /\ blocked' = IF k \in blocked THEN blocked \ {k} ELSE blocked \union {k}
  /\ UNCHANGED <<file, loader, groups, live, slot, conn, status, hup, stop>>

Terminate ==
  /\ ~stop /\ stop' = TRUE
  /\ UNCHANGED <<file, loader, groups, live, slot, conn, blocked, status, hup, events>>
-----------------------------------------------------------------------------
(* Run: one turn of the loop *)

\* load looks at the file: nothing to do, gone, or to be read.
Unchanged(l) == ~l.force /\ l.seen = file.stamp
Gone(l) ==
  [l EXCEPT !.pc = "end", !.seen = 0, !.err = IF l.seen # 0 \/ l.force THEN "stat" ELSE @]

Stat ==
  /\ loader.pc = "load"
  /\ loader' = IF file.at = Unset THEN Gone(loader)
               ELSE IF Unchanged(loader) THEN [loader EXCEPT !.pc = "end"]
               ELSE [loader EXCEPT !.pc = "read", !.seen = file.stamp]
  /\ UNCHANGED <<file, groups, live, slot, conn, blocked, status, hup, stop, events>>

\* Mutant: the sum of a rejected file is kept too, so that putting the running
\* configuration back leaves the error.
Loaded_Rejected(l, c) ==
  IF c = Unset THEN [l EXCEPT !.pc = "end", !.err = "read"]
  ELSE IF c = l.applied THEN [l EXCEPT !.pc = "end"]
  ELSE IF ~c.valid THEN [l EXCEPT !.pc = "end", !.err = "parse", !.applied = c]
  ELSE [l EXCEPT !.pc = "swap", !.raw = c]

\* The rest of load with what was read.
Loaded(l, c) ==
  IF c = Unset THEN [l EXCEPT !.pc = "end", !.err = "read"]
  ELSE IF c = l.applied THEN [l EXCEPT !.pc = "end", !.err = ""]
  ELSE IF ~c.valid THEN [l EXCEPT !.pc = "end", !.err = "parse"]
  ELSE [l EXCEPT !.pc = "swap", !.raw = c]

ReadFile ==
  /\ loader.pc = "read"
  /\ loader' = Loaded(loader, file.at)
  /\ UNCHANGED <<file, groups, live, slot, conn, blocked, status, hup, stop, events>>

\* Apply: the groups, then the listeners one by one, then the rest.
SwapGroups ==
  /\ loader.pc = "swap"
  /\ groups' = loader.raw.groups
  /\ loader' = [loader EXCEPT !.pc = "listeners", !.todo = DOMAIN loader.raw.listeners]
  /\ UNCHANGED <<file, live, slot, conn, blocked, status, hup, stop, events>>

\* bind
Bound(s) == IF s.closed THEN s ELSE [s EXCEPT !.bound = @ \/ s.key \notin blocked]

newListener(lc) ==
  Bound([Unused EXCEPT !.key = lc.key, !.kind = lc.kind, !.group = lc.group, !.pc = "running"])

Leave(s) == [s EXCEPT !.pc = "leaving"]

\* A listener that is new, or bound for something else than before.
Replaced(i, lc) ==
  LET new == First({j \in Slots : slot[j].pc = "unused"})
  IN /\ live' = [live EXCEPT ![First(loader.todo)] = new]
     /\ slot' = [j \in Slots |-> IF j = new THEN newListener(lc)
                                 ELSE IF j = i THEN Leave(slot[j]) ELSE slot[j]]

\* listener.update
Updated(s, lc) == [s EXCEPT !.group = lc.group]

ApplyListener ==
  /\ loader.pc = "listeners" /\ loader.todo # {}
  /\ LET n == First(loader.todo)
         lc == loader.raw.listeners[n]
         i == live[n]
     IN IF i # 0 /\ slot[i].key = lc.key
        THEN slot' = [slot EXCEPT ![i] = Updated(@, lc)] /\ UNCHANGED live
        ELSE (\E j \in Slots : slot[j].pc = "unused") /\ Replaced(i, lc)
  /\ loader' = [loader EXCEPT !.todo = @ \ {First(@)}]
  /\ UNCHANGED <<file, groups, conn, blocked, status, hup, stop, events>>

ApplyEnd ==
  /\ loader.pc = "listeners" /\ loader.todo = {}
  /\ LET gone == Names \ DOMAIN loader.raw.listeners
     IN /\ live' = [n \in Names |-> IF n \in gone THEN 0 ELSE live[n]]
        /\ slot' = [i \in Slots |-> IF \E n \in gone : live[n] = i THEN Leave(slot[i]) ELSE slot[i]]
  /\ loader' = [loader EXCEPT !.pc = "end", !.cfg = loader.raw, !.err = "", !.applied = loader.raw]
  /\ UNCHANGED <<file, groups, conn, blocked, status, hup, stop, events>>

RetryBinds == [i \in Slots |-> IF \E n \in Names : live[n] = i THEN Bound(slot[i]) ELSE slot[i]]

\* Status, as WriteStatus renames it into place
StatusNow(l, s) ==
  [err |-> l.err, bound |-> {n \in Names : live[n] # 0 /\ s[live[n]].bound}]

Settled(l) == [l EXCEPT !.pc = "select", !.raw = Unset, !.force = FALSE, !.poll = FALSE]

TurnEnds ==
  /\ loader.pc = "end"
  /\ slot' = IF loader.poll THEN RetryBinds ELSE slot
  /\ status' = StatusNow(loader, slot')
  /\ loader' = Settled(loader)
  /\ UNCHANGED <<file, groups, live, conn, blocked, hup, stop, events>>

\* The select, when the ticker or the signal is served
Tick ==
  /\ loader.pc = "select"
  /\ loader' = [loader EXCEPT !.pc = "load", !.poll = TRUE]
  /\ UNCHANGED <<file, groups, live, slot, conn, blocked, status, hup, stop, events>>

Hangup ==
  /\ loader.pc = "select" /\ hup /\ hup' = FALSE
  /\ loader' = [loader EXCEPT !.pc = "load", !.force = TRUE]
  /\ UNCHANGED <<file, groups, live, slot, conn, blocked, status, stop, events>>

\* Shutdown, up to the wait
Shutdown ==
  /\ loader.pc = "select" /\ stop
  /\ slot' = [i \in Slots |-> IF \E n \in Names : live[n] = i THEN Leave(slot[i]) ELSE slot[i]]
  /\ live' = [n \in Names |-> 0]
  /\ loader' = [loader EXCEPT !.pc = "wait"]
  /\ UNCHANGED <<file, groups, conn, blocked, status, hup, stop, events>>

AllClosed == \A i \in Slots : slot[i].pc = "unused"

Exit ==
  /\ loader.pc = "wait" /\ AllClosed
  /\ loader' = [loader EXCEPT !.pc = "exited"]
  /\ status' = StatusNow(loader, slot)
  /\ UNCHANGED <<file, groups, live, slot, conn, blocked, hup, stop, events>>
-----------------------------------------------------------------------------
(* listener.close, in its goroutine *)

On(i) == {c \in Conns : conn[c].pc # "none" /\ conn[c].at = i}
Http(i) == slot[i].kind # "tcp"

\* net/http does not count a hijacked connection among its own.
Counted(i) == {c \in On(i) : conn[c].pc # "tunnel"}

Cut(i) == Counted(i)

Close(i) ==
  /\ slot[i].pc = "leaving"
  /\ slot' = [slot EXCEPT ![i] = IF @.bound THEN [@ EXCEPT !.closed = TRUE, !.pc = "closed"] ELSE Unused]
  /\ UNCHANGED <<file, loader, groups, live, conn, blocked, status, hup, stop, events>>

CloseSocket(i) ==
  /\ slot[i].pc = "closed"
  /\ slot' = [slot EXCEPT ![i].pc = "draining", ![i].bound = FALSE]
  /\ UNCHANGED <<file, loader, groups, live, conn, blocked, status, hup, stop, events>>

\* Everything ended in time; after the cut a tcp listener still waits for it.
Drained(i) ==
  /\ slot[i].pc \in {"draining", "cut"} /\ Counted(i) = {}
  /\ slot' = [slot EXCEPT ![i] = Unused]
  /\ UNCHANGED <<file, loader, groups, live, conn, blocked, status, hup, stop, events>>

DrainTimeout(i) ==
  /\ slot[i].pc = "draining" /\ Counted(i) # {}
  /\ conn' = [c \in Conns |-> IF c \notin Cut(i) THEN conn[c]
                              ELSE IF Http(i) THEN NoConn
                              ELSE [conn[c] EXCEPT !.pc = IF @ = "served" THEN "cut" ELSE "over"]]
  /\ slot' = [slot EXCEPT ![i] = IF Http(i) THEN Unused ELSE [@ EXCEPT !.pc = "cut"]]
  /\ UNCHANGED <<file, loader, groups, live, blocked, status, hup, stop, events>>
-----------------------------------------------------------------------------
(* Connections *)

Goes(c, to) ==
  /\ conn' = [conn EXCEPT ![c] = to]
  /\ UNCHANGED <<file, loader, groups, live, slot, blocked, status, hup, stop, events>>

\* Accepted; track turns it away when the listener closes.
Accept(c, i) ==
  /\ conn[c].pc = "none" /\ slot[i].bound
  /\ Http(i) \/ ~slot[i].closed
  /\ Goes(c, [NoConn EXCEPT !.pc = "accepted", !.at = i])

\* The handler loads the listener's configuration, then looks its group up;
\* an egress handler finds its destination in the policy instead.
Routed(c) ==
  /\ conn[c].pc = "accepted"
  /\ Goes(c, [conn[c] EXCEPT !.pc = "routed", !.group = slot[conn[c].at].group])

Answer(c) ==
  /\ conn[c].pc = "routed"
  /\ Goes(c, IF slot[conn[c].at].kind = "proxy" THEN [conn[c] EXCEPT !.pc = "tunnel", !.at = 0]
             ELSE [conn[c] EXCEPT !.pc = IF conn[c].group \in groups THEN "served" ELSE "missing"])

Over(c) ==
  /\ conn[c].pc \in {"missing", "over"}
  /\ Goes(c, NoConn)

\* Both sides ended a connection; a backend ended one whose client was cut.
Ends(c) == conn[c].pc \in {"served", "tunnel"} /\ Goes(c, NoConn)
BackendEnds(c) == conn[c].pc = "cut" /\ Goes(c, NoConn)

Closes(i) == Close(i) \/ CloseSocket(i) \/ Drained(i)

Turn ==
  \/ Stat \/ ReadFile \/ SwapGroups \/ ApplyListener \/ ApplyEnd
  \/ TurnEnds \/ Exit

Handle(c) == Routed(c) \/ Answer(c) \/ Over(c)

PxNext ==
  \/ \E c \in Contents \union {Unset} : WriteFile(c)
  \/ \E k \in {c.listeners[n].key : <<c, n>> \in {p \in Contents \X Names : p[2] \in DOMAIN p[1].listeners}} : Address(k)
  \/ Terminate \/ Turn \/ Tick \/ Hangup \/ Shutdown
  \/ \E i \in Slots : Closes(i) \/ DrainTimeout(i)
  \/ \E c \in Conns :
       \/ \E i \in Slots : Accept(c, i)
       \/ Handle(c) \/ Ends(c) \/ BackendEnds(c)

\* The loop and the goroutines run; timers fire; the select is fair among the
\* ready.  A client may keep its connection for ever; so may a backend whose
\* client is gone, when SilentBackends.
PxFairness ==
  /\ WF_pxVars(Turn) /\ WF_pxVars(Tick) /\ SF_pxVars(Hangup) /\ SF_pxVars(Shutdown)
  /\ \A i \in Slots : WF_pxVars(Closes(i)) /\ WF_pxVars(DrainTimeout(i))
  /\ \A c \in Conns : WF_pxVars(Handle(c))
  /\ SilentBackends \/ \A c \in Conns : WF_pxVars(BackendEnds(c))

PxSpec == PxInit /\ [][PxNext]_pxVars /\ PxFairness
-----------------------------------------------------------------------------
(* Properties *)

\* Between two configurations every running listener sends to a group that is
\* there, whatever was loaded, rejected and put back before.
ServedGroups ==
  loader.pc \in {"select", "load", "read", "end"} =>
    \A n \in Names : live[n] # 0 /\ slot[live[n]].kind # "proxy" => slot[live[n]].group \in groups

\* The file that stays is the configuration that runs, or is reported as
\* rejected; whatever was there before, the signal and the poll overlapping.
ConfigFollows ==
  \A c \in Contents :
    <>[](file.at = c /\ ~stop) =>
      <>[](IF c.valid THEN loader.applied = c /\ loader.err = "" ELSE loader.err # "")

\* A listener is bound as soon as its address can be, and the status says so.
BoundWhenFree ==
  <>[](blocked = {} /\ ~stop /\ loader.cfg # Unset) /\ <>[][UNCHANGED file]_pxVars =>
    <>[](status.bound = {n \in Names : live[n] # 0})

\* A listener that no configuration wants any more lets its socket go.
UnwantedCloses ==
  \A i \in Slots : []<>(slot[i].bound => \E n \in Names : live[n] = i)

\* When Run returns no connection of a listener is being served: drained or cut
\* (listener.go: close waits up to drain `before cutting them').
CutAtExit == loader.pc = "exited" => \A c \in Conns : conn[c].pc = "none" \/ conn[c].pc = "tunnel"

\* The same of the connections CONNECT hijacked.
\* It does not hold (README, Properties that do not hold).
TunnelsCutAtExit == loader.pc = "exited" => \A c \in Conns : conn[c].pc = "none"

\* A request never misses its group (proxy.go: a listener `takes its new routes
\* and certificates atomically').
\* It does not hold (README, Properties that do not hold).
GroupFound == \A c \in Conns : conn[c].pc # "missing"

\* Once told to stop, infra-lb stops (proxy.go: Shutdown drains `for at most the
\* drain period').
Stops == []<>(stop => loader.pc = "exited")

\* infra-lb ends where its file and its signals want it: the configuration served,
\* its listeners bound, the others closed, and stopped when told to.
ProxySettles == ConfigFollows /\ BoundWhenFree /\ UnwantedCloses /\ Stops
=============================================================================
