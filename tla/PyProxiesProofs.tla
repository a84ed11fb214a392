-------------------------- MODULE PyProxiesProofs --------------------------
(***************************************************************************)
(* What holds of the proxies and the operations of the Python half for any *)
(* number of threads, MIs, names and brokers.                              *)
(***************************************************************************)
EXTENDS PyProxies, TLAPS

Naming   == {"lookup", "construct"}
Working  == {"start", "provider", "finish"}
Cleaning == {"cleanup", "terminate"}

OpRec == [at : {"idle"} \cup Naming \cup Working \cup Cleaning,
          mi : MIs \cup {None}, kind : Kind, sent : 0..MaxSent \cup {1}]
LastRec == [kind : Kind, sent : 0..MaxSent \cup {1}, complete : BOOLEAN, rc : Status]
MIRec == [type : MIType, name : Names \cup {None}, broker : Brokers \cup {None},
          proxy : Proxies \cup {None}]

(* A call works on an MI that is being made, or on one that has its proxy; *)
(* a result that may be completed has its element.                         *)
GoodOp(o) ==
  /\ o.at = "idle" => o.mi = None
  /\ o.at # "idle" => o.mi \in MIs
  /\ o.at \in Naming => /\ mi[o.mi].name \in Names /\ mi[o.mi].broker \in Brokers
                        /\ mi[o.mi].proxy = None
  /\ o.at \in Working \cup Cleaning => mi[o.mi].proxy # None
  /\ o.at = "finish" => o.kind \in {"many", "one"} /\ (o.kind = "one" => o.sent = 1)

OpInv == \A t \in Threads : GoodOp(op[t])

(* An MI that is created or cleaned up is in no other call.                *)
OpAlone == \A t, u \in Threads : t # u /\ Admin(t) => op[t].mi # op[u].mi

(* The cache holds proxies of the running interpreter under their names.   *)
CacheInv ==
  \A n \in Names : g_proxies[n] # None =>
    g_proxies[n] \in DOMAIN proxy /\ proxy[g_proxies[n]].name = n

GoodLast(r) ==
  /\ r.kind \in {"many", "one"} => (r.rc = "OK" <=> r.complete)
  /\ r.kind = "one" /\ r.complete => r.sent = 1

ProxyInv == TypeOK /\ OpInv /\ OpAlone /\ CacheInv /\ OwnBroker /\ CompleteIffOK

-----------------------------------------------------------------------------
LEMMA Types ==
  ASSUME TypeOK
  PROVE  /\ mi \in [MIs -> MIRec] /\ op \in [Threads -> OpRec] /\ last \in [Threads -> LastRec]
  BY DEF TypeOK, MIRec, OpRec, LastRec, Naming, Working, Cleaning

LEMMA IdleType ==
  /\ Idle \in OpRec /\ GoodOp(Idle) /\ Idle.at = "idle" /\ Idle.mi = None
  /\ Silent \in LastRec /\ GoodLast(Silent)
  /\ [Silent EXCEPT !.rc = "ERR"] \in LastRec /\ GoodLast([Silent EXCEPT !.rc = "ERR"])
  /\ NoMI \in MIRec
<1>1. Idle \in OpRec /\ Idle.at = "idle" /\ Idle.mi = None
  BY PyProxiesAssumption DEF Idle, OpRec, Kind
<1>2. GoodOp(Idle)
  BY <1>1 DEF GoodOp, Naming, Working, Cleaning
<1>3. Silent \in LastRec /\ Silent.kind = "fixed"
  BY PyProxiesAssumption DEF Silent, LastRec, Kind, Status
<1>4. ASSUME NEW rc \in Status
      PROVE  [Silent EXCEPT !.rc = rc] \in LastRec /\ [Silent EXCEPT !.rc = rc].kind = "fixed"
  BY <1>3 DEF LastRec
<1>5. \A r : r.kind = "fixed" => GoodLast(r)
  BY DEF GoodLast
<1>6. NoMI \in MIRec
  BY DEF NoMI, MIRec, MIType, Operations
<1>7. "ERR" \in Status
  BY DEF Status
<1> QED
  BY <1>1, <1>2, <1>3, <1>4, <1>5, <1>6, <1>7

LEMMA InitProxyInv == Init => ProxyInv
<1> SUFFICES ASSUME Init PROVE ProxyInv
  OBVIOUS
<1>1. TypeOK
  BY IdleType DEF Init, TypeOK, OpRec, LastRec, MIRec, Naming, Working, Cleaning
<1>2. OpInv /\ OpAlone /\ CompleteIffOK
  BY IdleType DEF Init, OpInv, OpAlone, Admin, CompleteIffOK, GoodLast
<1>3. CacheInv /\ OwnBroker
  BY DEF Init, CacheInv, OwnBroker, Live, NoMI
<1> QED
  BY <1>1, <1>2, <1>3 DEF ProxyInv

(* The last results: one thread's is replaced by a good one, or none.      *)
LEMMA LastStep ==
  ASSUME ProxyInv, NEW t \in Threads,
         \/ last' = last
         \/ \E r \in LastRec : GoodLast(r) /\ last' = [last EXCEPT ![t] = r]
  PROVE  last' \in [Threads -> LastRec] /\ CompleteIffOK'
  BY Types DEF ProxyInv, CompleteIffOK, GoodLast

(* A step of a thread that changes no MI and no proxy.                     *)
LEMMA QuietStep ==
  ASSUME ProxyInv, NEW t \in Threads, NEW new \in OpRec, op' = [op EXCEPT ![t] = new],
         GoodOp(new),
         \A u \in Threads \ {t} : op[u].mi = new.mi /\ new.mi # None =>
            ~Admin(u) /\ new.at \notin Naming \cup Cleaning,
         UNCHANGED <<g_proxies, proxy, mi>>,
         \/ last' = last
         \/ \E r \in LastRec : GoodLast(r) /\ last' = [last EXCEPT ![t] = r]
  PROVE  ProxyInv'
<1>1. last' \in [Threads -> LastRec] /\ CompleteIffOK'
  BY LastStep
<1>2. op \in [Threads -> OpRec] /\ op' \in [Threads -> OpRec]
  BY Types DEF ProxyInv
<1>3. TypeOK'
  BY <1>1, <1>2 DEF ProxyInv, TypeOK, OpRec, LastRec, Naming, Working, Cleaning
<1>4. OpInv'
  BY <1>2 DEF ProxyInv, OpInv, GoodOp
<1>5. OpAlone'
  <2> SUFFICES ASSUME NEW a \in Threads, NEW b \in Threads, a # b, Admin(a)', op'[a].mi = op'[b].mi
               PROVE  FALSE
    BY DEF OpAlone
  <2>1. CASE a # t /\ b # t
    BY <1>2, <2>1 DEF ProxyInv, OpAlone, Admin
  <2>2. CASE a = t
    <3>1. op'[a] = new /\ op'[b] = op[b] /\ new.at \in Naming \cup Cleaning
      BY <1>2, <2>2 DEF Admin, Naming, Cleaning
    <3>2. new.mi # None
      BY <3>1, PyProxiesAssumption DEF GoodOp, Naming, Cleaning
    <3> QED
      BY <2>2, <3>1, <3>2
  <2>3. CASE b = t
    <3>1. op'[b] = new /\ op'[a] = op[a] /\ Admin(a)
      BY <1>2, <2>3 DEF Admin
    <3>2. op[a].mi # None
      BY <3>1, PyProxiesAssumption DEF ProxyInv, OpInv, GoodOp, Admin
    <3> QED
      BY <2>3, <3>1, <3>2
  <2> QED
    BY <2>1, <2>2, <2>3
<1> QED
  BY <1>1, <1>3, <1>4, <1>5 DEF ProxyInv, CacheInv, OwnBroker, Live

(* A step that changes the MI of a creation or a cleanup, which no other   *)
(* thread works on.                                                        *)
LEMMA AdminStep ==
  ASSUME ProxyInv, NEW t \in Threads, NEW m \in MIs, NEW r \in MIRec,
         \A u \in Threads \ {t} : op[u].mi # m,
         mi' = [mi EXCEPT ![m] = r], op' = [op EXCEPT ![t] = Idle]
  PROVE  /\ mi' \in [MIs -> MIRec] /\ op' \in [Threads -> OpRec]
         /\ OpInv' /\ OpAlone'
<1>1. mi \in [MIs -> MIRec] /\ op \in [Threads -> OpRec] /\ op' \in [Threads -> OpRec]
  BY Types, IdleType DEF ProxyInv
<1>2. OpInv'
  <2> SUFFICES ASSUME NEW u \in Threads PROVE GoodOp(op[u])'
    BY DEF OpInv
  <2>1. CASE u = t
    BY <1>1, <2>1, IdleType DEF GoodOp, Naming, Working, Cleaning
  <2>2. CASE u # t
    BY <1>1, <2>2 DEF ProxyInv, OpInv, GoodOp, Naming, Working, Cleaning
  <2> QED
    BY <2>1, <2>2
<1>3. OpAlone'
  <2> SUFFICES ASSUME NEW a \in Threads, NEW b \in Threads, a # b, Admin(a)'
               PROVE  op'[a].mi # op'[b].mi
    BY DEF OpAlone
  <2>1. a # t
    BY <1>1, IdleType DEF Admin
  <2>2. Admin(a) /\ op'[a] = op[a] /\ op[a].mi # None
    BY <1>1, <2>1, PyProxiesAssumption DEF Admin, ProxyInv, OpInv, GoodOp
  <2>3. CASE b = t
    BY <1>1, <2>2, <2>3, IdleType
  <2>4. CASE b # t
    BY <1>1, <2>2, <2>4 DEF ProxyInv, OpAlone
  <2> QED
    BY <2>3, <2>4
<1> QED
  BY <1>1, <1>2, <1>3

-----------------------------------------------------------------------------
(* Nobody works on an MI that is not there.                                *)
LEMMA NoMIUnused ==
  ASSUME ProxyInv, NEW m \in MIs, mi[m] = NoMI
  PROVE  \A u \in Threads : op[u].mi # m
<1> SUFFICES ASSUME NEW u \in Threads, op[u].mi = m PROVE FALSE
  OBVIOUS
<1>1. op[u] \in OpRec /\ GoodOp(op[u]) /\ m # None
  BY Types, PyProxiesAssumption DEF ProxyInv, OpInv
<1> QED
  BY <1>1, PyProxiesAssumption DEF GoodOp, OpRec, NoMI

LEMMA CreateCallStep ==
  ASSUME ProxyInv, NEW t \in Threads, NEW m \in MIs, CreateCall(t, m)
  PROVE  ProxyInv'
<1> DEFINE new == [at |-> "lookup", mi |-> m, kind |-> "fixed", sent |-> 0]
<1>1. PICK type \in MIType, n \in Names, b \in Brokers :
        mi' = [mi EXCEPT ![m] = [type |-> type, name |-> n, broker |-> b, proxy |-> None]]
  BY DEF CreateCall
<1>2. \A u \in Threads : op[u].mi # m
  BY NoMIUnused DEF CreateCall
<1>3. mi \in [MIs -> MIRec] /\ op \in [Threads -> OpRec] /\ mi' \in [MIs -> MIRec]
  BY <1>1, Types DEF ProxyInv, MIRec
<1>4. last' \in [Threads -> LastRec] /\ CompleteIffOK'
  BY LastStep, IdleType DEF CreateCall
<1>5. new \in OpRec /\ new.at = "lookup" /\ new.mi = m /\ op' = [op EXCEPT ![t] = new]
  BY PyProxiesAssumption DEF CreateCall, OpRec, Kind, Naming
<1> HIDE DEF new
<1>6. TypeOK'
  BY <1>3, <1>4, <1>5 DEF CreateCall, ProxyInv, TypeOK, OpRec, LastRec, MIRec, Naming, Working, Cleaning
<1>7. OpInv'
  <2> SUFFICES ASSUME NEW u \in Threads PROVE GoodOp(op[u])'
    BY DEF OpInv
  <2>1. CASE u = t
    BY <1>1, <1>3, <1>5, <2>1 DEF GoodOp, Naming, Working, Cleaning
  <2>2. CASE u # t
    BY <1>1, <1>2, <1>3, <1>5, <2>2 DEF ProxyInv, OpInv, GoodOp, Naming, Working, Cleaning
  <2> QED
    BY <2>1, <2>2
<1>8. OpAlone'
  BY <1>2, <1>3, <1>5 DEF ProxyInv, OpAlone, Admin
<1>9. CacheInv' /\ OwnBroker'
  <2>1. mi[m] = NoMI /\ UNCHANGED <<g_proxies, proxy>>
    BY DEF CreateCall
  <2> QED
    BY <1>1, <1>3, <2>1 DEF ProxyInv, CacheInv, OwnBroker, Live
<1> QED
  BY <1>4, <1>6, <1>7, <1>8, <1>9 DEF ProxyInv

(* A call that creates or cleans up has its MI to itself.                  *)
LEMMA AdminAlone ==
  ASSUME ProxyInv, NEW t \in Threads, Admin(t)
  PROVE  /\ op[t].mi \in MIs /\ op[t] \in OpRec
         /\ \A u \in Threads \ {t} : op[u].mi # op[t].mi
         /\ op[t].at \in Naming => /\ mi[op[t].mi].name \in Names /\ mi[op[t].mi].broker \in Brokers
                                   /\ mi[op[t].mi].proxy = None
  BY Types DEF ProxyInv, OpInv, GoodOp, OpAlone, Admin

LEMMA CreateFailedStep ==
  ASSUME ProxyInv, NEW t \in Threads, Admin(t), CreateFailed(t),
         UNCHANGED <<g_proxies, proxy, last>>
  PROVE  ProxyInv'
<1> DEFINE m == op[t].mi
<1>1. m \in MIs /\ \A u \in Threads \ {t} : op[u].mi # m
  BY AdminAlone
<1>2. mi' = [mi EXCEPT ![m] = NoMI] /\ op' = [op EXCEPT ![t] = Idle]
  BY DEF CreateFailed
<1> HIDE DEF m
<1>3. mi' \in [MIs -> MIRec] /\ op' \in [Threads -> OpRec] /\ OpInv' /\ OpAlone'
  BY <1>1, <1>2, AdminStep, IdleType
<1>4. TypeOK'
  BY <1>3 DEF ProxyInv, TypeOK, OpRec, LastRec, MIRec, Naming, Working, Cleaning
<1>5. OwnBroker' /\ CacheInv' /\ CompleteIffOK'
  BY <1>1, <1>2, Types DEF ProxyInv, OwnBroker, CacheInv, CompleteIffOK, Live, NoMI
<1> QED
  BY <1>3, <1>4, <1>5 DEF ProxyInv

(* The MI gets a proxy of its name and its broker.                         *)
LEMMA CreatedStep ==
  ASSUME ProxyInv, NEW t \in Threads, op[t].at \in Naming, NEW p \in Proxies, Created(t, p),
         UNCHANGED last,
         p \in DOMAIN proxy',
         proxy'[p] = [name |-> mi[op[t].mi].name, broker |-> mi[op[t].mi].broker],
         DOMAIN proxy \subseteq DOMAIN proxy', DOMAIN proxy' \subseteq Proxies,
         \A q \in DOMAIN proxy : proxy'[q] = proxy[q],
         DOMAIN proxy' \subseteq DOMAIN proxy \cup {p},
         \/ g_proxies' = g_proxies
         \/ g_proxies' = [g_proxies EXCEPT ![mi[op[t].mi].name] = p]
  PROVE  ProxyInv'
<1> DEFINE m == op[t].mi
           new == [mi[m] EXCEPT !.proxy = p]
<1>1. /\ m \in MIs /\ \A u \in Threads \ {t} : op[u].mi # m
      /\ mi[m].name \in Names /\ mi[m].broker \in Brokers
  BY AdminAlone DEF Admin, Naming
<1>2. mi \in [MIs -> MIRec]
  BY Types DEF ProxyInv
<1>3. mi' = [mi EXCEPT ![m] = new] /\ op' = [op EXCEPT ![t] = Idle]
  BY <1>1, <1>2 DEF Created
<1>4. new \in MIRec /\ new.proxy = p /\ new.name = mi[m].name /\ new.broker = mi[m].broker
  BY <1>1, <1>2 DEF MIRec
<1> HIDE DEF m, new
<1>5. mi' \in [MIs -> MIRec] /\ op' \in [Threads -> OpRec] /\ OpInv' /\ OpAlone'
  BY <1>1, <1>3, <1>4, AdminStep
<1>6. \A q \in DOMAIN proxy' : proxy'[q] \in [name : Names, broker : Brokers]
  BY <1>1 DEF ProxyInv, TypeOK, m
<1>7. g_proxies' \in [Names -> Proxies \cup {None}]
  BY <1>1 DEF ProxyInv, TypeOK, m
<1>8. TypeOK'
  BY <1>5, <1>6, <1>7 DEF ProxyInv, TypeOK, OpRec, LastRec, MIRec, Naming, Working, Cleaning
<1>9. CacheInv'
  <2> SUFFICES ASSUME NEW n \in Names, g_proxies'[n] # None
               PROVE  g_proxies'[n] \in DOMAIN proxy' /\ proxy'[g_proxies'[n]].name = n
    BY DEF CacheInv
  <2>1. CASE g_proxies'[n] = g_proxies[n]
    BY <2>1 DEF ProxyInv, CacheInv
  <2>2. CASE n = mi[m].name /\ g_proxies'[n] = p
    BY <2>2 DEF m
  <2> QED
    BY <1>1, <2>1, <2>2 DEF ProxyInv, TypeOK, m
<1>10. OwnBroker'
  <2> SUFFICES ASSUME NEW k \in MIs, mi'[k].proxy # None
               PROVE  /\ mi'[k].proxy \in DOMAIN proxy'
                      /\ proxy'[mi'[k].proxy] = [name |-> mi'[k].name, broker |-> mi'[k].broker]
    BY DEF OwnBroker, Live
  <2>1. CASE k = m
    BY <1>2, <1>3, <1>4, <2>1 DEF m
  <2>2. CASE k # m
    BY <1>2, <1>3, <2>2 DEF ProxyInv, OwnBroker, Live
  <2> QED
    BY <2>1, <2>2
<1> QED
  BY <1>5, <1>8, <1>9, <1>10 DEF ProxyInv, CompleteIffOK

LEMMA GotoStep ==
  ASSUME ProxyInv, NEW t \in Threads, NEW at \in Naming \cup Working, Goto(t, at),
         op[t].at \in Naming => at \in Naming, op[t].at \in Working => at \in Working,
         op[t].at \in Naming \cup Working,
         at = "finish" => op[t].kind = "many",
         UNCHANGED <<g_proxies, proxy, mi, last>>
  PROVE  ProxyInv'
<1> DEFINE new == [op[t] EXCEPT !.at = at]
<1>1. op[t] \in OpRec /\ op \in [Threads -> OpRec]
  BY Types DEF ProxyInv
<1>2. /\ new \in OpRec /\ op' = [op EXCEPT ![t] = new]
      /\ new.mi = op[t].mi /\ new.at = at /\ new.kind = op[t].kind /\ new.sent = op[t].sent
  BY <1>1 DEF Goto, OpRec
<1> HIDE DEF new
<1>3. GoodOp(new)
  BY <1>2 DEF ProxyInv, OpInv, GoodOp, Naming, Working, Cleaning
<1>4. \A u \in Threads \ {t} : op[u].mi = new.mi /\ new.mi # None =>
            ~Admin(u) /\ new.at \notin Naming \cup Cleaning
  BY <1>2 DEF ProxyInv, OpAlone, Admin, Naming, Working, Cleaning
<1> QED
  BY <1>2, <1>3, <1>4, QuietStep

LEMMA LookupStep ==
  ASSUME ProxyInv, NEW t \in Threads, Lookup(t)
  PROVE  ProxyInv'
<1> DEFINE want == mi[op[t].mi]
           cached == g_proxies[want.name]
<1>1. op[t].at = "lookup" /\ Admin(t) /\ want.name \in Names /\ want.broker \in Brokers
  BY AdminAlone DEF Lookup, Admin, Naming
<1>2. UNCHANGED <<g_proxies, proxy, last>>
  BY DEF Lookup
<1>3. CASE cached = None
  BY <1>1, <1>2, <1>3, GotoStep DEF Lookup, Naming, Working
<1>4. CASE cached # None /\ proxy[cached].broker # want.broker
  BY <1>1, <1>2, <1>4, CreateFailedStep DEF Lookup
<1>5. CASE cached # None /\ proxy[cached].broker = want.broker
  <2>1. Created(t, cached)
    BY <1>5 DEF Lookup
  <2>2. cached \in DOMAIN proxy /\ cached \in Proxies /\ proxy[cached].name = want.name
        /\ proxy[cached] \in [name : Names, broker : Brokers] /\ DOMAIN proxy \subseteq Proxies
    BY <1>1, <1>5 DEF ProxyInv, CacheInv, TypeOK
  <2>3. proxy[cached] = [name |-> want.name, broker |-> want.broker]
    BY <1>5, <2>2
  <2> QED
    BY <1>1, <1>2, <2>1, <2>2, <2>3, CreatedStep DEF Naming
<1> QED
  BY <1>3, <1>4, <1>5

LEMMA ConstructStep ==
  ASSUME ProxyInv, NEW t \in Threads, Construct(t)
  PROVE  ProxyInv'
<1> DEFINE want == mi[op[t].mi]
<1>1. op[t].at = "construct" /\ Admin(t) /\ UNCHANGED last
  BY DEF Construct, Admin
<1>2. CASE CreateFailed(t) /\ UNCHANGED <<g_proxies, proxy>>
  BY <1>1, <1>2, CreateFailedStep
<1>3. ASSUME NEW p \in Proxies \ DOMAIN proxy,
             proxy' = [q \in DOMAIN proxy \cup {p} |->
               IF q = p THEN [name |-> want.name, broker |-> want.broker] ELSE proxy[q]],
             g_proxies' = [g_proxies EXCEPT ![want.name] = p],
             Created(t, p)
      PROVE  ProxyInv'
  <2>1. DOMAIN proxy \subseteq Proxies
    BY DEF ProxyInv, TypeOK
  <2>2. DOMAIN proxy' = DOMAIN proxy \cup {p} /\ \A q \in DOMAIN proxy : proxy'[q] = proxy[q]
    BY <1>3
  <2>3. proxy'[p] = [name |-> want.name, broker |-> want.broker]
    BY <1>3
  <2> QED
    BY <1>1, <1>3, <2>1, <2>2, <2>3, CreatedStep DEF Naming
<1> QED
  BY <1>2, <1>3 DEF Construct

-----------------------------------------------------------------------------
LEMMA OpCallStep ==
  ASSUME ProxyInv, NEW t \in Threads, NEW m \in MIs, NEW type \in MIType, OpCall(t, m, type)
  PROVE  ProxyInv'
<1>1. PICK kind \in Operations[type] :
        op' = [op EXCEPT ![t] = [at |-> "start", mi |-> m, kind |-> kind, sent |-> 0]]
  BY DEF OpCall
<1>2. kind \in Kind
  BY <1>1 DEF MIType, Operations, Kind
<1> DEFINE new == [at |-> "start", mi |-> m, kind |-> kind, sent |-> 0]
<1>3. new \in OpRec /\ new.at = "start" /\ new.mi = m
  BY <1>2, PyProxiesAssumption DEF OpRec, Working
<1>4. op' = [op EXCEPT ![t] = new] /\ last' = [last EXCEPT ![t] = Silent]
      /\ UNCHANGED <<g_proxies, proxy, mi>>
  BY <1>1 DEF OpCall
<1> HIDE DEF new
<1>5. GoodOp(new)
  BY <1>3 DEF OpCall, Live, GoodOp, Naming
<1>6. \A u \in Threads \ {t} : op[u].mi = new.mi /\ new.mi # None =>
            ~Admin(u) /\ new.at \notin Naming \cup Cleaning
  BY <1>3 DEF OpCall, Naming, Cleaning
<1> QED
  BY <1>3, <1>4, <1>5, <1>6, IdleType, QuietStep

LEMMA ReturnStep ==
  ASSUME ProxyInv, NEW t \in Threads, NEW complete \in BOOLEAN, NEW rc \in Status,
         Return(t, complete, rc),
         op[t].kind \in {"many", "one"} => (rc = "OK" <=> complete),
         op[t].kind = "one" /\ complete => op[t].sent = 1
  PROVE  ProxyInv'
<1> DEFINE r == [kind |-> op[t].kind, sent |-> op[t].sent, complete |-> complete, rc |-> rc]
<1>1. op[t] \in OpRec
  BY Types DEF ProxyInv
<1>2. r \in LastRec /\ GoodLast(r)
  BY <1>1 DEF LastRec, OpRec, GoodLast
<1>3. last' = [last EXCEPT ![t] = r] /\ op' = [op EXCEPT ![t] = Idle]
      /\ UNCHANGED <<g_proxies, proxy, mi>>
  BY DEF Return
<1> HIDE DEF r
<1> QED
  BY <1>2, <1>3, IdleType, QuietStep

LEMMA OpStartStep ==
  ASSUME ProxyInv, NEW t \in Threads, OpStart(t)
  PROVE  ProxyInv'
<1>1. CASE Goto(t, "provider") /\ UNCHANGED <<g_proxies, proxy, mi, last>>
  BY <1>1, GotoStep DEF OpStart, Working, Naming
<1>2. CASE Return(t, FALSE, "ERR")
  BY <1>2, ReturnStep DEF Status
<1> QED
  BY <1>1, <1>2 DEF OpStart

LEMMA OpElementStep ==
  ASSUME ProxyInv, NEW t \in Threads, OpElement(t)
  PROVE  ProxyInv'
<1> DEFINE new == [op[t] EXCEPT !.sent = @ + 1, !.at = IF op[t].kind = "one" THEN "finish" ELSE @]
<1>1. op[t] \in OpRec /\ op \in [Threads -> OpRec]
  BY Types DEF ProxyInv
<1>2. op' = [op EXCEPT ![t] = new]
  BY <1>1 DEF OpElement, OpRec
<1>3. op[t].sent + 1 \in 0..MaxSent \cup {1} /\ (op[t].kind = "one" => op[t].sent + 1 = 1)
  BY <1>1, PyProxiesAssumption DEF OpElement, OpRec
<1>4. /\ new.mi = op[t].mi /\ new.kind = op[t].kind /\ new.sent = op[t].sent + 1
      /\ new.at = IF op[t].kind = "one" THEN "finish" ELSE "provider"
  BY <1>1 DEF OpElement, OpRec
<1>5. new \in OpRec
  BY <1>1, <1>3 DEF OpRec, Working
<1> HIDE DEF new
<1>6. GoodOp(new)
  BY <1>3, <1>4 DEF OpElement, ProxyInv, OpInv, GoodOp, Naming, Working, Cleaning
<1>7. \A u \in Threads \ {t} : op[u].mi = new.mi /\ new.mi # None =>
            ~Admin(u) /\ new.at \notin Naming \cup Cleaning
  BY <1>4 DEF ProxyInv, OpAlone, Admin, Naming, Cleaning
<1> QED
  BY <1>2, <1>5, <1>6, <1>7, QuietStep DEF OpElement

LEMMA OpReturnsStep ==
  ASSUME ProxyInv, NEW t \in Threads, OpFixed(t) \/ OpError(t) \/ OpPlain(t) \/ OpFinish(t)
  PROVE  ProxyInv'
<1>1. CASE OpFixed(t) \/ OpError(t)
  BY <1>1, ReturnStep DEF OpFixed, OpError, Status
<1>2. CASE OpPlain(t)
  BY <1>2, ReturnStep DEF OpPlain, Status
<1>3. CASE OpFinish(t)
  <2>1. op[t].kind = "one" => op[t].sent = 1
    BY <1>3 DEF OpFinish, ProxyInv, OpInv, GoodOp
  <2> QED
    BY <1>3, <2>1, ReturnStep DEF OpFinish, Status
<1> QED
  BY <1>1, <1>2, <1>3

LEMMA OpExhaustedStep ==
  ASSUME ProxyInv, NEW t \in Threads, OpExhausted(t)
  PROVE  ProxyInv'
  BY GotoStep DEF OpExhausted, Working, Naming

-----------------------------------------------------------------------------
LEMMA CleanupCallStep ==
  ASSUME ProxyInv, NEW t \in Threads, NEW m \in MIs, NEW terminating \in BOOLEAN,
         CleanupCall(t, m, terminating)
  PROVE  ProxyInv'
<1> DEFINE new == [at |-> IF terminating THEN "terminate" ELSE "cleanup",
                   mi |-> m, kind |-> "plain", sent |-> 0]
<1>1. new \in OpRec /\ new.at \in Cleaning /\ new.mi = m
  BY PyProxiesAssumption DEF OpRec, Cleaning, Kind
<1>2. op' = [op EXCEPT ![t] = new] /\ last' = [last EXCEPT ![t] = Silent]
      /\ UNCHANGED <<g_proxies, proxy, mi>>
  BY DEF CleanupCall
<1> HIDE DEF new
<1>3. GoodOp(new)
  BY <1>1 DEF CleanupCall, Live, GoodOp, Naming, Cleaning
<1>4. \A u \in Threads : op[u].mi # new.mi
  BY <1>1 DEF CleanupCall, InUse
<1> QED
  BY <1>1, <1>2, <1>3, <1>4, IdleType, QuietStep

LEMMA CleanupRefusedStep ==
  ASSUME ProxyInv, NEW t \in Threads, CleanupRefused(t)
  PROVE  ProxyInv'
  BY ReturnStep DEF CleanupRefused, Status

(* The interpreter goes only with the last MI, so that no other has lost   *)
(* its proxy.                                                              *)
LEMMA CleanupDoneStep ==
  ASSUME ProxyInv, NEW t \in Threads, CleanupDone(t)
  PROVE  ProxyInv'
<1> DEFINE m == op[t].mi
           final == \A other \in MIs \ {m} : ~Live(other)
<1>1. m \in MIs /\ (\A u \in Threads \ {t} : op[u].mi # m) /\ mi \in [MIs -> MIRec]
  BY AdminAlone, Types DEF CleanupDone, Admin, ProxyInv
<1>2. /\ mi' = [mi EXCEPT ![m] = NoMI]
      /\ IF final
         THEN g_proxies' = [n \in Names |-> None] /\ proxy' = [p \in {} |-> None]
         ELSE UNCHANGED <<g_proxies, proxy>>
  BY DEF CleanupDone
<1>3. op' = [op EXCEPT ![t] = Idle]
  BY DEF CleanupDone
<1>4. mi' \in [MIs -> MIRec] /\ op' \in [Threads -> OpRec] /\ OpInv' /\ OpAlone'
  BY <1>1, <1>2, <1>3, AdminStep, IdleType
<1>5. ASSUME NEW rc \in Status
      PROVE  [Silent EXCEPT !.rc = rc] \in LastRec /\ GoodLast([Silent EXCEPT !.rc = rc])
  <2>1. Silent \in LastRec /\ Silent.kind = "fixed"
    BY IdleType DEF Silent
  <2>2. [Silent EXCEPT !.rc = rc] \in LastRec /\ [Silent EXCEPT !.rc = rc].kind = "fixed"
    BY <2>1 DEF LastRec
  <2> QED
    BY <2>2 DEF GoodLast
<1>6. last' \in [Threads -> LastRec] /\ CompleteIffOK'
  <2>1. PICK rc \in Status : last' = [last EXCEPT ![t] = [Silent EXCEPT !.rc = rc]]
    BY DEF CleanupDone
  <2> QED
    BY <1>5, <2>1, LastStep
<1>7. Live(m) /\ mi[m].proxy \in DOMAIN proxy
  BY <1>1 DEF ProxyInv, OpInv, GoodOp, OwnBroker, Live, CleanupDone, Cleaning
<1>8. CASE final
  <2>1. DOMAIN proxy' = {} /\ g_proxies' = [n \in Names |-> None]
    BY <1>2, <1>8
  <2>2. \A k \in MIs : mi'[k].proxy = None
    BY <1>1, <1>2, <1>8 DEF Live, NoMI
  <2>3. TypeOK'
    BY <1>4, <1>6, <2>1 DEF TypeOK, OpRec, LastRec, MIRec, Naming, Working, Cleaning
  <2> QED
    BY <1>4, <1>6, <2>1, <2>2, <2>3 DEF ProxyInv, CacheInv, OwnBroker, Live
<1>9. CASE ~final
  <2>1. UNCHANGED <<g_proxies, proxy>>
    BY <1>2, <1>9
  <2>2. TypeOK'
    BY <1>4, <1>6, <1>7, <2>1 DEF ProxyInv, TypeOK, OpRec, LastRec, MIRec, Naming, Working, Cleaning
  <2>3. OwnBroker'
    BY <1>1, <1>2, <2>1 DEF ProxyInv, OwnBroker, Live, NoMI
  <2> QED
    BY <1>4, <1>6, <2>1, <2>2, <2>3 DEF ProxyInv, CacheInv
<1> QED
  BY <1>8, <1>9

LEMMA StepProxyInv == ProxyInv /\ [Next]_vars => ProxyInv'
<1> SUFFICES ASSUME ProxyInv, [Next]_vars PROVE ProxyInv'
  OBVIOUS
<1>1. ASSUME NEW t \in Threads, Step(t) PROVE ProxyInv'
  <2>1. ASSUME NEW m \in MIs,
               InstanceCall(t, m) \/ AssociationCall(t, m) \/ MethodCall(t, m) \/ IndicationCall(t, m)
        PROVE  ProxyInv'
    BY <2>1, OpCallStep DEF InstanceCall, AssociationCall, MethodCall, IndicationCall, MIType, Operations
  <2> QED
    BY <1>1, <2>1, CreateCallStep, LookupStep, ConstructStep, OpStartStep, OpElementStep,
       OpReturnsStep, OpExhaustedStep, CleanupCallStep, CleanupRefusedStep, CleanupDoneStep DEF Step
<1>2. CASE UNCHANGED vars
  BY <1>2 DEF vars, ProxyInv, TypeOK, OpInv, GoodOp, OpAlone, Admin, CacheInv, OwnBroker, Live,
     CompleteIffOK
<1> QED
  BY <1>1, <1>2 DEF Next

LEMMA AlwaysProxyInv == Spec => []ProxyInv
  BY InitProxyInv, StepProxyInv, PTL DEF Spec

-----------------------------------------------------------------------------
(* Every variable keeps its type.                                          *)
THEOREM TypeCorrect == Spec => []TypeOK
<1>1. ProxyInv => TypeOK
  BY DEF ProxyInv
<1> QED
  BY <1>1, AlwaysProxyInv, PTL

(* cmpi_pywbem_bindings.py:450-476: every MI works with a proxy of its     *)
(* name and its broker, even if the broker creates MIs at the same time.   *)
THEOREM BrokerOwned == Spec => []OwnBroker
<1>1. ProxyInv => OwnBroker
  BY DEF ProxyInv
<1> QED
  BY <1>1, AlwaysProxyInv, PTL

(* cmpi_pywbem_bindings.py:478-631: the status of an operation says        *)
(* whether its result is complete.                                         *)
THEOREM ResultsComplete == Spec => []CompleteIffOK
<1>1. ProxyInv => CompleteIffOK
  BY DEF ProxyInv
<1> QED
  BY <1>1, AlwaysProxyInv, PTL

-----------------------------------------------------------------------------
(* With a broker that creates and cleans up one MI at a time, a name that  *)
(* has no proxy yet gets its first.                                        *)
OneInv ==
  /\ OneProvider
  /\ \A t, u \in Threads : Admin(t) /\ Admin(u) => t = u
  /\ \A t \in Threads : op[t].at = "construct" => g_proxies[mi[op[t].mi].name] = None

LEMMA OneStep ==
  ASSUME SerialAdmin, ProxyInv, OneInv, NEW t \in Threads, Step(t)
  PROVE  OneInv'
<1>0. /\ op \in [Threads -> OpRec] /\ mi \in [MIs -> MIRec]
      /\ g_proxies \in [Names -> Proxies \cup {None}]
  BY Types DEF ProxyInv, TypeOK
<1>1. ASSUME NEW m \in MIs, CreateCall(t, m) PROVE OneInv'
  <2>1. /\ mi[m] = NoMI /\ \A u \in Threads : ~Admin(u)
        /\ op' = [op EXCEPT ![t] = [at |-> "lookup", mi |-> m, kind |-> "fixed", sent |-> 0]]
        /\ UNCHANGED <<g_proxies, proxy>>
    BY <1>1 DEF CreateCall, MayAdmin
  <2>2. PICK type \in MIType, n \in Names, b \in Brokers :
        mi' = [mi EXCEPT ![m] = [type |-> type, name |-> n, broker |-> b, proxy |-> None]]
    BY <1>1 DEF CreateCall
  <2>3. OneProvider'
    BY <1>0, <2>1, <2>2 DEF OneInv, OneProvider, Live
  <2> QED
    BY <1>0, <2>1, <2>3 DEF OneInv, Admin
<1>2. CASE Lookup(t)
  <2> DEFINE m == op[t].mi
             want == mi[m]
             cached == g_proxies[want.name]
  <2>1. op[t].at = "lookup" /\ Admin(t) /\ m \in MIs /\ want.name \in Names /\ want.proxy = None
        /\ UNCHANGED <<g_proxies, proxy, last>>
    BY <1>2, AdminAlone DEF Lookup, Admin, Naming
  <2>2. CASE cached = None
    <3>1. Goto(t, "construct") /\ UNCHANGED mi
      BY <1>2, <2>2 DEF Lookup
    <3> QED
      BY <1>0, <2>1, <2>2, <3>1 DEF Goto, OneInv, OneProvider, Live, Admin, OpRec
  <2>3. CASE CreateFailed(t)
    <3>1. mi' = [mi EXCEPT ![m] = NoMI] /\ op' = [op EXCEPT ![t] = Idle]
      BY <2>3 DEF CreateFailed
    <3>2. \A u \in Threads : u # t => op'[u] = op[u] /\ ~Admin(u)
      BY <1>0, <2>1, <3>1 DEF OneInv
    <3>3. \A u \in Threads : ~Admin(u)'
      BY <1>0, <3>1, <3>2, IdleType DEF Admin
    <3>4. OneProvider'
      BY <1>0, <2>1, <3>1 DEF OneInv, OneProvider, Live, NoMI
    <3> QED
      BY <3>3, <3>4 DEF OneInv, Admin
  <2>4. CASE Created(t, cached) /\ cached # None
    <3>1. mi' = [mi EXCEPT ![m].proxy = cached] /\ op' = [op EXCEPT ![t] = Idle]
      BY <2>4 DEF Created
    <3>2. \A u \in Threads : u # t => op'[u] = op[u] /\ ~Admin(u)
      BY <1>0, <2>1, <3>1 DEF OneInv
    <3>3. \A u \in Threads : ~Admin(u)'
      BY <1>0, <3>1, <3>2, IdleType DEF Admin
    <3>4. OneProvider'
      <4>1. mi'[m].proxy = cached /\ mi'[m].name = want.name
        BY <1>0, <2>1, <3>1 DEF MIRec
      <4>2. \A k \in MIs \ {m} : mi'[k] = mi[k]
        BY <1>0, <3>1
      <4> QED
        BY <2>1, <4>1, <4>2 DEF OneInv, OneProvider, Live
    <3> QED
      BY <3>3, <3>4 DEF OneInv, Admin
  <2> QED
    BY <1>2, <2>2, <2>3, <2>4 DEF Lookup
<1>3. CASE Construct(t)
  <2> DEFINE m == op[t].mi
             want == mi[m]
  <2>1. op[t].at = "construct" /\ Admin(t) /\ m \in MIs /\ want.name \in Names /\ want.proxy = None
        /\ g_proxies[want.name] = None
    BY <1>3, AdminAlone DEF Construct, Admin, Naming, OneInv
  <2>2. CASE CreateFailed(t) /\ UNCHANGED <<g_proxies, proxy>>
    <3>1. mi' = [mi EXCEPT ![m] = NoMI] /\ op' = [op EXCEPT ![t] = Idle]
      BY <2>2 DEF CreateFailed
    <3>2. \A u \in Threads : u # t => op'[u] = op[u] /\ ~Admin(u)
      BY <1>0, <2>1, <3>1 DEF OneInv
    <3>3. \A u \in Threads : ~Admin(u)'
      BY <1>0, <3>1, <3>2, IdleType DEF Admin
    <3>4. OneProvider'
      BY <1>0, <2>1, <2>2, <3>1 DEF OneInv, OneProvider, Live, NoMI
    <3> QED
      BY <3>3, <3>4 DEF OneInv, Admin
  <2>3. ASSUME NEW p \in Proxies \ DOMAIN proxy,
               g_proxies' = [g_proxies EXCEPT ![want.name] = p], Created(t, p)
        PROVE  OneInv'
    <3>1. mi' = [mi EXCEPT ![m].proxy = p] /\ op' = [op EXCEPT ![t] = Idle]
      BY <2>3 DEF Created
    <3>2. \A u \in Threads : u # t => op'[u] = op[u] /\ ~Admin(u)
      BY <1>0, <2>1, <3>1 DEF OneInv
    <3>3. \A u \in Threads : ~Admin(u)'
      BY <1>0, <3>1, <3>2, IdleType DEF Admin
    <3>4. OneProvider'
      <4>1. mi'[m].proxy = p /\ mi'[m].name = want.name /\ g_proxies'[want.name] = p
        BY <1>0, <2>1, <2>3, <3>1 DEF MIRec
      <4>2. \A k \in MIs \ {m} : mi'[k] = mi[k]
        BY <1>0, <3>1
      <4>3. \A k \in MIs : Live(k) => mi[k].name # want.name
        BY <2>1 DEF OneInv, OneProvider, Live
      <4>4. \A n \in Names \cup {None} : n # want.name => g_proxies'[n] = g_proxies[n]
        BY <1>0, <2>1, <2>3
      <4>5. \A k \in MIs : mi[k].name \in Names \cup {None}
        BY <1>0 DEF MIRec
      <4> QED
        BY <4>1, <4>2, <4>3, <4>4, <4>5 DEF OneInv, OneProvider, Live
    <3> QED
      BY <3>3, <3>4 DEF OneInv, Admin
  <2> QED
    BY <1>3, <2>2, <2>3 DEF Construct
<1>4. CASE CleanupDone(t)
  <2> DEFINE m == op[t].mi
             final == \A other \in MIs \ {m} : ~Live(other)
  <2>1. Admin(t) /\ m \in MIs /\ mi' = [mi EXCEPT ![m] = NoMI] /\ op' = [op EXCEPT ![t] = Idle]
        /\ (final \/ UNCHANGED g_proxies)
    BY <1>4, AdminAlone DEF CleanupDone, Admin
  <2>2. \A u \in Threads : u # t => op'[u] = op[u] /\ ~Admin(u)
    BY <1>0, <2>1 DEF OneInv
  <2>3. \A u \in Threads : ~Admin(u)'
    BY <1>0, <2>1, <2>2, IdleType DEF Admin
  <2>4. OneProvider'
    BY <1>0, <2>1 DEF OneInv, OneProvider, Live, NoMI
  <2> QED
    BY <2>3, <2>4 DEF OneInv, Admin
<1>5. ASSUME NEW m \in MIs, NEW b \in BOOLEAN, CleanupCall(t, m, b) PROVE OneInv'
  <2>1. /\ \A u \in Threads : ~Admin(u)
        /\ UNCHANGED <<g_proxies, mi>>
        /\ op' = [op EXCEPT ![t] = [at |-> IF b THEN "terminate" ELSE "cleanup",
                                    mi |-> m, kind |-> "plain", sent |-> 0]]
    BY <1>5 DEF CleanupCall, MayAdmin
  <2> QED
    BY <1>0, <2>1 DEF OneInv, OneProvider, Live, Admin
<1>6. ASSUME UNCHANGED <<g_proxies, mi>>, \A u \in Threads : op'[u] = op[u] \/ ~Admin(u)'
      PROVE  OneInv'
  BY <1>6 DEF OneInv, OneProvider, Live, Admin
<1>7. CASE OpStart(t) \/ OpElement(t) \/ OpExhausted(t)
  <2>1. \A u \in Threads \ {t} : op'[u] = op[u]
    BY <1>0, <1>7 DEF OpStart, OpElement, OpExhausted, Goto, Return
  <2>2. ~Admin(t)'
    BY <1>0, <1>7, IdleType DEF OpStart, OpElement, OpExhausted, Goto, Return, Admin, OpRec
  <2>3. UNCHANGED <<g_proxies, mi>>
    BY <1>7 DEF OpStart, OpElement, OpExhausted, Return
  <2> QED
    BY <1>6, <2>1, <2>2, <2>3
<1>8. CASE OpFixed(t) \/ OpError(t) \/ OpPlain(t) \/ OpFinish(t) \/ CleanupRefused(t)
  <2>1. op' = [op EXCEPT ![t] = Idle] /\ UNCHANGED <<g_proxies, mi>>
    BY <1>8 DEF OpFixed, OpError, OpPlain, OpFinish, CleanupRefused, Return
  <2>2. \A u \in Threads : op'[u] = op[u] \/ ~Admin(u)'
    BY <1>0, <2>1, IdleType DEF Admin
  <2> QED
    BY <1>6, <2>1, <2>2
<1>9. ASSUME NEW m \in MIs, NEW type \in MIType, OpCall(t, m, type) PROVE OneInv'
  <2>1. \A u \in Threads \ {t} : op'[u] = op[u]
    BY <1>0, <1>9 DEF OpCall
  <2>2. ~Admin(t)' /\ UNCHANGED <<g_proxies, mi>>
    BY <1>0, <1>9 DEF OpCall, Admin
  <2> QED
    BY <1>6, <2>1, <2>2
<1>10. "instance" \in MIType /\ "association" \in MIType /\ "method" \in MIType /\ "indication" \in MIType
  BY DEF MIType, Operations
<1> QED
  BY <1>1, <1>2, <1>3, <1>4, <1>5, <1>7, <1>8, <1>9, <1>10
  DEF Step, InstanceCall, AssociationCall, MethodCall, IndicationCall

(* get_cmpi_proxy_provider: one provider for all MIs of a name.            *)
THEOREM ProviderShared == ASSUME SerialAdmin PROVE Spec => []OneProvider
<1>1. Init => OneInv
  BY IdleType DEF Init, OneInv, OneProvider, Live, NoMI, Admin
<1>2. ProxyInv /\ OneInv /\ [Next]_vars => OneInv'
  <2>1. ProxyInv /\ OneInv /\ UNCHANGED vars => OneInv'
    BY DEF vars, OneInv, OneProvider, Live, Admin
  <2> QED
    BY <2>1, OneStep DEF Next
<1>3. OneInv => OneProvider
  BY DEF OneInv
<1> QED
  BY <1>1, <1>2, <1>3, AlwaysProxyInv, PTL DEF Spec

=============================================================================
