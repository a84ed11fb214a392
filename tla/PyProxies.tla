------------------------------ MODULE PyProxies ------------------------------
(***************************************************************************)
(* The Python half of a provider, cmpi_pywbem_bindings.py: the proxies     *)
(* that get_cmpi_proxy_provider caches by MI name, the operations that     *)
(* CMPIProxyProvider carries out for the MIs of cmpi_provider.c, and the   *)
(* result objects it fills for the broker.                                 *)
(*                                                                         *)
(* One action is the Python code between two calls of the broker or of     *)
(* provider code, where another thread may run.  How the threads share the *)
(* interpreter is PyTarget's matter, how a failed broker call becomes an   *)
(* exception Upcall's; here each may fail.                                 *)
(***************************************************************************)
EXTENDS Integers, FiniteSets

CONSTANTS
  Threads,     (* threads of the broker                                    *)
  MIs,         (* slots for managed interfaces                             *)
  Names,       (* provider names; an MI of each type may share one         *)
  Brokers,     (* broker handles the library may be given                  *)
  Proxies,     (* identities of CMPIProxyProvider objects                  *)
  None,        (* no proxy, no MI                                          *)
  SerialAdmin, (* does the broker serialise MI creation and cleanup?       *)
  MaxSent      (* bound on the elements of one result                      *)

ASSUME PyProxiesAssumption ==
  /\ None \notin Proxies \cup MIs \cup Names
  /\ SerialAdmin \in BOOLEAN
  /\ MaxSent \in Nat

VARIABLES
  g_proxies,   (* the cache, by name                                       *)
  proxy,       (* the broker each proxy was made with, and its name        *)
  mi,          (* per MI: absent, or its type, name, broker and proxy      *)
  op,          (* per thread: the operation it is in                       *)
  last         (* per thread: how its last operation ended                 *)

vars == <<g_proxies, proxy, mi, op, last>>

-----------------------------------------------------------------------------
(* What the operations of each MI type do with their result object: return *)
(* any number of elements and complete it, return one, or have none;       *)
(* exec_query and must_poll answer without asking the provider.            *)
Operations ==
  [instance    |-> {"many", "one", "plain", "fixed"},
   association |-> {"many"},
   method      |-> {"one"},
   indication  |-> {"plain", "fixed"}]
MIType == DOMAIN Operations
Kind   == {"many", "one", "plain", "fixed"}

(* OK, a CIM error, or CMPI_RC_DO_NOT_UNLOAD.                              *)
Status == {"OK", "ERR", "KEEP"}

Idle   == [at |-> "idle", mi |-> None, kind |-> "fixed", sent |-> 0]
Silent == [kind |-> "fixed", sent |-> 0, complete |-> FALSE, rc |-> "OK"]
NoMI   == [type |-> "instance", name |-> None, broker |-> None, proxy |-> None]

Init ==
  /\ g_proxies = [n \in Names |-> None]
  /\ proxy = [p \in {} |-> None]
  /\ mi = [m \in MIs |-> NoMI]
  /\ op = [t \in Threads |-> Idle]
  /\ last = [t \in Threads |-> Silent]

Live(m)  == mi[m].proxy # None
Admin(t) == op[t].at \in {"lookup", "construct", "cleanup", "terminate"}
MayAdmin == SerialAdmin => \A t \in Threads : ~Admin(t)
Goto(t, at) == op' = [op EXCEPT ![t].at = at]

-----------------------------------------------------------------------------
(* TargetInitialize asks for the proxy of an MI.                           *)
CreateCall(t, m) ==
  /\ op[t].at = "idle" /\ mi[m] = NoMI /\ MayAdmin
  /\ \E type \in MIType, n \in Names, b \in Brokers :
       mi' = [mi EXCEPT ![m] = [type |-> type, name |-> n, broker |-> b, proxy |-> None]]
  /\ op' = [op EXCEPT ![t] = [at |-> "lookup", mi |-> m, kind |-> "fixed", sent |-> 0]]
  /\ last' = [last EXCEPT ![t] = Silent]
  /\ UNCHANGED <<g_proxies, proxy>>

CreateFailed(t) ==
  /\ mi' = [mi EXCEPT ![op[t].mi] = NoMI]
  /\ op' = [op EXCEPT ![t] = Idle]

Created(t, p) ==
  /\ mi' = [mi EXCEPT ![op[t].mi].proxy = p]
  /\ op' = [op EXCEPT ![t] = Idle]

(* Mutant: a cached proxy is handed out whatever broker asks.              *)
Lookup_AnyBroker(t) ==
  /\ op[t].at = "lookup"
  /\ LET cached == g_proxies[mi[op[t].mi].name] IN
     IF cached = None
     THEN Goto(t, "construct") /\ UNCHANGED mi
     ELSE Created(t, cached)
  /\ UNCHANGED <<g_proxies, proxy, last>>

(* g_proxies[miname]; a proxy made with another broker is refused.         *)
Lookup(t) ==
  /\ op[t].at = "lookup"
  /\ LET want == mi[op[t].mi]
         cached == g_proxies[want.name]
     IN  IF cached = None
         THEN Goto(t, "construct") /\ UNCHANGED mi
         ELSE IF proxy[cached].broker = want.broker
              THEN Created(t, cached)
              ELSE CreateFailed(t)
  /\ UNCHANGED <<g_proxies, proxy, last>>

(* Mutant: the new proxy is not put in the cache.                          *)
Construct_Uncached(t) ==
  /\ op[t].at = "construct"
  /\ \E p \in Proxies \ DOMAIN proxy :
       /\ proxy' = [q \in DOMAIN proxy \cup {p} |->
            IF q = p THEN [name |-> mi[op[t].mi].name, broker |-> mi[op[t].mi].broker]
            ELSE proxy[q]]
       /\ Created(t, p)
  /\ UNCHANGED <<g_proxies, last>>

(* Mutant: CMPIProxyProvider does not keep its broker.                     *)
Construct_NoBroker(t) ==
  /\ op[t].at = "construct"
  /\ \E p \in Proxies \ DOMAIN proxy :
       /\ proxy' = [q \in DOMAIN proxy \cup {p} |->
            IF q = p THEN [name |-> mi[op[t].mi].name, broker |-> None] ELSE proxy[q]]
       /\ g_proxies' = [g_proxies EXCEPT ![mi[op[t].mi].name] = p]
       /\ Created(t, p)
  /\ UNCHANGED last

(* CMPIProxyProvider.__init__ loads the provider, which may fail.          *)
Construct(t) ==
  /\ op[t].at = "construct"
  /\ LET want == mi[op[t].mi] IN
     \/ \E p \in Proxies \ DOMAIN proxy :
          /\ proxy' = [q \in DOMAIN proxy \cup {p} |->
               IF q = p THEN [name |-> want.name, broker |-> want.broker] ELSE proxy[q]]
          /\ g_proxies' = [g_proxies EXCEPT ![want.name] = p]
          /\ Created(t, p)
     \/ CreateFailed(t) /\ UNCHANGED <<g_proxies, proxy>>
  /\ UNCHANGED last

-----------------------------------------------------------------------------
(* The operations.  The provider is not asked before the arguments have    *)
(* been converted; what fails there, or in converting or returning a       *)
(* result, is no pywbem.CIMError of the MI_ call and ends in TargetCall.   *)
InUse(m) == \E t \in Threads : op[t].mi = m

OpCall(t, m, type) ==
  /\ op[t].at = "idle" /\ Live(m) /\ mi[m].type = type
  /\ ~ \E u \in Threads : op[u].mi = m /\ Admin(u)
  /\ \E kind \in Operations[type] :
       op' = [op EXCEPT ![t] = [at |-> "start", mi |-> m, kind |-> kind, sent |-> 0]]
  /\ last' = [last EXCEPT ![t] = Silent]
  /\ UNCHANGED <<g_proxies, proxy, mi>>

InstanceCall(t, m)    == OpCall(t, m, "instance")
AssociationCall(t, m) == OpCall(t, m, "association")
MethodCall(t, m)      == OpCall(t, m, "method")
IndicationCall(t, m)  == OpCall(t, m, "indication")

Return(t, complete, rc) ==
  /\ last' = [last EXCEPT ![t] = [kind |-> op[t].kind, sent |-> op[t].sent,
                                  complete |-> complete, rc |-> rc]]
  /\ op' = [op EXCEPT ![t] = Idle]
  /\ UNCHANGED <<g_proxies, proxy, mi>>

OpStart(t) ==
  /\ op[t].at = "start" /\ op[t].kind # "fixed"
  /\ \/ Goto(t, "provider") /\ UNCHANGED <<g_proxies, proxy, mi, last>>
     \/ Return(t, FALSE, "ERR")

(* exec_query is not supported, must_poll is always false.                 *)
OpFixed(t) ==
  /\ op[t].at = "start" /\ op[t].kind = "fixed"
  /\ Return(t, FALSE, "ERR")

(* The provider yields, or returns, an element and it is returned to the   *)
(* broker.                                                                 *)
OpElement(t) ==
  /\ op[t].at = "provider"
  /\ \/ op[t].kind = "many" /\ op[t].sent < MaxSent
     \/ op[t].kind = "one" /\ op[t].sent = 0
  /\ op' = [op EXCEPT ![t].sent = @ + 1,
                      ![t].at = IF op[t].kind = "one" THEN "finish" ELSE @]
  /\ UNCHANGED <<g_proxies, proxy, mi, last>>

(* The MI_ call raises, or an element cannot be converted or returned.     *)
OpError(t) ==
  /\ op[t].at = "provider"
  /\ Return(t, FALSE, "ERR")

(* A provider that is asked for any number of elements has no more; one    *)
(* that has no result returns.                                             *)
OpExhausted(t) ==
  /\ op[t].at = "provider" /\ op[t].kind = "many"
  /\ Goto(t, "finish")
  /\ UNCHANGED <<g_proxies, proxy, mi, last>>

OpPlain(t) ==
  /\ op[t].at = "provider" /\ op[t].kind = "plain"
  /\ Return(t, FALSE, "OK")

(* Mutant: the status does not depend on rslt.done().                      *)
OpFinish_Deaf(t) ==
  /\ op[t].at = "finish"
  /\ \E complete \in BOOLEAN : Return(t, complete, "OK")

(* rslt.done() succeeds or raises.                                         *)
OpFinish(t) ==
  /\ op[t].at = "finish"
  /\ Return(t, TRUE, "OK") \/ Return(t, FALSE, "ERR")

-----------------------------------------------------------------------------
(* cleanup, and the end of the interpreter with its last MI.               *)

CleanupCall(t, m, terminating) ==
  /\ op[t].at = "idle" /\ Live(m) /\ ~InUse(m) /\ MayAdmin
  /\ op' = [op EXCEPT ![t] = [at |-> IF terminating THEN "terminate" ELSE "cleanup",
                              mi |-> m, kind |-> "plain", sent |-> 0]]
  /\ last' = [last EXCEPT ![t] = Silent]
  /\ UNCHANGED <<g_proxies, proxy, mi>>

(* A cleanup that is not the end may be refused: MI_canunload says no, or  *)
(* a CIMError of MI_canunload or MI_shutdown carries that code.            *)
CleanupRefused(t) ==
  /\ op[t].at = "cleanup"
  /\ Return(t, FALSE, "KEEP")

(* MI_shutdown returns, or a CIMError carries any other code, or any code  *)
(* at the end: the MI goes, and with the last one the interpreter and all  *)
(* it holds.                                                               *)
CleanupDone(t) ==
  /\ op[t].at \in {"cleanup", "terminate"}
  /\ \E rc \in Status :
       /\ op[t].at = "cleanup" => rc # "KEEP"
       /\ last' = [last EXCEPT ![t] = [Silent EXCEPT !.rc = rc]]
  /\ mi' = [mi EXCEPT ![op[t].mi] = NoMI]
  /\ IF \A other \in MIs \ {op[t].mi} : ~Live(other)
     THEN g_proxies' = [n \in Names |-> None] /\ proxy' = [p \in {} |-> None]
     ELSE UNCHANGED <<g_proxies, proxy>>
  /\ op' = [op EXCEPT ![t] = Idle]

-----------------------------------------------------------------------------
Step(t) ==
  \/ \E m \in MIs : CreateCall(t, m)
  \/ Lookup(t) \/ Construct(t)
  \/ \E m \in MIs : InstanceCall(t, m) \/ AssociationCall(t, m)
                    \/ MethodCall(t, m) \/ IndicationCall(t, m)
  \/ OpStart(t) \/ OpFixed(t) \/ OpElement(t) \/ OpError(t) \/ OpExhausted(t)
  \/ OpPlain(t) \/ OpFinish(t)
  \/ \E m \in MIs, b \in BOOLEAN : CleanupCall(t, m, b)
  \/ CleanupRefused(t) \/ CleanupDone(t)

Next == \E t \in Threads : Step(t)

Spec == Init /\ [][Next]_vars

-----------------------------------------------------------------------------
(* Properties.                                                             *)

TypeOK ==
  /\ g_proxies \in [Names -> Proxies \cup {None}]
  /\ DOMAIN proxy \subseteq Proxies
  /\ \A p \in DOMAIN proxy : proxy[p] \in [name : Names, broker : Brokers]
  /\ mi \in [MIs -> [type : MIType, name : Names \cup {None},
                     broker : Brokers \cup {None}, proxy : Proxies \cup {None}]]
  /\ op \in [Threads -> [at : {"idle", "lookup", "construct", "start", "provider", "finish", "cleanup",
                               "terminate"},
                         mi : MIs \cup {None}, kind : Kind, sent : 0..MaxSent \cup {1}]]
  /\ last \in [Threads -> [kind : Kind, sent : 0..MaxSent \cup {1},
                           complete : BOOLEAN, rc : Status]]

(* cmpi_pywbem_bindings.py:453-455: every MI works with a proxy of its own *)
(* name that calls the broker the MI was created for, however many brokers *)
(* and MI types share the name.                                            *)
OwnBroker ==
  \A m \in MIs : Live(m) =>
    /\ mi[m].proxy \in DOMAIN proxy
    /\ proxy[mi[m].proxy] = [name |-> mi[m].name, broker |-> mi[m].broker]

(* get_cmpi_proxy_provider: the MIs of one name share one provider, the    *)
(* cached one, as long as the broker creates them one after the other.     *)
OneProvider ==
  \A m \in MIs : Live(m) => g_proxies[mi[m].name] = mi[m].proxy

(* cmpi_pywbem_bindings.py:478-631: an operation that has a result reports *)
(* success if and only if it has completed the result, with exactly one    *)
(* element where one was asked for, so that a broker never takes elements  *)
(* sent before an error for the whole answer.                              *)
CompleteIffOK ==
  \A t \in Threads :
    /\ last[t].kind \in {"many", "one"} => (last[t].rc = "OK" <=> last[t].complete)
    /\ last[t].kind = "one" /\ last[t].complete => last[t].sent = 1

=============================================================================
