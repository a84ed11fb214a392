------------------------------ MODULE Handlers ------------------------------
(***************************************************************************)
(* The operations of the four MI types as three parties see them: the      *)
(* arguments each C function of cmpi_provider.c hands to TargetCall by     *)
(* position, and the formal parameters that take them: those of            *)
(* CMPIProxyProvider's methods in Python, those of provider.rb's           *)
(* interfaces in Ruby.  A parameter of one meaning has one name here: path *)
(* stands for reference, objName and classPath, activation for             *)
(* firstActivation and lastActivation.                                     *)
(***************************************************************************)
EXTENDS Sequences

-----------------------------------------------------------------------------
(* What cmpi_provider.c passes.                                            *)

ReadPassed ==
  [enum_instance_names |-> <<"ctx", "rslt", "path">>,
   enum_instances      |-> <<"ctx", "rslt", "path", "properties">>,
   get_instance        |-> <<"ctx", "rslt", "path", "properties">>]

WritePassed ==
  [create_instance |-> <<"ctx", "rslt", "path", "newinst">>,
   set_instance    |-> <<"ctx", "rslt", "path", "newinst", "properties">>,
   delete_instance |-> <<"ctx", "rslt", "path">>]

QueryPassed == [exec_query |-> <<"ctx", "rslt", "path", "query", "lang">>]

AssociatorPassed ==
  [associator_names |-> <<"ctx", "rslt", "path", "assocClass", "resultClass", "role", "resultRole">>,
   associators      |-> <<"ctx", "rslt", "path", "assocClass", "resultClass", "role", "resultRole",
                          "properties">>]

ReferencePassed ==
  [reference_names |-> <<"ctx", "rslt", "path", "resultClass", "role">>,
   references      |-> <<"ctx", "rslt", "path", "resultClass", "role", "properties">>]

MethodPassed == [invoke_method |-> <<"ctx", "rslt", "path", "method", "in", "out">>]

FilterPassed ==
  [authorize_filter  |-> <<"ctx", "filter", "className", "path", "owner">>,
   activate_filter   |-> <<"ctx", "filter", "className", "path", "activation">>,
   deactivate_filter |-> <<"ctx", "filter", "className", "path", "activation">>]

IndicationPassed ==
  [must_poll           |-> <<"ctx", "filter", "className", "path">>,
   enable_indications  |-> <<"ctx">>,
   disable_indications |-> <<"ctx">>]

CleanupPassed == [cleanup |-> <<"ctx", "terminating">>]

(* The table of all entries of f and of g.                                 *)
Join(f, g) == [op \in DOMAIN f \cup DOMAIN g |-> IF op \in DOMAIN f THEN f[op] ELSE g[op]]

InstancePassed    == Join(Join(ReadPassed, WritePassed), QueryPassed)
AssociationPassed == Join(AssociatorPassed, ReferencePassed)
AnyPassed         == Join(MethodPassed, Join(Join(FilterPassed, IndicationPassed), CleanupPassed))

Passed == Join(InstancePassed, Join(AssociationPassed, AnyPassed))

Op == DOMAIN Passed

(* CMPI lets the broker leave these out: a name that string2target turns   *)
(* into the target's None, one that its handler leaves NULL in this case,  *)
(* and the list of proplist2target.                                        *)
Named    == {"query", "lang", "method", "className", "owner"}
Optional == {"assocClass", "resultClass", "role", "resultRole"}
Nullable == Named \cup Optional \cup {"properties"}

(* The parameters that Target_Bool makes.                                  *)
Booleans == {"terminating", "activation"}

-----------------------------------------------------------------------------
(* Mutant: reference_names takes its two names the other way round.        *)
PythonTakes_Swapped ==
  [Passed EXCEPT !.reference_names = <<"ctx", "rslt", "path", "role", "resultClass">>]

(* What the methods of CMPIProxyProvider take.                             *)
PythonTakes ==
  [enum_instance_names |-> <<"ctx", "rslt", "path">>,
   enum_instances      |-> <<"ctx", "rslt", "path", "properties">>,
   get_instance        |-> <<"ctx", "rslt", "path", "properties">>,
   create_instance     |-> <<"ctx", "rslt", "path", "newinst">>,
   set_instance        |-> <<"ctx", "rslt", "path", "newinst", "properties">>,
   delete_instance     |-> <<"ctx", "rslt", "path">>,
   exec_query          |-> <<"ctx", "rslt", "path", "query", "lang">>,
   associator_names    |-> <<"ctx", "rslt", "path", "assocClass", "resultClass", "role", "resultRole">>,
   associators         |-> <<"ctx", "rslt", "path", "assocClass", "resultClass", "role", "resultRole",
                             "properties">>,
   reference_names     |-> <<"ctx", "rslt", "path", "resultClass", "role">>,
   references          |-> <<"ctx", "rslt", "path", "resultClass", "role", "properties">>,
   invoke_method       |-> <<"ctx", "rslt", "path", "method", "in", "out">>,
   authorize_filter    |-> <<"ctx", "filter", "className", "path", "owner">>,
   activate_filter     |-> <<"ctx", "filter", "className", "path", "activation">>,
   deactivate_filter   |-> <<"ctx", "filter", "className", "path", "activation">>,
   must_poll           |-> <<"ctx", "filter", "className", "path">>,
   enable_indications  |-> <<"ctx">>,
   disable_indications |-> <<"ctx">>,
   cleanup             |-> <<"ctx", "terminating">>]

-----------------------------------------------------------------------------
(* What the methods of provider.rb's interfaces take.                      *)
RubyTakes ==
  [create_instance     |-> <<"ctx", "rslt", "path", "newinst">>,
   enum_instance_names |-> <<"ctx", "rslt", "path">>,
   enum_instances      |-> <<"ctx", "rslt", "path", "properties">>,
   get_instance        |-> <<"ctx", "rslt", "path", "properties">>,
   set_instance        |-> <<"ctx", "rslt", "path", "newinst", "properties">>,
   delete_instance     |-> <<"ctx", "rslt", "path">>,
   exec_query          |-> <<"ctx", "rslt", "path", "query", "lang">>,
   invoke_method       |-> <<"ctx", "rslt", "path", "method", "in", "out">>,
   associator_names    |-> <<"ctx", "rslt", "path", "assocClass", "resultClass", "role", "resultRole">>,
   associators         |-> <<"ctx", "rslt", "path", "assocClass", "resultClass", "role", "resultRole",
                             "properties">>,
   reference_names     |-> <<"ctx", "rslt", "path", "resultClass", "role">>,
   references          |-> <<"ctx", "rslt", "path", "resultClass", "role", "properties">>,
   authorize_filter    |-> <<"ctx", "filter", "className", "path", "owner">>,
   activate_filter     |-> <<"ctx", "filter", "className", "path", "activation">>,
   deactivate_filter   |-> <<"ctx", "filter", "className", "path", "activation">>,
   must_poll           |-> <<"ctx", "filter", "className", "path">>,
   enable_indications  |-> <<"ctx">>,
   disable_indications |-> <<"ctx">>,
   cleanup             |-> <<"ctx", "terminating">>]

=============================================================================
