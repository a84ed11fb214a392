# Verification of cmpi-bindings

cmpi-bindings lets a CIM broker (sfcb, Pegasus) run providers written in
Python, Ruby or Perl.  It is one shared library, loaded into the broker's
process: C code that implements the CMPI provider interface over an embedded
interpreter, SWIG wrappers through which the provider calls the broker back,
and a library of the target language on top.  This directory models that code
in TLA+, checks the models with TLC and proves with TLAPS that nearly every
safety property the runs check holds for all values of the constants.

Paths below are those of the repository: `src/` is its C code, `swig/` the
wrappers and libraries.

## 1. The system

| Component | State | Operations | Module |
|---|---|---|---|
| MI factory and Cleanup, `src/cmpi_provider.c` 182-345, 1198-1239 | `_TARGET_INIT`, `_MI_COUNT`, `_CMPI_INIT_MUTEX`, `_TARGET_MODULE`; a `ProviderMIHandle` per MI | `_Generic_Create_<type>MI`, `<type>Cleanup` | PyTarget, RbTarget |
| Python target, `src/target_python.c` | the interpreter, the GIL, `hdl->implementation` | `TargetInitialize`, `TargetCall`, `TargetCleanup` | PyTarget, Upcall |
| Ruby target, `src/target_ruby.c` | the interpreter, `_stack_init_mutex`, the roots of the garbage collector | the same, and `TargetInvoke` | RbTarget, RbInvoke |
| Requests, `src/cmpi_provider.c` 48-180, 353-1141 | none of their own; references to None, wrappers of filters | 19 operations of four MI types, `string2target`, `proplist2target`, the packing in `TargetCall` | Handlers, Requests (what is passed), Upcall (how it fails), PyProxies (what it returns) |
| Upcalls and errors, `swig/cmpi.i` 742-887, `swig/cmpi_callbacks.i`, `swig/cmpi_types.i` | a raised flag per thread, the error indicator of Python | every wrapper that may raise | Upcall |
| Python proxies, `swig/python/cmpi_pywbem_bindings.py` 438-723 | `g_proxies`, one `CMPIProxyProvider` per name; result objects | `get_cmpi_proxy_provider`, the operations, `cleanup` | PyProxies |
| Value conversion (Ruby), `swig/cmpi.i` 172-721 | none | `target_to_value`, `data_value` | RbValues |
| Perl target, `src/target_perl.c` | one Perl interpreter | creation and cleanup; `TargetCall` is a stub | PlTarget |
| Select expressions, property filters, `swig/cmpi.i` 836-990, `swig/cmpi_types.i` 1122-1194, `swig/string_array.h` | lists of names owned by a wrapper | create, release, clone and append | Wrappers, Requests |
| Python value conversion, `cmpi_pywbem_bindings.py` 728-1021 | none | `pywbem2cmpi_*`, `cmpi2pywbem_*` | not modelled |
| Ruby library, `swig/ruby/cmpi.rb`, `cmpi/provider.rb` | none | exceptions, date-times, type maps; the provider interfaces | not modelled, but for the parameters of the interfaces (Handlers) |
| rdoc tools, packaging, MOF files, tests and sample providers | | | not modelled |

How they interact.  The broker calls the factory once per MI, then operations
of the MI from any of its threads, then the MI's cleanup.  The first creation
starts the interpreter, the last cleanup ends it; several brokers unload the
library after that.  An operation converts its arguments, calls a method of the
provider through `TargetCall` and turns what comes back, a pair of status and
message or an exception, into a `CMPIStatus`.  While it runs, the provider
calls the broker (an upcall), which may call an operation of another MI, or of
the same one, on the same thread before it answers.  The Python build holds the
GIL while Python runs and gives it up around each upcall; the Ruby and Perl
builds have no lock of their own around calls.

What is hard about it, and what makes it correct:

* *Life cycle.*  Creations, operations and cleanups of any MIs interleave.  No
  thread may run in a finalised interpreter or use an object that died with it;
  the interpreter must go when its last user goes, also when creations fail and
  cleanups are refused.  `++_MI_COUNT` and the mutex that should protect it are
  in different places.
* *Locks.*  A mutex, the GIL, and in Ruby a mutex that is only tried; error
  paths must release what they hold, and nobody may wait for the mutex with the
  GIL.
* *Errors.*  A failed upcall is recorded in two places, by code that runs
  without the GIL, and may be nested in others; it must end as the status of
  the right operation, with the right code.
* *Results.*  Elements reach the broker one by one, a later one may fail; the
  broker must not take a fragment for the answer.
* *Values.*  Typed integers of four widths, a language whose small integers
  have 63 bits, nil, arrays whose elements may be nil.
* *Memory.*  A wrapper asks the broker several questions and holds memory
  between them; a failed answer unwinds the C code in Ruby and only sets a flag
  in Python.  Arguments are passed by position through four layers, and None
  is one object that every argument may refer to.
* *Sharing.*  MIs of one name share one Python provider, which is told to shut
  down by each of them.

## 2. The modules

* **Interpreter** is the abstract specification: what the comment at
  `cmpi_provider.c` 182-189 promises of an interpreter, in five actions: it is
  loaded, MIs attach and detach, it is unloaded after the last; one that a
  failed first creation has left behind may be discarded with the library.  It
  does not know languages, threads, locks or counters.
* **PyTarget** is the factory, `Cleanup` and the Python target.  One action is
  the C code between two points where another thread can interfere; the mutex,
  the GIL and both halves of `++_MI_COUNT` are separate steps.  Undefined
  behaviour sets `fault`, which says what was met and by which kind of call,
  and ends the behaviour.  Its constants say what the broker does
  (`SerialAdmin`, `Unloads`; with `BrokerFreesMI` it may free the
  `CMPI<type>MI`, and need not) and which steps of `TargetInitialize` may fail.
* **RbTarget** is the same for Ruby.  There is no GIL in the code; a thread has
  a stack of calls, so that an upcall may enter another MI; the garbage
  collector's roots and `_stack_init_mutex` are part of the state.  An
  exception becomes any status, since the code may report it with an
  uninitialised local.  `Unwind` is an exception that Ruby raises between
  trylock and unlock outside `rb_protect`: it takes a nested call away, its
  unlock not done.
* **Upcall** follows an error: the verdict of a wrapper on the broker's status
  (`RAISE_IF`, and the wrappers that let a code pass or raise one of their
  own), the error indicator that `_raise_ex` sets under the GIL, the
  thread-specific flag it sets without (two steps), the `%exception` code at
  the end of a wrapper, the translation of `CMPIException` to
  `pywbem.CIMError` and to a status.  Threads have stacks of
  operations and upcalls.  Codes are `FAILED` and `NOT_FOUND` for those CIM has
  and `KEEP` for those above 17.
* **PyProxies** is the cache of proxies and the operations of
  `CMPIProxyProvider`, with what they do to the result object.  An operation is
  of one of four kinds: it returns many elements, one, none, or is not
  supported.  Cleanup includes `MI_canunload` and `MI_shutdown`, each of which
  may raise any code, a refusal included, and the end of the interpreter with
  its last MI.
* **PlTarget** is Perl's creation, call and cleanup under the same factory:
  there is no state but the one interpreter, so it is the shortest of the
  three.
* **Handlers** is three tables: the parameters each C function hands to
  `TargetCall`, those each method of `CMPIProxyProvider` takes and those each
  method of the interfaces in `provider.rb` takes, in order.
* **Wrappers** are the wrappers that ask the broker more than once: select
  expressions, property filters, (data, name) pairs.  One action is the code up
  to the next answer, and every answer may be a failure; `lang` chooses between
  a Ruby `RAISE_IF`, which does not return, and the Python one, which does.
  Memory that is never freed is left out, but for references to None: `lost`
  says whether one has been lost.
* **Requests** extends both: a request arrives with whatever arguments a broker
  may leave out and with Booleans of either value, is packed, given to a
  provider that runs any of the wrappers, and dropped.  It counts the
  references to None.
* **RbValues** are the conversions of `cmpi.i` as operators without state.  A
  conversion is the *set* of its outcomes: a Bignum read as a Fixnum may come
  out as anything.  A float is counted in halves, of which a real32 tells only
  the even ones.
* **RbInvoke** is `TargetInvoke` over RbValues: declaration of arguments,
  `CMGetArg`, the call, `CMAddArg`, the return value, with each early return.
  Its constants are the data a broker may send, the values a Ruby method may
  return (`IsRuby`: a scalar, or an array of such) and the types declared.
* **PyTargetProofs, RbTargetProofs, PlTargetProofs, UpcallProofs,
  PyProxiesProofs, RbInvokeProofs, WrappersProofs** and **RequestsProofs** hold
  the invariants, lemmas and theorems about the module they are named after.

`MC<module>` gives the constants of a module their values for TLC; PlTarget
needs none.
`PROJECT.json` maps every definition to the lines it models.

Assumed of what is outside the repository: the broker calls only MIs it was
given and has not begun to clean up, and cleans up no MI that is in use; a
second start of Ruby after `ruby_finalize` is like the first; the wrappers are
generated with `-threads`; `Py_Finalize` destroys every Python object.

## 3. What the runs show

Every "pass" run checks the whole state space of its instance.

| Run | Instance | Checks |
|---|---|---|
| PySerial | 3 threads, 2 MIs, a broker that serialises creation and cleanup, may unload the library and may free its MIs; every failure | MIsSafe, UseCount, Implements (the abstract Interpreter), CallsReturn, TypeOK |
| PyAny | 3 threads, 3 MIs, any broker, every failure | LockDiscipline |
| RbSerial | 2 threads, 2 MIs, calls nested twice, exceptions that unwind them | RubyUp, RootsLive, FlagOwned, Implements, TypeOK |
| RbInvoke | 1 input and 1 output argument and a return value, every type, integers around every width | ReplyExact, TypesKept, InputExact, EchoExact, WholeReply, MissingHarmless, TypeOK |
| UpErrors | 2 threads, operations and upcalls nested six deep | FlagExact, WrapperFaithful, ErrorReported, TypeOK |
| PxShare | 2 threads, 2 MIs of one name, 2 brokers, results of up to 2 elements | OwnBroker, OneProvider, CompleteIffOK, TypeOK |
| Requests | one request at a time, both languages, every operation with every argument that may be missing, 3 names, 2 keys, 1 structure | Wired, NoneBalanced, FilterExact, PropertyFilterExact, BrokerExpressionKept, TypeOK |

In words:

* A broker that creates and cleans up MIs one at a time never takes an
  operation or a cleanup into a dead interpreter, provider or module, whichever
  creations fail and at whichever step, and `_MI_COUNT` is right at every
  moment.  What such a broker can still meet is a creation that starts on what
  an earlier one left behind: the violation runs and `InterpreterSafe` below
  say when.  A Ruby creation can at most lack its search path then.
* The mutex and the GIL are held exactly where the code means it, whatever the
  broker does; with fair locks every call returns.
* In Ruby the stack mutex is never released under the call that took it.  It
  may stay locked for good after an exception that unwinds a call; every later
  call then goes on without it, and the rest still holds.
* The error indicator and the raised flag are set in two steps, and no other
  call of the thread comes between them; operations nested in an upcall do not
  disturb the flag of the wrapper around them.  An upcall's failure that the
  provider does not swallow becomes a failure of its operation, with the
  broker's code where CIM has it, and never a refusal to unload.
* An operation reports success exactly if it completed its result, and an
  invocation exactly if it delivered every output argument.  What the provider
  returned is what the broker reads back wherever the type and a Fixnum hold it,
  and what Ruby got from the broker comes back as it was, type included, if the
  provider returns it (EchoExact: the two conversions of `cmpi.i` are inverse).
* Every argument arrives in the parameter of its name, and None for each that
  the broker left out; but in Ruby a false Boolean arrives as nil, because
  `TargetCall` tests for a VALUE of 0 (`target_ruby.c:409`), which is `Qfalse`.
  A tuple never releases a reference to None that was not taken for it.  A
  select expression a provider holds has its filter whole, no expression that
  the broker lent is ever released, and a property filter names each key once,
  whatever case the provider wrote it in.

The "violation" runs are disagreements between the code and what it says of
itself; each checks one property.

| Run | The code | The words |
|---|---|---|
| PyCount | `++_MI_COUNT` outside the mutex: two factories lose an increment (`cmpi_provider.c:1236`) | "_CMPI_INIT_MUTEX protects this references counter from concurrent access" |
| PyReload | `_TARGET_MODULE` survives `Py_Finalize`: without a `dlclose` the next creation uses a dead module (`target_python.c:442`) | `TargetInitialize` will "import 'cmpi_pywbem_bindings'" |
| PyFree | a successful terminating cleanup frees the `CMPI<type>MI` (`cmpi_provider.c:289`): a broker that does so too frees it twice | "the broker is responsible for freeing the CMPI<type>MI*" |
| UpText | `_raise_ex` frees the message that the exception still owns (`cmpi.i:798`) | "Container for a fault, contains numeric error_code and textual description" |
| PlUnload | `TargetCleanup` frees the one Perl interpreter with every MI (`target_perl.c:154`) | "There is one target interpreter, serving multiple MIs", "when the last user goes aways, the target interpreter is unloaded" |

PySerial keeps what it can of this in: its broker may go on without unloading
the library and may free its MIs, and every step of `TargetInitialize` may
fail.  Where that ends in undefined behaviour the behaviour ends too, and
`MIsSafe` says that no operation and no cleanup ever enters a dead interpreter
or uses a dead provider or module.  The lost count (`SerialAdmin`) and the freed message
(`Messages`) are kept out of the passing runs by a constant, so that they do
not hide what else could go wrong; so is, in RbInvoke, an uninitialised `rc`
that holds `CMPI_RC_OK` (`Leftover`).  The run Requests takes nothing from the
broker: a failing `CMNewSelectExp` may leave its projection unset, and data may
be there with no value.  The model records that Python then uses what nobody
has set, and goes on.

### Bounds

Two MIs are enough for "last", "last but one" and "other"; a third thread lets
one wait while two interfere, and PyAny has a third MI because nothing
serialises it.  `MaxCount` bounds `_MI_COUNT` only where increments get lost
(PyAny, PyCount); PySerial never comes near it.  Nesting of six frames is three
operations in each other with their upcalls, so that a flag could be disturbed
at a distance of two.  Three proxies or names add nothing to PxShare but
copies: a name has one entry.  The integer types of RbInvoke have 2, 3, 4 and 6
bits, a long 6 and a Fixnum 5: the order of 8, 16, 32, 64, 64 and 63, which is
all the conversions depend on; the numbers lie on both sides of each bound,
with Bignums both ways.  Arrays have up to two elements, enough for every order
of nil, fitting and unfitting. Requests has one name in two cases and one in
one, two keys, and string arrays of up to two names: a key is there already, or
in another case, or not at all, or twice.  `MaxNone` bounds the references that
are lost; that one more could be lost changes nothing in NoneBalanced, which
counts nothing after the first. A second structure would be a copy of the
first.

Deadlock is checked except in RbInvoke, which ends with its one invocation, and
in PySerial and PyAny, where a library that met undefined behaviour has no next
step; that no thread of PySerial gets stuck otherwise is CallsReturn.

### Fairness

Only PySerial (CallsReturn, and Unload in Implements) and RbSerial (Implements)
use it, the latter only that a cleanup that has decided to finalise Ruby does
so.  A POSIX mutex and the GIL are handed to a waiting thread eventually
although others take them in between: strong fairness on each acquisition.  The
provider's code returns if it keeps getting the GIL back: strong fairness on
its return, since YieldGIL disables it again and again.  C code that neither
waits nor runs Python goes on: weak fairness.  Nothing is assumed of the
broker: it need not call or clean up anything.

## 4. What is proved

Every theorem holds for any set of threads, MIs, names and brokers, any depth
of nesting and any data; what else it assumes is in its row.

| Module | Theorem | Assumed | Statement |
|---|---|---|---|
| PyTargetProofs | TypeCorrect | | `[]TypeOK` |
| | LocksDisciplined | | `[]LockDiscipline` |
| | MIsAlwaysSafe | SerialAdmin | `[]MIsSafe` |
| | CountExact | SerialAdmin | `[]UseCount` |
| | InterpreterSafe | orderly broker | `[]NoFault`: no undefined behaviour at all |
| | ImplementsInterpreter | SerialAdmin | initial states map to initial states, every step to a step of Interpreter or a stutter |
| RbTargetProofs | TypeCorrect | | `[]TypeOK` |
| | FlagAlwaysOwned | | `[]FlagOwned` |
| | RubyAlwaysUp | SerialAdmin | `[]RubyUp` |
| | RootsAlwaysLive | SerialAdmin | `[]RootsLive` |
| | ImplementsInterpreter | SerialAdmin | as for Python |
| PlTargetProofs | OneMIServed | one MI, a broker that unloads | `[](ServesAll /\ NoUseAfterFree)` |
| UpcallProofs | TypeCorrect, FlagAlwaysExact, WrapperAlwaysFaithful, ErrorAlwaysReported | | `[]` of TypeOK, FlagExact, WrapperFaithful, ErrorReported |
| PyProxiesProofs | TypeCorrect, BrokerOwned, ResultsComplete | | `[]` of TypeOK, OwnBroker, CompleteIffOK |
| | ProviderShared | SerialAdmin | `[]OneProvider` |
| RbInvokeProofs | TypeCorrect | | `[]TypeOK` |
| | ReplyWhole | | `[]WholeReply` |
| | MissingIgnored | an uninitialised rc does not hold `MISSING` | `[]MissingHarmless` |
| | InputAlwaysExact | data are what their types say | `[]InputExact` |
| | ReplyAlwaysExact | an uninitialised rc does not hold `OK` | `[]ReplyExact` |
| | TypesAlwaysKept | an uninitialised rc does not hold `OK` | `[]TypesKept` |
| | EchoAlwaysExact | | `[]EchoExact` |
| RequestsProofs | ParametersAgree | | the methods of CMPIProxyProvider, and those of the Ruby interfaces, take what the handlers pass, in number and order, for every operation |
| | TypeCorrect, AlwaysWired | | `[]` of TypeOK, Wired |
| | NoneAlwaysBalanced, FilterAlwaysExact, PropertyFilterAlwaysExact, BrokerExpressionAlwaysKept | | `[]` of NoneBalanced, FilterExact, PropertyFilterExact, BrokerExpressionKept |

An *orderly* broker (`OrderlyBroker`) serialises creation and cleanup, unloads
the library between its last MI and the next creation, and does not free what
the library frees.  Each of the three is needed: PyCount, PyReload and PyFree
break one each, and the third is not what the comment at
`cmpi_provider.c:257-258` asks of a broker.  No theorem assumes that a step of
`TargetInitialize` succeeds.  The constants' own assumptions are named in their
modules and evaluated by the runs.

### The arguments

*PyTarget.* MIsSafe alone is not inductive: a state in which Python is about to
be finalised under an operation satisfies it. `LifeInv` adds why that cannot
be: the broker's lock is held exactly by the thread that creates or cleans up
(SerialInv), a held MI has a live provider until its release (HandleInv),
Python is up while an MI or a call that has entered it uses it (UpInv; a
creation that has only found `_TARGET_INIT` set does not know), the module is
alive while an MI or such a call uses it (ModuleInv), and the counter equals
the number of users, with no stale copy of it in any thread (CountInv). One
lemma per group of actions shows that a step keeps it, and `LifeNext` puts them
together. For an orderly broker `FreshInv` adds what creations find: no dead
module, and a Python that is up if `_TARGET_INIT` says so; a library used again
without an MI is a fresh one. LockDiscipline has its own invariant, LockInv,
without any assumption on the broker. The refinement needs `LifeInv` to know
that a finalising thread leaves no users behind and that only one thread is
`due`.

*RbTarget.* Calls lie on stacks, so that the lemmas about `Push`, `SetTop` and
`Pop` come first: each changes one call and leaves the others as they were.
`FlagInv` says that at most one call of all threads has taken
`_stack_init_mutex` and is still in Ruby, and that the mutex is then locked; a
call that is unwound is removed from the stack and leaves the mutex as it is,
so that the converse is no invariant.  It needs nothing of the broker.
`SerialInv` has five parts: `_TARGET_INIT` is set exactly while Ruby is up, and
no root or held MI is dead (Basic); where a creation or cleanup is, what is
true of its MI, its root and the counter (CallsOK); that there is one of them
at most (OneAdmin); that no operation of an MI runs under its cleanup (Alone);
and that without one everything is settled: Ruby is up if an MI is held, every
MI has its root, and the counter is their number. AdminBegins, AdminGoesOn and
AdminReturns are the three ways in which such a call changes; operations change
nothing that SerialInv reads. For the refinement, `Buried` adds that a call
below another one is in Ruby, so that only the topmost can be the one that
finalises.

*Upcall.* `FrameOK` says what a frame knows of its own past, `Nested` which
frame may lie on which, `Flags` that the raised flag is set exactly if the
topmost frame is a wrapper about to look at it (`Failed`), and the error
indicator then and while that wrapper has set only the one (`Indicated`), and
`Told` what each thread's
last operation reported and why. A frame that is pushed on a wrapper waits
below it until it is popped, which is why the depth does not matter.

*PyProxies.* The cache holds proxies of the running interpreter under their own
names (CacheInv), and nobody works on an MI that another thread creates or
cleans up (OpAlone); `OneInv` adds that the cached proxy of a name is the one
its MIs have, for which one MI at a time must be created: the proxy is looked
up before it is entered.

*RbInvoke.* WholeReply says something only of states with a result or with `pc
= "done"`; `ReplyInv` adds that a result is there at the end only. `MissingInv`
says where the status of a missing argument may still be seen: until
`TargetCall` overwrites it. Its assumption is needed: `TargetInvoke` would
report whatever the stack held, that code included, after a conversion that
raised. `InvokeInv` counts the arguments read so far against those declared.

ReplyExact and TypesKept are about outputs, and an output is there because a
conversion put it there: `KeptInv` says that value and type of each output so
far are kept, and `ConvertKept` that every successful conversion keeps them.
That goes down to the scalars, one lemma for each kind, and to arithmetic: a
number between the bounds of `w` bits survives `% 2^w` and the reading of its
sign. The solver knows nothing of `2^w` for a variable `w`; PowerCounts makes
it the number of subsets of a set of `w` elements, and PowerPositive,
PowerGrows and PowerDoubles follow from the lemmas about finite sets. The
assumption is needed: with `OK` in the uninitialised `rc` a conversion that
raised counts as one that succeeded, and the datum is whatever the stack held.
EchoExact does without it, since data that Ruby holds can always be converted
back.

*Wrappers and Requests.* What a wrapper has copied so far is a prefix of what
it should copy (NewInv), and the copied list has the given names first and then
keys of the instance, each once (SetInv). `WrapperInv` is preserved by every
step of a wrapper, so Requests need only show that its own steps keep it, and
that the number of None in a tuple is the number of references taken for it.
Wired rests on three tables, that of the handlers, that of the Python methods
and that of the Ruby interfaces: ParametersAgree says that they match operation
by operation, PackWires that packing keeps the order while it replaces what the
broker left out and, in Ruby, what is false, and
`ReqInv` carries both from the packing to the call.

*PlTarget.* With one MI, whoever calls knows in which state it is. With two
PlUnload is a counterexample, so that Perl is not shown to implement
Interpreter, whose subject is sharing.

### Only model-checked

CallsReturn and the fairness part of both Implements, because liveness is
outside the prover's reach. Every invariant of a passing run has a theorem. The
properties of the violation runs do not hold; of them OneMIServed says what
still does.

## 5. What is not modelled

* The text of messages, and hence `get_exc_trace` and the failure of
  `PyString_AsString` on it; UpErrors has no messages because UpText ends in
  undefined behaviour with them.
* Allocation failures.
* Exceptions that Ruby raises outside `rb_protect` in `TargetInvoke` before the
  call: they unwind through C code and the broker.  The same in `TargetCall`
  and `TargetInitialize` is RbTarget's `Unwind`, for nested calls; for an
  outermost one it ends the process.  That `rb_gc_disable` is then not undone
  is left out.
* That an exception may be reported as a success, or as a refusal to unload,
  has no run of its own: `rc` (`target_ruby.c:424`, and 329, 574) is set only
  if the exception has an integer `@rc`.  RbTarget takes any status for the
  outcome, and its properties hold for all of them.
* Memory that is never freed, references to None excepted: the wrapper of a
  filter in the four filter operations (`cmpi_provider.c:950-1077`); the
  structure, the expression and the names of a select expression that fails
  part of the way, and the query and language buffers of a Ruby caller; the
  copied list of `set_property_filter` in Ruby; property lists whose
  operation's method is missing.  That `TargetCall` "releases" its arguments
  (`cmpi_provider.c:450-451`) is so only once the tuple has been built.
* What is read from memory nobody has set: RbInvoke and RbTarget take any value,
  Wrappers records the read and goes on with an empty list.
* The status of `CMSetArrayElementAt`, which `target_to_value` ignores, and how
  a value that is no array fails where one is declared: in RbInvoke it raises.
* What happens inside an interpreter that two threads enter without a lock
  (Ruby, Perl): a step between two broker calls is atomic in RbTarget and
  PlTarget.  Likewise that `target_python.c:425` and `cmpi_types.i:697` count
  references without the GIL.
* What the broker does with a result it refuses, and the search path that a
  failed start of Ruby lacks.
* What a provider does after its `MI_shutdown` (`cmpi_pywbem_bindings.py:719`):
  it may be shared by MIs of other types, and it may raise DO_NOT_UNLOAD there,
  which `cleanup` passes on, so that the MI stays.  PyProxies has both, but
  what a provider that was told to shut down does next is its own affair.
* `CMPIObjectPath`'s constructor and its parser, which build text, and
  `CMPIContext#get_entry_at` (`cmpi_types.i:1695-1766`).  Read for this
  project, the latter gives nil for every name in Ruby, while its comment
  promises a pair "by index or name".
* Ruby's date-times (`cmpi.rb:309-385`): formatting without state.  They are
  not inverse to each other: reading adds the milliseconds of the fraction as
  seconds, and a number is written as microseconds, while the comment above
  both says "interval in seconds, with fraction".
* The Python conversions of values (`cmpi_pywbem_bindings.py` 728-1021).  They
  map objects of two libraries to each other one by one, and what a value may
  be is decided by pywbem, which is not in the repository.
* The rdoc tools, build files, packaging, tests and sample providers, which are
  no part of a running provider.

## 6. Plan

Done, in this order: Interpreter, PyTarget and its proofs; RbTarget; Upcall;
PyProxies; RbValues, RbInvoke and its proofs; Wrappers, Handlers and Requests
(the filters and what requests pass); PlTarget; the proofs about RbTarget, its
refinement included, Upcall, PyProxies, Wrappers, Requests and PlTarget; those
about the values of RbInvoke and the wiring of Requests, for Python and Ruby.

What could follow: two output arguments in RbInvoke's run, whose order only the
proof of ReplyExact covers; the two date-time functions against each other,
once their unit is settled; the Python conversions against a model of pywbem's
types; and a second request at a time in Requests, if the wrappers ever share
more than None.
