# A verification development for ModernOPC

ModernOPC (`src/modernopc`) is a C++17 layer over open62541. A `Server` embeds
a `UA_Server`, caches one wrapper object per node and routes method calls and
variable accesses to C++ callables. A `Client` wraps a `UA_Client`. Values
travel as `Variant`s. This directory holds TLA+ models of the parts whose
correctness depends on ordering, ownership or interleaving, TLC configurations
that check them on small instances, and TLAPS proofs for all instances.

Paths below are relative to `src/modernopc` unless they start with another
directory of the repository.

## 1. Inventory

| component | state | operations | hard because |
|---|---|---|---|
| **Server, node registry** (`src/Server.cpp`, `nodes/*`, `DataSource.h`) | `objects`, `methods`, `variables`: `unordered_map<NodeId, shared_ptr<...>>`; in each wrapper a `callable` or `ds`; in `UA_Server` the nodes and a raw *node context* pointer per node | `createObject/Variable/Method`, `getObject/Variable/Method`, `addMethod`, `bindCallable`, `connectCallback`, `loadNodeset`, `invoke`, `internalMethodCallback`, `internalRead`, `internalWrite`, `~Server` | the raw pointer and its owner live apart; callbacks run on the thread of `run()`, nest, and register nodes themselves; registrations fail half-way |
| **Server, lifecycle** (`src/Server.cpp`) | `isRunning`, state of `UA_Server` | `run`, `stop`, `~Server` | threads of the owner, of `run()` and of callers of `stop()`; a `stop()` may be early or late |
| **Variant, ownership** (`Variant.h`, `src/Variant.cpp`) | `variant`, `owned` | constructors, copy, move, assignments, destructor | owned, borrowed and moved-from values mix; memory comes from three allocators' worth of conventions |
| **Client, session data** (`src/client/Client.cpp`, `ClientJson.cpp`) | `namespaces`, `connState`, `customDataTypes` of `UA_Client` | `connect`, `disconnect`, `resolveNamespaceUri`, `resolve`, `loadNodeset`, `findCustomDataType` | caches facts about a server that changes and restarts |
| **Client, services** (`src/client/Client.cpp`) | the `NodeId`s an application keeps | `read`, `write`, `call`, `browse` | a `NodeId` is used later than it was got, on a server that changes |
| **Variant, comparison and conversion** (`src/Variant.cpp`, `Variant_get.cpp`, `Variant_fromJson.cpp`) | the value in each `UA_Variant` | `operator==`, `get<T>`, `operator()`, `fromJson` | arrays, types without a comparison, memory of a value written over |
| **Method marshalling** (`methods/*.h`) | arguments a node announces, the callable bound to it | `addMethod`, `bindCallable`, `Call<...>::call`, `getInputArguments`, `getOutputArguments` | announced arguments against used ones, which nobody compares |
| **Events** (`src/nodes/ObjectNode.cpp`, `events/`) | `eventFields` | `setEvent`, `setUpEvent`, `setMessage`, `setSourceNode`, `setEventField` | partial failure, objects used again |
| **NodeId** (`src/types/NodeId.cpp`, `types/NodeId.h`) | none | `fromNodeId`, `fromUaNodeId`, `==`, hash | the maps tell nodes apart by it, `UA_Server` by `UA_NodeId` |
| QualifiedName, LocalizedText (`src/types`) | none | conversions | |
| **TypeGenerator** (`src/TypeGenerator`) | `order`, `generated`, the table of types | `addNode`, `buildOrder`, `generateClass` | order of declarations, recursion over user data, text that has to fit text written elsewhere |
| Logger, import extensions | none of interest | | |

How they interact. The application registers nodes through `ObjectNode` and
`Server`, which call `UA_Server_*`. `UA_Server` calls the three static
callbacks of `Server` with the node context it was given, and these call the
`ICallable` or `DataSource` there, which may call any public function again.
`Variant`s wrap what `UA_Server` lends to a callback, or what `UA_Client_call`
returns. `run()` blocks in `UA_Server_run` until `isRunning` is false.

What makes each component correct: no raw context outlives what it points to,
and each points to something of the kind the callback casts it to (registry);
a `stop()` ends `run()`, and the port is closed exactly when nobody serves it
(lifecycle); a method takes and returns what it announced (methods); every
`UA_Variant` is deleted once, by its owner (Variant); an event carries what was
set last (events); what the client cached is what the server says now (client);
a `NodeId` leads every service to the node it was got for (client, NodeId);
equal means the same, and a value changes only by what is done to its own
`Variant` (comparison); a class is declared before it is used, and converted as
it was declared (TypeGenerator).

`PROJECT.json` lists the hazards, each at the line where it bites.

## 2. Modules

| module | models | checked by | proved in |
|---|---|---|---|
| `NodeBinding` | what the registry promises, without wrappers, maps and handles | refined by `ServerRegistry` | |
| `ServerRegistry` | `Server`'s maps, wrappers, contexts, callbacks | `MCServerRegistry`, `MCServer` | `ServerRegistryProofs` |
| `ServerLifecycle` | `run`, `stop`, `~Server` | `MCServerLifecycle` | `ServerLifecycleProofs` |
| `Server` | the two together: who registers, serves and destroys when | `MCServer` | `ServerRegistryProofs` |
| `MethodDispatch` | arguments and outputs of a method call | `MCMethodDispatch` | `MethodDispatchProofs` |
| `VariantOwnership` | `Variant`'s special members and its users | `MCVariantOwnership`, `MCVariantContents` | `VariantOwnershipProofs` |
| `ValueSemantics` | what `Variant` promises, without memory | refined by `VariantContents` | |
| `VariantContents` | `VariantOwnership` with values, `operator==` and `operator()` | `MCVariantContents` | `VariantContentsProofs` |
| `EventFields` | the fields of events, shared by the next two | | |
| `EventDelivery` | what `setEvent` promises, without nodes of `UA_Server` | refined by `EventEmission` | |
| `EventEmission` | `setEvent` and the events it creates | `MCEventEmission` | `EventEmissionProofs` |
| `ClientSession` | namespaces and data types a `Client` keeps | `MCClientSession`, `MCClientServices` | `ClientSessionProofs` |
| `NodeKeys` | `NodeId` and `UA_NodeId`: conversions, `==`, hash | `MCClientServices` | `ClientSessionProofs` |
| `ClientServices` | `resolve`, `browse`, `read`, `write`, `call` over the two | `MCClientServices` | `ClientSessionProofs` |
| `TypeTable` | what the TypeGenerator promises, without its traversal | refined by `TypeGenerator` | |
| `TypeGenerator` | `addNode`, `buildOrder`, `generateClass`, members and their conversions | `MCTypeGenerator` | `TypeGeneratorProofs` |

### 2.1 ServerRegistry

* `class`, `hooked`, `context` are the address space of `UA_Server`: the class
  of a node, whether it has a method callback or data source, and its context.
* `wrap` is the memory of the wrappers: class, `Node::id`, and the payload
  (`MethodNode::callable`, `VariableNode::ds`). `registry` holds the wrappers
  the three maps hold, `handles` those the application holds. A wrapper in
  neither is destroyed, in the same step, with its payload.
* `heap` says of each payload address whether it was allocated, as what, and
  whether it was freed. Addresses are not reused, so a use after free shows.
* `op` is the registration in progress. A function that makes several
  `UA_Server_*` calls has one action per call: `createObject` is `CreateObject`
  then `SetObjectContext`; `bindCallable` is `BindCallable` (the `make_unique`,
  which destroys the old callable), `HookMethod`, `ConnectMethod`;
  `connectCallback` is `ConnectCallback`, `HookVariable`, `ConnectVariable`,
  `ResetDataSource`. `addMethod` is `CreateMethod` followed by the same steps
  from `BindAdded` on. Failed calls return early and change nothing; they are
  the disabled cases of the actions.
* `frames` are the callbacks in flight. `Dispatch` is `UA_Server` reading the
  context, `Enter` the null check of the static callbacks and the call,
  `Return` the end of the callback, `Invoke` a direct `MethodNode::invoke`.
* `DeleteServer` and `FreeRegistry` are the two halves of `~Server`.

`UA_Server` is external; each of its functions is one step. Two constants say
what the application does. `Interleave`: callbacks run on the thread of `run()`
while another thread registers; otherwise everything runs on one thread, as in
the tests and tutorials, which register before `run()` and inside callbacks.
`Rebinding`: whether the application binds a node again: never (`"none"`), only
while no callback uses the old payload (`"quiet"`), or at will (`"any"`).

With `Rebinding = "any"`, `NoUseAfterFree` does not hold: `bindCallable`
destroys the running callable, and between `MakeCallable` and `ConnectMethod`
the context of the node is a freed pointer. The repository neither does this
nor promises it; the theorem names the condition (`Careful`).

`NodeBinding` is the abstract specification: a node has a class for good and at
most one binding; only a bind changes it; a served call gets the binding of
that moment. The refinement maps `kind` to `class`, `binding` to `context` and
`serving` to the node and callee of `frames`. Failed creations, lookups and
dropped handles are stuttering steps there.

### 2.2 ServerLifecycle

The owner follows `tests/client.cpp`: it launches `run()` with `std::async`,
waits, and destroys the server. `Threads` call `stop()`, and so may a callback
(`CallbackStop`). `UA_Server_run` is external: start-up, which may fail, then
the loop that reads `isRunning` before each iteration, then the shutdown.
`Start` waits for nothing but the end of the earlier `run()`: a `stop()` of that
one may still be half-way. `overtaken` is a history variable: the threads whose
`stop()` was between its two statements when the first statement of `run()`
wrote `isRunning` over. A callback that called `stop()` returns to its
iteration, which may call others before it ends.

A `stop()` in `overtaken`, be it meant for this `run()` or for the one before,
still calls `UA_Server_run_shutdown` and closes the port of a server that goes
on. That is what the code does. `ReachableWhileRunning` names this case and
shows that it is the only one.

### 2.3 Server

`Server` EXTENDS `ServerRegistry` and takes the steps of `ServerLifecycle`
(`Life`) with those of the registry. `thread` says whose the callbacks in
flight are: of an iteration of `run()`, or of the owner, who calls methods and
reads variables itself while nothing runs. There is one stack of callbacks.

* `Iterates` is the end of an iteration: its callbacks have returned.
  `CallbackStops` is a `stop()` inside a callback.
* `MayRegister` says whose the registrations are: the owner's before and after
  `run()`; while it runs, the owner's on another thread (`Interleave`) or those
  of callbacks; and after `~Server`, when only handles are dropped.
* `OwnerIsFree` is program order: the owner starts, waits and destroys between
  its registrations, and not inside a callback of its own.
* `Deletes` is `UA_Server_delete` with the nodes. `ServerRegistry` has a guard
  there: nothing is in flight. `Server` does not: that it holds follows from
  the order of the owner's steps, and is what `RegistrySpec` and
  `ServerImplementsRegistry` show. A `Server` destroyed before the wait for
  `run()` is over (the mutant `DestroysAtOnce`) breaks it.

### 2.4 MethodDispatch

`announced` are the arguments of the method nodes, `callable` the type of what
is bound to each. `AddMethod` announces `MethodTraits` of the callable;
`LoadMethod` announces what a nodeset says, and `BindCallable` binds anything.
`CreateMethod` announces what its caller says and sets the callback, but binds
nothing. `hooked` are the nodes that call `internalMethodCallback`: without a
callable it answers `BadMethodInvalid` (`CallUnbound`); for a method of a
nodeset that nothing was bound to, `UA_Server` answers itself
(`CallUnhooked`). A call is `Call` (or `Invoke`, by the application itself),
one `Read` per parameter, `Apply`, `Returns`, one `Write` per result,
`Written`, `Answer`. `pc = "lost"` stands for undefined behaviour: an index
outside a vector, a `Variant` read as another type or without a value, or a
member function on an object that is not of its class. `Served` says when a
client may rely on the call: the node announces what its callable is
(`Announces`). Between the parameters and the body other methods may be
registered and bound, as callbacks do; the binding of the method that executes
is `ServerRegistry`'s subject.

Two things reach `"lost"` all the same, and `AccessesAreValid` names them:

* A `Variant` without a value (`Empty`). `Server::create` takes the default
  configuration (`src/Server.cpp:72`), in which `UA_Server` lets one pass for
  any argument. `get<T>` then dereferences `data`, which is null
  (`src/Variant_get.cpp:54`); read as a vector, it is an empty one.
* `context`, the node context of the object called. `Call` casts it to the
  class of the member function without a check, so a method that is called on
  an object without a context, or with one of another class, runs on that.

For every other input, each access is inside the vectors and of the right type.

A vector parameter is announced as a scalar (`InputArgument`), so `UA_Server`
refuses arrays for it and accepts a scalar, which `get` reads as an empty
vector. No call of a client gets elements into such a parameter;
`ArgumentsArrive` states this as it is. Nothing in the repository declares a
method with a vector parameter.

### 2.5 VariantOwnership

`ptr` and `owned` are the two members of each `Variant`; `cell` is the memory
they point to, with its provenance: allocated alone or first in an array
(`heap`), inside an array (`element`), lent by `UA_Server` (`lent`), given back
to it (`returned`), `freed`. What the memory contains is in `VariantContents`.
`CallReturns` and `WrapOutput` are `Client::call`.

`argument` are the `Variant`s `Server` makes for a callback. When one of them
is destroyed, `UA_Server` has its memory back (`TakeBack`), whether or not the
callback moved the pointer into a `Variant` of its own: the outputs of a
`FunctionCall` are a vector it may change (`methods/MethodWrapper.h:129`).

`undefined` is set when a `Variant` whose pointer is null or `returned` is
copied, copied to or otherwise used (`Usable`). C++ gives such a program no
meaning, so no step follows, and the properties speak of all states up to
there. `CopyAssign` to a `Variant` that was moved from is such a step: it sets
`owned` and copies to a null pointer (`src/Variant.cpp:41`). Moving, assigning
by move to, and destroying such a `Variant` are well defined, and modelled.

`CopiesToLent` allows copy assignment to a `Variant` that borrows, which sets
`owned` on memory of `UA_Server`. The repository's own callbacks write through
`operator()`, never by assignment, so it is `FALSE` in the runs; with `TRUE`,
`DeletesAreValid` fails.

### 2.6 VariantContents

`VariantContents` EXTENDS `VariantOwnership`. `content` is the value in each
`UA_Variant`: its type, whether it is a scalar, and the elements `data` points
to. Each step of `VariantOwnership` is taken with what it does to the contents:
`CopyAssignValue` clears what the left side owns and then reads the right side,
so that a `Variant` assigned to itself loses its value. `Use` is taken as
`Read` (`isEmpty`, `operator==` and the like; what `get` finds there is
`MethodDispatch`'s subject) or as `Write`, which is `operator()`. A `UA_Variant`
that was given back has the value `Gone`.

`Equal` is `operator==`, with a third answer, `"undefined"`: for a type without
an entry in the comparison table an assertion fails, and an array without
elements has nothing `data` could point to. For arrays only the first elements
are compared; `EqualMeansSame` says of arrays only that the same ones are equal,
as that is all the code does.

`operator()` on a `Variant` that has a value leaks what its `data` points to
(`toUAVariant` begins with `UA_Variant_init`). The model has the `UA_Variant`s
and not the memory behind `data`, so this leak is not in it.

`ValueSemantics` is the abstract specification: each live `Variant` has a value
of its own or was moved from, a copy is equal and independent, a move takes the
value along, and no operation changes a third one. There is no `UA_Variant` in
it, so aliasing cannot even be said. `views` are the `Variant`s whose value is
somebody else's: such a value may go (`Expire`), and moving it moves the view,
but a copy of a view is never one. A program that uses a `Variant` without a
value fails (`Fail`); the implementation may fail in no other case. Its oddity
is the code's: a `Variant` assigned to itself ends up empty. The refinement maps
`value` to what `ptr` points to and `views` to the `Variant`s that do not own.

### 2.7 EventEmission

`eventFields` are the lists of the application's event objects: `setMessage`,
`setTransition`, `setEventField` append. `setEvent` is `SetEvent` (which
appends the source), `CreateEvent` or `CreateFails`, one `WriteField` per
field, `Written`, and `Trigger` or `TriggerFails`. A field is skipped when its
path is unknown (`Resolves`) or its value refused (`Refused`); a failed
creation is logged and `setEvent` goes on. `nodes` are the event nodes of
`UA_Server`. `eventNodeId` is a local variable that is never initialized: in
`SetEvent` it holds what the last call left in that memory, or anything else.
`sent` records what clients were told, with the fields asked for.

`failed` is a history variable: which function of `UA_Server` failed in which
call. `Reliable` says that not both functions have failed so far. If triggering
failed, an event node stays; if then creating fails, and the memory still holds
that node's id, the old event is sent in place of the new one. The properties
hold in all other cases.

`EventDelivery` is the abstract specification: a call of `setEvent` ends in
exactly one report to the clients, made before the next call begins, that
carries the latest value of every field; or a function of `UA_Server` failed in
that very call. So a failure affects no later event, unless both kinds occur.
The refinement hides the event nodes and `eventNodeId`; the steps between
creating and triggering are stutters.

### 2.8 ClientSession

`serverNs` is the server's namespace array, `namespaces` the client's copy,
`types` the custom data types with the namespace index their ids carry.
`connect` appends what it reads; `loadNodeset` replaces the types. The server
adds namespaces and restarts with any of `Arrays`, which closes the session.
`changed` is a history variable: its array changed after the first `connect`.
`SameServer` is what the correct answers depend on.

### 2.9 NodeKeys and ClientServices

`NodeKeys` has the two forms of a node's id and the conversions between them.
A numeric id is cast to `int` and back, modulo `IntModulus` (2^32); an
identifier of bytes goes through `c_str()`, which cuts it at the first NUL byte
(`CStr`); a `Guid` is copied member by member. `SameKey` is what
`std::unordered_map` asks: the hash, which does not look at the type, and
`operator==`, which does. Hashes are taken to be without collisions.

`ClientServices` EXTENDS `ClientSession` and `NodeKeys`. `Nodes` are nodes of
nodesets, each with its URI and identifier; which of them exist, and with which
namespace index, follows from the server's array. An application gets a
`NodeId` from `Resolve` or from `Browse` and keeps it (`held`); `Access` is a
`read`, `write` or `call` with it, at any later time, and `reached` records the
node it was meant for and the one the server found. Between the two the server
may add namespaces or restart, and the client may connect again.
`findCustomDataType` takes the namespace index of a `NodeId` to choose among
the client's data types.

The properties hold while `SameServer` does, for identifiers that are not cut
(`Uncut`). A NodeId that was resolved or browsed before a restart with another
array leads elsewhere; `client_reconnect` shows where that starts.

### 2.10 TypeGenerator

`types` is the table `addNode` fills, `order`, `generated` and `output` are the
members and the files of the generator, `stack` the call stack of `buildOrder`,
made explicit: a type and the next of its fields. `Descend` is the recursive
call, `ReturnTrue` and `ReturnFalse` its returns; an unknown type unwinds the
whole stack, and `generateClass` gives up. `Emit` takes one type from `order`.

Of the text of a class, `Member` is how `addPrivateMember` declares a field and
`Conversion` how `addFromConversionFunction` converts it; the rest is left out.
`Rank` gives each field its value rank, by its class and its type: of a field
the two functions read only its type and its rank. `Small` are the ids up to
11, which `getScalarConversion` takes for built-in types without a look at the
namespace (`src/TypeGenerator/types/EnumDataType.cpp:54`). `Classes` are the
built-in types that are C++ classes: `std::string`, `NodeId`, `QualifiedName`
and `LocalizedText` (`src/TypeGenerator/main.cpp:66`).

`ConversionsFit` relates declaration and conversion of every field in the
files. It names the three cases in which the code does not make them fit, and
shows that there are no others:

* rank 0, which `addPrivateMember` declares as a vector (`> -1`) and
  `addFromConversionFunction` converts as a scalar (`> 0`);
* a built-in class as the type of a scalar, which `BaseDataType` converts with
  the `static_cast` of a number (`src/TypeGenerator/types/BaseDataType.cpp:16`);
* a generated class with a small id, which is cast like a number too.

In all three the generated code does not compile. The names in the text, such
as the C++ names of the built-in numbers, are not modelled.

`TypeTable` is the abstract specification: a request generates exactly what the
type is made of, or nothing; the traversal is a stutter.

## 3. Runs

| run | question | result |
|---|---|---|
| `registry_callback` | one thread, callbacks register and nest | type invariant, `NoUseAfterFree`, `OneWrapperPerNode` and the refinement of `NodeBinding` hold |
| `server` | registrations and callbacks interleave, nodes bound again at will, `stop()` and `~Server` | `SettledContext`, `TypedContext`, `VariableContextLive`, `CallbacksAreServed` hold; the whole is a registry (`RegistrySpec`) |
| `lifecycle` | `stop()` by anyone at any time | `PortReleased`, `ReachableWhileRunning`, `LateStopEndsRun` hold |
| `lifecycle_lost_stop` | two threads that stop, one run | **violated**: `StopEndsRun` |
| `methods` | calls with any arguments of any methods | type invariant, `AccessesAreValid`, `ArgumentsArrive`, `OutputsAreAnnounced` hold |
| `variant_values` | any sequence of `Variant` operations, with values | no alias, no bad delete, no dangling borrow, no leak; `EqualMeansSame`, `OnlyItself` and the refinement of `ValueSemantics` |
| `variant_outputs` | a method with two outputs | **violated**: `DeletesAreValid` |
| `events` | event objects used again, failing fields and functions | type invariant, `CarriesLatest`, `NamesItsSource`, `NoNodeLeft` and the refinement of `EventDelivery` hold |
| `client_same` | NodeIds kept and used while the server grows, restarts and is connected to again | indices and type ids are the server's (`ResolvesOnSameServer`, `TypeIdsAreServers`); `ServicesReachTheNode`, `KeysAgree`, `DecodesWithItsNodeset` |
| `client_reconnect` | `connect()` again, after the server has added a namespace | **violated**: `ResolvedIndexIsServers` |
| `client_nodesets` | two `loadNodeset` | **violated**: `LoadedTypesAreFound` |
| `types` | any graph of types, two requests | type invariant, `DeclaredBeforeUse`, `GeneratedOnce`, `ConversionsFit`, `GenerateEnds` and the refinement of `TypeTable` hold |

The four violations, with the lines they contradict:

1. *Lost stop.* `run()` sets `isRunning` (`src/Server.cpp:83`). A `stop()`
   before that is overwritten, `run()` never returns, and the `f.wait()` of
   `tests/client.cpp:76` blocks for ever. The test sleeps 100 ms to avoid it.
2. *Outputs.* `Client::call` (`src/client/Client.cpp:177`) makes an owning
   `Variant` of each element of one array. The first destructor frees the
   array, the second an address inside it. `tutorials/methods/methods.cpp:54`
   offers such methods.
3. *Appended namespaces.* `connect()` appends what it reads to `namespaces`
   (`Client.cpp:59`), and `resolveNamespaceUri` returns the place of the first
   match. Called again on the open channel, after the server has added a
   namespace, it leaves that namespace behind a whole copy of the old array: it
   resolves to 4 where the server has it at 2. `Client.h:51` promises the index
   "on server side".
4. *Replaced data types.* `loadNodeset` overwrites `customDataTypes`
   (`Client.cpp:235`); `Client.h:49` says it adds them.

### Bounds, and why they are enough

* Registry: two requested ids and one made-up id, so that a collision, two
  nodes of different classes and the null id occur; three wrappers and three
  payloads, so that a node is bound, bound again and another one is bound;
  nesting of two, so that a callback runs inside a callback of the same node.
  Wrappers and payloads are symmetric: no formula names one.
* Server: the same with one requested id, which together with a made-up one
  still lets two nodes of different classes be registered while callbacks of
  either run; one thread that stops, and one `run()`, so that `stop()`, a
  callback and `~Server` can meet. More of these are in `lifecycle`.
* Lifecycle: three stopping threads (one on time, two late) and three runs (a
  late shutdown meets the next run, and the one after that). The lost stop needs
  one run and one thread; a second one could stop the server in its place, and
  does not have to.
* Methods: two methods, one of which is registered while the other executes; an
  object with a context and one without, and a second class, which only `invoke` passes;
  callables with none, one and two parameters and results, of two types and
  both ranks, so that positions, types and ranks can be confused; Variants
  without a value at every place. Only the methods are symmetric.
* Variant: three Variants and three `UA_Variant`s: assignment between two while
  a third still points somewhere (`variant_outputs` has five, for two calls). Both sets are symmetric. Seven values:
  scalars and arrays of a type that is compared, a scalar of one that is not,
  NaN, an array without elements, and two arrays that differ behind their first
  element. Calls have one output; `variant_outputs` allows two.
* Events: one event object, used up to three times, with up to four fields of
  the library's paths and one unknown path; two values, one refused for one
  field; two (symmetric) objects.
* Client: four URIs and four arrays in which a nodeset is missing or has
  another index; two connections show the stale index, and that connecting
  again to the same array does no harm. Eight nodes: of every kind of id, of
  two nodesets that share an identifier, and of one nodeset whose identifiers
  differ in the type only, in the sign they have as `int`, behind a NUL byte,
  or in one member of a `Guid`. Integers have 3 bits (`IntModulus`), so that
  both signs occur; `IndexModulus` is the length of the longest array.
* Types: a built-in class and three other types, one of them with a small id;
  every graph with up to two fields per type, where enumerations, which are cast
  as the built-in numbers are, take the place of these; two requests; ranks -1 to 2. A call stack of four holds every path without a repetition; longer ones are in a
  type that contains itself, whose recursion would end with the real stack.

What is proved does not depend on these bounds.

Runs with `CHECK_DEADLOCK FALSE` are those where the system may stop: addresses
are used up or the server is destroyed (registry, server, Variant), the server
is gone (lifecycle), a call went astray (methods), the calls are used up (events), the
requests are used up or the stack is full (types), the session is idle
(`client_nodesets`).

### Fairness

`ServerLifecycle`: weak fairness of the steps of `run()`, of the second half of
a `stop()` under way, and of `Join`: threads that are scheduled. Strong fairness
of `Iterate`, which is not enabled while a callback is inside `stop()`: an
iteration calls finitely many callbacks and returns. `UA_Server_run_iterate`
waits a bounded time, and a callback is assumed to return. Nobody has to start, stop or destroy a server.
`TypeGenerator`: weak fairness of the steps of `generateClass`, a sequential
program that is not interrupted. Nobody has to call it.

## 4. Proofs

All theorems hold for arbitrary sets of ids, wrappers, payloads, threads,
callables, Variants, URIs and so on, from the constants' named assumptions
only. `CallbacksRunLiveCode` and the theorems about Variants assume more, named
below. Where a property holds only under a condition, the condition is part of
the property, over the state or a history variable, and not an assumption of
the proof.

*Registry.* `IInv` is `TypeOK` and five parts: `WrapperInv` (a wrapper is alive
exactly while a map or handle holds it, and its payload is allocated and of its
kind), `OwnerInv` (no payload has two owners), `MapInv` (one wrapper per node,
in the map of its class), `OpInv` (what each step of a registration relies
on), `ContextInv` (a context is owned by the mapped wrapper or by the
registration in progress). None of the checked properties is inductive alone:
`SettledContext` says nothing in the middle of a registration, which is where
it could be lost; `OpInv` carries it across. From `Invariance` follow
`ContextsAreOwned`, `VariablesStayLive` and `WrappersAreUnique`, with no
condition on interleaving or rebinding. `ContextsAreTyped` needs `TypedFrames`
as well: what a callback took from its node keeps its kind until it is cast,
because memory that was allocated only ever ages (`HeapAges`), whatever is
bound meanwhile.
`CallbacksRunLiveCode` assumes `Careful` (no rebinding, under any interleaving,
or quiet rebinding on one thread) and adds `FrameInv` (the callee of a callback
is kept by a wrapper that cannot be dropped: one in the maps, or one the caller
of `invoke` holds) and `BindInv` (what is being replaced is not in use).
`ImplementsBinding` shows that every step is one of `NodeBinding` or a stutter.
What `NodeBinding` promises of a served call needs one more invariant,
`InvokeInv`: `invoke` takes its callable from the wrapper, a call of a client
takes it from the context, and the two are the same except in the middle of a
`bindCallable`. A registration of several steps is one step there, the one that
sets the context; all others are stutters.

*Lifecycle.* `PhaseInv` relates the phase of `run()` to the port and the owner,
for any timing; `StopInv` says that who is half-way through a `stop()` while
the flag is set is in `overtaken`. They give `PortIsReleased` and
`StaysReachable`, which assume nothing of who stops and starts when.

*Server.* `ServerInv` has three parts. `Waits`: `run()` is under way exactly
while the owner has started and not yet joined it. `CallbacksAreServed`: whose
callbacks may be in flight. `OpIsHeld`: a registration in progress is that of a
thread that can go on with it: the owner's, or a callback's inside an
iteration, which does not return before it is done. Each part needs the others:
callbacks are over when `run()` returns (`CallbacksEndWithRun`), so nothing is
in flight when the owner, who waited for it, destroys. That makes a step of
`Server` one of `ServerRegistry`, guard of `DeleteServer` included
(`ServerImplementsRegistry`), and one of `ServerLifecycle`
(`ServerImplementsLifecycle`). So all theorems about the two hold of the whole;
`ServerKeepsContexts` and, assuming `Careful`, `ServerRunsLiveCode` state the
most important ones.

*Methods.* `VectorsFit` keeps, through a call, what `UA_Server` checked when it
began; `ReadsSoFar` and `WritesSoFar` say how far the loops are. `TraitsOf`
says what `MethodTraits` announces; `ReadFits` joins the two: an accepted
argument can be read as the parameter it is for, unless it has no value and the
parameter is a scalar. The properties speak of single
moments (`pc = "lost"`, `"apply"`, `"done"`), so none is inductive.

*Variant.* The four properties are inductive together with `DeadInv`,
`CellInv` (each `UA_Variant` is an allocation of its own) and `OutputInv`, up to
the first use of a `Variant` without a value (`undefined`), and assuming `Disciplined`: at most one output per call and no copy assignment to a
lent Variant. Both are needed, as `variant_outputs` and the constant show.
`ImplementsValues` shows, under the same assumption, that each operation on
`Variant`s is the operation of `ValueSemantics`, and each step that is none
(`UA_Server` takes back what it lent, the outputs of a call arrive) leaves all
values alone. It goes action by
action: by `NoAlias`, what is cleared or written to belongs to no other
`Variant`; by the other invariants, what a `Variant` points to is there,
if it has not been given back (`PointedAtHolds`). So `undefined` becomes true in
the two modules in the same steps.
`ContentsKeepOwnership` says that a behaviour of `VariantContents` is one of
`VariantOwnership`, so the four hold there too. `ValuesAreTheirOwn` goes action
by action, from `NoAlias`: two `Variant`s never share the `UA_Variant` that a
step changes. `EqualTellsSame` follows from what `Equal` looks at.

*Events.* `CarriesWritten`, `CarriesSkipped` and `CarriesLast` say what one
more field does to what an event carries, whatever the list. `WritesSoFar` and
`WritesDone` carry `CarriesLatest` through the loop, `SourceIsLast` gives
`NamesItsSource`, and `NodesAreOwn` that no other node can be triggered.
`ImplementsDelivery` adds `ThisCall`, which functions can have failed in the
call under way, by how far it is: a call that triggers no event is one in which
something failed, and one in which nothing failed reports.

*Client.* `IndexOfFirst` identifies the index with the first match; appending
does not move a first match. So a client's first array decides, and it agrees
with the server's while `SameServer` holds. `ServicesKeepSession` makes that
available to the services. `ConvertsBack` (a converted id, converted back, is
the same, unless cut) and `KeysTellApart` (two ids are the same key exactly if
they are the same id) are about `NodeKeys` alone, for any moduli; both rest on
the cast between `int` and `UA_UInt32` being invertible. `HeldInv` says that a
`NodeId` that is held is what the server's own id of the node converts to, at
the index the server gives its URI; resolving gives the same `NodeId` as
browsing. `ServicesReach`, `MapsAgreeWithServer` and `DecodesRight` follow.

*Types.* `StackIsOrdered` says that each call on the stack has ordered the
fields before the one it is at, except what its callee works on;
`OrderIsOrdered` and `GeneratedIsOutput` carry `DeclaredBeforeUse` and
`GeneratedOnce` through the loop of `generateClass`. A type that contains
itself does not disturb them: its call never returns. `MembersAreConverted`
(`ConversionsFit`) follows from these, type by type, with its three exceptions.
`ImplementsTable` shows that a request generates the closure of the requested
type, which `TypeTable` defines as the least set with all parts of its members.
One direction is `WithinRequest`: only what is in the closure is looked at. The
other is that what is ordered is a set with all parts of its members, when
`buildOrder` returns, so it contains the least one.

Model-checked only: `LateStopEndsRun` and `GenerateEnds` (liveness, out of the
prover's reach), and the violations.

## 5. Not modelled, and why

* `UA_Server`, `UA_Client` and NodesetLoader are external: modelled as far as
  the code relies on them. Data races on `isRunning` and inside `UA_Server`,
  which open62541 forbids for its single-threaded build, are outside the
  models' grain: each of its functions is one step.
* Exceptions that a callback throws through the C frames of `UA_Server`
  (`src/Server.cpp:138`): what follows is not defined by this code.
* The text `toString`, `operator<<` and logging produce, and the parsing of
  JSON behind `fromJson` and `createVariantFromJson`: no state depends on it.
* The memory of the requests and responses of `browse`, `read` and `write`.
  `browse` throws before it clears them (`src/client/Client.cpp:203`); it is a
  leak on one path, with no interleaving to explore.
* The connection state of the client: `connState` is set once, in `connect`,
  and only read otherwise. `write` of `VariableNode` returns true whatever the
  server said (`src/nodes/VariableNode.cpp:30`, a stray `;`), so its result
  carries no information a property could use.
* `QualifiedName` and `LocalizedText`: two members each, copied.
* The import extensions, which store what the loader hands over and are not
  wired to it; the logger; the tests, benchmarks and tutorials, which are read
  for what applications do.
* `main` of the TypeGenerator (`src/TypeGenerator/main.cpp`): arguments and
  files. A type that no nodeset defines is dereferenced there (line 114) before
  `generateClass` is called.
* The generated text beyond members, their conversions and the order of
  classes.

## 6. Plan

Done: the modules of section 2 with their runs, and the proofs of section 4.
Left, in order of what matters most:

1. Method calls as seen by a client: `MethodDispatch` as an implementation of a
   call that runs the body exactly once and answers with what it returned.
2. The memory behind the `data` of a `UA_Variant`, for the leak in `operator()`,
   and that of the client's requests and responses, over all error paths.
