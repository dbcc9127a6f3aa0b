--------------------------- MODULE MethodDispatch ---------------------------
(***************************************************************************)
(* A method call, from the arguments a client sends to the outputs it gets. *)
(* A method node announces arguments, which UA_Server compares with those   *)
(* of a call; internalMethodCallback hands vectors of Variants to the       *)
(* callable, and Call<...>::call takes its parameters from one and writes   *)
(* its results to the other, by position.  addMethod derives what is        *)
(* announced from the type of the callable; a node of a nodeset announces   *)
(* what the nodeset says, and one of createMethod what its caller says,     *)
(* whatever is bound to it.                                                 *)
(***************************************************************************)
EXTENDS Naturals, Sequences

CONSTANTS
  Methods,    \* ids of method nodes
  Objects,    \* objects they are called on
  Classes,    \* C++ classes of the contexts of objects
  ContextOf,  \* the class of the context of each object, or None
  Types,      \* OPC UA data types
  Data,       \* scalar values and non-empty arrays
  Nothing,    \* the empty array
  Empty,      \* the Variant that holds no value
  Unset,      \* an output nobody wrote
  None,       \* no node, no callable, no context
  Callables,  \* types of the callables the application binds
  Described,  \* arguments that nodesets and createMethod announce
  Sent,       \* input arguments of calls
  MaxOutputs  \* bound on the outputs of an invoke

\* A C++ type: a vector has the data type of its elements.
Kind == [type: Types, vector: BOOLEAN]

\* A callable: a member function, any other function or a FunctionCall, which
\* takes and fills the Variants itself; the class of a member function; the
\* parameters, and the results, which are none for void and several for a tuple.
Callable == [form: {"member", "free", "raw"}, class: Classes \cup {None},
             ins: Seq(Kind), outs: Seq(Kind)]

Argument == [type: Types, array: BOOLEAN]
Arguments == [ins: Seq(Argument), outs: Seq(Argument)]
Value == [type: Types, array: BOOLEAN, data: Data \cup {Nothing}]

ASSUME DispatchAssumption ==
  /\ Callables \subseteq Callable
  /\ ContextOf \in [Objects -> Classes \cup {None}]
  /\ Described \subseteq Arguments
  /\ Sent \subseteq Seq(Value \cup {Empty})
  /\ MaxOutputs \in Nat
  /\ None \notin Callable /\ None \notin Arguments /\ None \notin Methods
  /\ Unset \notin Value /\ Empty \notin Value

VARIABLES
  announced, \* the arguments of the method nodes
  callable,  \* what is bound to them
  hooked,    \* the nodes whose callback is internalMethodCallback
  pc,        \* "idle", "read", "apply", "write", "done", or "lost" after an
             \* access outside a vector, to a value of another type or to none,
             \* or to an object of another class or to none
  caller,    \* "server" or "application", which may invoke a method itself
  method,    \* the method called
  context,   \* the class of what a member function gets as its object, or None
  inputs,    \* inputArguments
  args,      \* the parameters taken from them so far
  result,    \* what the body returned
  outputs,   \* outputArguments
  written,   \* how many of them were written
  status     \* what the caller gets

nodes == <<announced, callable, hooked>>
vars == <<announced, callable, hooked, pc, caller, method, context, inputs, args,
          result, outputs, written, status>>

Running == callable[method]

TypeOK ==
  /\ announced \in [Methods -> Arguments \cup {None}]
  /\ callable \in [Methods -> Callable \cup {None}]
  /\ hooked \subseteq {m \in Methods : announced[m] # None}
  /\ \A m \in Methods : callable[m] # None => m \in hooked
  /\ pc \in {"idle", "read", "apply", "write", "done", "lost"}
  /\ caller \in {"server", "application"}
  /\ method \in Methods /\ context \in Classes \cup {None}
  /\ inputs \in Seq(Value \cup {Empty})
  /\ args \in Seq(Data \cup {Nothing})
  /\ result \in Seq(Data \cup {Nothing})
  /\ outputs \in Seq(Value \cup {Unset})
  /\ written \in Nat
  /\ status \in {"good", "BadMethodInvalid", "BadInternalError"}
  /\ pc \in {"read", "apply", "write"} => Running # None

Init ==
  /\ announced = [m \in Methods |-> None]
  /\ callable = [m \in Methods |-> None]
  /\ hooked = {}
  /\ pc = "idle" /\ caller = "server"
  /\ method \in Methods /\ context = None
  /\ inputs = <<>> /\ args = <<>> /\ result = <<>> /\ outputs = <<>>
  /\ written = 0
  /\ status = "good"

-----------------------------------------------------------------------------
(* Registration, before a call or in the body of another method.            *)

\* Whether m is not the method that is executing.
MayBind(m) == pc \in {"idle", "apply"} /\ (pc = "apply" => method # m)

locals == <<pc, caller, method, context, inputs, args, result, outputs, written,
            status>>

\* getDataType: that of the elements, for a vector.
DataType(kind) == kind.type

\* getInputArgument: a scalar, whatever the parameter is.
InputArgument(kind) == [type |-> DataType(kind), array |-> FALSE]

\* Mutant of OutputArgument: as for the parameters.
OutputArgumentScalar(kind) == [type |-> DataType(kind), array |-> FALSE]

\* getOutputArgument
OutputArgument(kind) == [type |-> DataType(kind), array |-> kind.vector]

\* MethodTraits: what addMethod announces for a callable.
MethodTraits(c) ==
  [ins  |-> [k \in 1..Len(c.ins) |-> InputArgument(c.ins[k])],
   outs |-> [k \in 1..Len(c.outs) |-> OutputArgument(c.outs[k])]]

\* ObjectNode::addMethod, of a function whose type it can announce.  With an id
\* that is taken it changes nothing.
AddMethod(m, c) ==
  /\ MayBind(m)
  /\ announced[m] = None
  /\ c.form # "raw"
  /\ announced' = [announced EXCEPT ![m] = MethodTraits(c)]
  /\ callable' = [callable EXCEPT ![m] = c]
  /\ hooked' = hooked \cup {m}
  /\ UNCHANGED locals

\* Server::createMethod, called by the application.
CreateMethod(m, arguments) ==
  /\ MayBind(m)
  /\ announced[m] = None
  /\ announced' = [announced EXCEPT ![m] = arguments]
  /\ hooked' = hooked \cup {m}
  /\ UNCHANGED callable
  /\ UNCHANGED locals

\* A method of a nodeset has no callback of its own.
LoadMethod(m, arguments) ==
  /\ MayBind(m)
  /\ announced[m] = None
  /\ announced' = [announced EXCEPT ![m] = arguments]
  /\ UNCHANGED <<callable, hooked>>
  /\ UNCHANGED locals

\* getMethod and bindCallable, which does not look at what is announced.
BindCallable(m, c) ==
  /\ MayBind(m)
  /\ announced[m] # None
  /\ callable' = [callable EXCEPT ![m] = c]
  /\ hooked' = hooked \cup {m}
  /\ UNCHANGED announced
  /\ UNCHANGED locals

-----------------------------------------------------------------------------
(* The call.                                                               *)

\* UA_Server compares the number, the types and the ranks of the arguments.  With
\* the configuration of Server::create it lets a Variant without a value pass
\* for any of them.
Accepts(arguments, in) ==
  /\ Len(in) = Len(arguments.ins)
  /\ \A k \in 1..Len(in) :
       in[k] # Empty => /\ in[k].type = arguments.ins[k].type
                        /\ in[k].array = arguments.ins[k].array

\* A Variant for each input and each output, and ICallable::call.
Enter(m, in, n) ==
  /\ pc' = IF callable[m].form = "raw" THEN "apply" ELSE "read"
  /\ method' = m
  /\ inputs' = in /\ args' = <<>> /\ result' = <<>>
  /\ outputs' = [k \in 1..n |-> Unset]
  /\ written' = 0
  /\ status' = "good"

\* internalMethodCallback, for a method that is bound; it passes on the context of
\* the object called.
Call(m, o, in) ==
  /\ pc = "idle"
  /\ announced[m] # None /\ callable[m] # None
  /\ Accepts(announced[m], in)
  /\ caller' = "server"
  /\ context' = ContextOf[o]
  /\ UNCHANGED nodes
  /\ Enter(m, in, Len(announced[m].outs))

\* Mutant of CallUnbound: without a look at whether there is a callable.
CallUnboundAnyway(m, o, in) ==
  /\ pc = "idle"
  /\ m \in hooked /\ callable[m] = None
  /\ Accepts(announced[m], in)
  /\ pc' = "read"
  /\ caller' = "server"
  /\ method' = m /\ context' = ContextOf[o]
  /\ inputs' = in /\ args' = <<>>
  /\ outputs' = [k \in 1..Len(announced[m].outs) |-> Unset]
  /\ UNCHANGED <<nodes, result, written, status>>

\* internalMethodCallback, without a callable.
CallUnbound(m, o, in) ==
  /\ pc = "idle"
  /\ m \in hooked /\ callable[m] = None
  /\ Accepts(announced[m], in)
  /\ pc' = "done"
  /\ caller' = "server"
  /\ method' = m /\ context' = ContextOf[o]
  /\ outputs' = [k \in 1..Len(announced[m].outs) |-> Unset]
  /\ status' = "BadMethodInvalid"
  /\ UNCHANGED <<nodes, inputs, args, result, written>>

\* UA_Server answers for a method of a nodeset that nothing was bound to.
CallUnhooked(m) ==
  /\ pc = "idle"
  /\ announced[m] # None /\ m \notin hooked
  /\ pc' = "done"
  /\ caller' = "server"
  /\ method' = m
  /\ status' = "BadInternalError"
  /\ UNCHANGED <<nodes, context, inputs, args, result, outputs, written>>

\* MethodNode::invoke, with any object and any vectors.
Invoke(m, c, in, n) ==
  /\ pc = "idle"
  /\ callable[m] # None
  /\ caller' = "application"
  /\ context' = c
  /\ UNCHANGED nodes
  /\ Enter(m, in, n)

\* Variant::get, as far as it is defined: a value of that type; read as a
\* vector, a scalar or no value is an empty one.
Readable(kind, v) ==
  IF v = Empty THEN kind.vector
  ELSE kind.type = v.type /\ (v.array => kind.vector)
Get(kind, v) ==
  IF kind.vector /\ (v = Empty \/ ~v.array) THEN Nothing ELSE v.data

\* for_each: after n elements of a tuple, the one that is next.
NextOf(n) == n + 1

\* Mutant of Read: from the last parameter to the first.
ReadBackwards ==
  /\ pc = "read" /\ Len(args) < Len(Running.ins)
  /\ LET i == Len(Running.ins) - Len(args)
         kind == Running.ins[Len(args) + 1]
     IN  IF i <= Len(inputs) /\ Readable(kind, inputs[i])
         THEN args' = Append(args, Get(kind, inputs[i])) /\ UNCHANGED pc
         ELSE pc' = "lost" /\ UNCHANGED args
  /\ UNCHANGED <<nodes, caller, method, context, inputs, result, outputs,
                 written, status>>

\* The next parameter.  Neither the size of the vector, nor the type, nor whether
\* there is a value is checked.
Read ==
  /\ pc = "read" /\ Len(args) < Len(Running.ins)
  /\ LET i == NextOf(Len(args))
     IN  IF i <= Len(inputs) /\ Readable(Running.ins[i], inputs[i])
         THEN args' = Append(args, Get(Running.ins[i], inputs[i])) /\ UNCHANGED pc
         ELSE pc' = "lost" /\ UNCHANGED args
  /\ UNCHANGED <<nodes, caller, method, context, inputs, result, outputs,
                 written, status>>

\* All parameters are there.  Call casts the void* to the class of the member
\* function, whatever it points to.
Apply ==
  /\ pc = "read" /\ Len(args) = Len(Running.ins)
  /\ pc' = IF Running.form = "member" /\ context # Running.class
           THEN "lost" ELSE "apply"
  /\ UNCHANGED <<nodes, caller, method, context, inputs, args, result, outputs,
                 written, status>>

\* The body returns, with a vector where its type says so.
Returns(values) ==
  /\ pc = "apply" /\ Running.form # "raw"
  /\ Len(values) = Len(Running.outs)
  /\ \A k \in 1..Len(values) : values[k] = Nothing => Running.outs[k].vector
  /\ result' = values
  /\ pc' = "write"
  /\ UNCHANGED <<nodes, caller, method, context, inputs, args, outputs,
                 written, status>>

\* A FunctionCall returns whether it did what it was asked for; what it writes
\* to its outputs is its own affair.
ReturnsRaw(good) ==
  /\ pc = "apply" /\ Running.form = "raw"
  /\ status' = IF good THEN "good" ELSE "BadMethodInvalid"
  /\ pc' = "done"
  /\ UNCHANGED <<nodes, caller, method, context, inputs, args, result,
                 outputs, written>>

\* toUAVariant: an array for a vector.
Put(kind, data) ==
  [type |-> DataType(kind), array |-> kind.vector, data |-> data]

\* Mutant of Write: each element of a tuple goes to the first output.
WriteFirst ==
  /\ pc = "write" /\ written < Len(result)
  /\ IF 1 <= Len(outputs)
     THEN /\ outputs' = [outputs EXCEPT ![1] =
                           Put(Running.outs[written + 1], result[written + 1])]
          /\ written' = written + 1
          /\ UNCHANGED pc
     ELSE pc' = "lost" /\ UNCHANGED <<outputs, written>>
  /\ UNCHANGED <<nodes, caller, method, context, inputs, args, result,
                 status>>

\* The next output.
Write ==
  /\ pc = "write" /\ written < Len(result)
  /\ LET i == NextOf(written)
     IN  IF i <= Len(outputs)
         THEN /\ outputs' = [outputs EXCEPT ![i] = Put(Running.outs[i], result[i])]
              /\ written' = i
              /\ UNCHANGED pc
         ELSE pc' = "lost" /\ UNCHANGED <<outputs, written>>
  /\ UNCHANGED <<nodes, caller, method, context, inputs, args, result,
                 status>>

Written ==
  /\ pc = "write" /\ written = Len(result)
  /\ pc' = "done"
  /\ UNCHANGED <<nodes, caller, method, context, inputs, args, result,
                 outputs, written, status>>

\* The caller has its answer, and the Variants are destroyed.
Answer ==
  /\ pc = "done"
  /\ pc' = "idle"
  /\ inputs' = <<>> /\ args' = <<>> /\ result' = <<>> /\ outputs' = <<>>
  /\ written' = 0
  /\ status' = "good"
  /\ UNCHANGED <<nodes, caller, method, context>>

-----------------------------------------------------------------------------
Results == UNION {[1..n -> Data \cup {Nothing}] :
                    n \in {Len(c.outs) : c \in Callables}}

Next ==
  \/ \E m \in Methods, c \in Callables : AddMethod(m, c)
  \/ \E m \in Methods, a \in Described :
       CreateMethod(m, a) \/ LoadMethod(m, a)
  \/ \E m \in Methods, c \in Callables : BindCallable(m, c)
  \/ \E m \in Methods, o \in Objects, in \in Sent : Call(m, o, in)
  \/ \E m \in Methods, o \in Objects, in \in Sent : CallUnbound(m, o, in)
  \/ \E m \in Methods : CallUnhooked(m)
  \/ \E m \in Methods, c \in Classes \cup {None}, in \in Sent,
        n \in 0..MaxOutputs : Invoke(m, c, in, n)
  \/ Read \/ Apply
  \/ \E values \in Results : Returns(values)
  \/ \E good \in BOOLEAN : ReturnsRaw(good)
  \/ Write \/ Written \/ Answer

Spec == Init /\ [][Next]_vars

-----------------------------------------------------------------------------
(* Properties.                                                             *)

\* The node announces what its callable is: always so after addMethod, and for
\* a node of a nodeset when the application binds what the nodeset describes.
Announces(m) == announced[m] = MethodTraits(callable[m])

\* A client calls such a method.
Served == caller = "server" /\ Announces(method)

\* Whatever a client sends to such a method, a call reads or writes outside the
\* vectors, takes a value for one of another type or uses an object of another
\* class in two cases only: a Variant without a value was sent for the scalar that
\* is read next, or all parameters are there and the object that was called has
\* not the context the member function was written for.
AccessesAreValid ==
  pc = "lost" /\ Served =>
    IF Len(args) < Len(Running.ins)
    THEN LET i == NextOf(Len(args))
         IN  i <= Len(inputs) /\ inputs[i] = Empty /\ ~Running.ins[i].vector
    ELSE Running.form = "member" /\ context # Running.class

\* The body gets a value for each argument, in the order in which they were sent.
\* A vector is always empty: arrays are refused, for its argument was announced
\* as a scalar.
ArgumentsArrive ==
  pc = "apply" /\ Running.form # "raw" /\ Served =>
    /\ Len(args) = Len(inputs)
    /\ \A k \in 1..Len(args) :
         IF Running.ins[k].vector THEN args[k] = Nothing
         ELSE inputs[k] \in Value /\ args[k] = inputs[k].data

\* A call that succeeds gives the client every output that was announced, with
\* its type and rank, and each is what the body returned at that place.
OutputsAreAnnounced ==
  pc = "done" /\ status = "good" /\ Running.form # "raw" /\ Served =>
    /\ Len(outputs) = Len(announced[method].outs)
    /\ \A k \in 1..Len(outputs) :
         LET a == announced[method].outs[k]
         IN  outputs[k] = [type |-> a.type, array |-> a.array,
                           data |-> result[k]]
=============================================================================
