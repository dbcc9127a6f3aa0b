----------------------- MODULE MethodDispatchProofs -----------------------
(***************************************************************************)
(* The checks UA_Server makes of what is announced are those that          *)
(* Call<...>::call leaves out, but for two: that there is a value for each *)
(* scalar, and that the object is one the callable was written for.        *)
(***************************************************************************)
EXTENDS MethodDispatch, SequenceTheorems, TLAPS

InCall == pc \in {"read", "apply", "write", "done"} /\ Running # None

\* In a call of a client, the vectors fit what is announced.
VectorsFit ==
  InCall /\ caller = "server" =>
    /\ Accepts(announced[method], inputs)
    /\ Len(outputs) = Len(announced[method].outs)

\* The first n parameters are what was sent for them.
Arrived(n) ==
  \A k \in 1..n :
    IF Running.ins[k].vector THEN args[k] = Nothing
    ELSE inputs[k] \in Value /\ args[k] = inputs[k].data

\* While parameters are read, those before the next one have arrived.
ReadsSoFar ==
  /\ pc = "read" => Running.form # "raw" /\ Len(args) <= Len(Running.ins)
  /\ pc = "apply" /\ Running.form # "raw" => Len(args) = Len(Running.ins)
  /\ pc \in {"read", "apply"} /\ Served => Arrived(Len(args))

\* The first n outputs are what the body returned for them.
Filled(n) == \A k \in 1..n : outputs[k] = Put(Running.outs[k], result[k])

\* While outputs are written, those before the next one are filled.
WritesSoFar ==
  /\ pc \in {"read", "apply"} => written = 0
  /\ pc = "write" => Running.form # "raw"
  /\ (pc = "write" \/ (InCall /\ pc = "done")) /\ Running.form # "raw" =>
       /\ Len(result) = Len(Running.outs)
       /\ written <= Len(result)
       /\ pc = "done" => written = Len(result)
       /\ Served => Filled(written)

\* A call that finds no callable does not succeed.
UnboundFails == pc = "done" /\ Running = None => status # "good"

IInv ==
  /\ TypeOK
  /\ VectorsFit /\ ReadsSoFar /\ WritesSoFar /\ UnboundFails
  /\ AccessesAreValid

-----------------------------------------------------------------------------
(* What MethodTraits announces.                                            *)

LEMMA SeqOf ==
  ASSUME NEW S, NEW n \in Nat, NEW f \in [1..n -> S]
  PROVE  f \in Seq(S) /\ Len(f) = n
<1>1. f \in Seq(S)
  BY SeqDef
<1> QED BY <1>1, LenProperties

LEMMA TraitsOf ==
  ASSUME NEW c \in Callable
  PROVE  /\ MethodTraits(c) \in Arguments
         /\ Len(MethodTraits(c).ins) = Len(c.ins)
         /\ Len(MethodTraits(c).outs) = Len(c.outs)
         /\ \A k \in 1..Len(c.ins) :
              MethodTraits(c).ins[k] = InputArgument(c.ins[k])
         /\ \A k \in 1..Len(c.outs) :
              MethodTraits(c).outs[k] = OutputArgument(c.outs[k])
<1> DEFINE i == [k \in 1..Len(c.ins) |-> InputArgument(c.ins[k])]
           o == [k \in 1..Len(c.outs) |-> OutputArgument(c.outs[k])]
<1>1. c.ins \in Seq(Kind) /\ c.outs \in Seq(Kind)
  BY DEF Callable
<1>2. /\ Len(c.ins) \in Nat /\ Len(c.outs) \in Nat
      /\ \A k \in 1..Len(c.ins) : c.ins[k] \in Kind
      /\ \A k \in 1..Len(c.outs) : c.outs[k] \in Kind
  BY <1>1, LenProperties, ElementOfSeq
<1>3. \A kind \in Kind : InputArgument(kind) \in Argument
                         /\ OutputArgument(kind) \in Argument
  BY DEF Kind, Argument, InputArgument, OutputArgument, DataType
<1>4. i \in [1..Len(c.ins) -> Argument] /\ o \in [1..Len(c.outs) -> Argument]
  BY <1>2, <1>3
<1>5. /\ i \in Seq(Argument) /\ Len(i) = Len(c.ins)
      /\ o \in Seq(Argument) /\ Len(o) = Len(c.outs)
  BY <1>2, <1>4, SeqOf
<1>6. MethodTraits(c) = [ins |-> i, outs |-> o]
  BY DEF MethodTraits
<1> HIDE DEF i, o
<1>7. MethodTraits(c).ins = i /\ MethodTraits(c).outs = o
  BY <1>6
<1> QED BY <1>5, <1>6, <1>7 DEF Arguments, i, o

-----------------------------------------------------------------------------
LEMMA InitIInv == Init => IInv
<1> SUFFICES ASSUME Init PROVE IInv
  OBVIOUS
<1>1. TypeOK
  BY EmptySeq DEF Init, TypeOK
<1> QED BY <1>1 DEF Init, IInv, InCall, VectorsFit, ReadsSoFar, WritesSoFar,
                    UnboundFails, AccessesAreValid

\* Registration leaves the method that is executing alone.
LEMMA RegisterIInv ==
  ASSUME IInv, NEW m \in Methods, MayBind(m), UNCHANGED locals,
         NEW a \in Arguments, NEW c \in Callable \cup {None},
         hooked' = hooked \cup {m} \/ (hooked' = hooked /\ c = callable[m]),
         announced' = [announced EXCEPT ![m] = a],
         callable' = [callable EXCEPT ![m] = c]
  PROVE  IInv'
<1> USE DEF IInv, locals
<1>1. TypeOK'
  BY DispatchAssumption DEF TypeOK, MayBind, Running
<1>2. CASE pc = "idle"
  BY <1>1, <1>2 DEF InCall, VectorsFit, ReadsSoFar, WritesSoFar, UnboundFails,
                    AccessesAreValid
<1>3. CASE pc = "apply" /\ method # m
  <2>1. announced'[method] = announced[method] /\ callable'[method] = callable[method]
    BY <1>3 DEF TypeOK
  <2>2. Running' = Running /\ (Served' <=> Served)
    BY <2>1 DEF Running, Served, Announces
  <2>3. VectorsFit'
    BY <2>1, <2>2 DEF VectorsFit, InCall, Accepts
  <2>4. ReadsSoFar'
    BY <2>2 DEF ReadsSoFar, Arrived
  <2> QED BY <1>1, <1>3, <2>3, <2>4 DEF WritesSoFar, UnboundFails,
                                        AccessesAreValid, InCall
<1> QED BY <1>2, <1>3 DEF MayBind

\* A call begins with nothing read and nothing written.
LEMMA EnterIInv ==
  ASSUME IInv, NEW m \in Methods, NEW in \in Seq(Value \cup {Empty}),
         NEW n \in Nat, callable[m] # None, context' \in Classes \cup {None},
         UNCHANGED nodes,
         Enter(m, in, n),
         \/ caller' = "application"
         \/ /\ caller' = "server" /\ Accepts(announced[m], in)
            /\ n = Len(announced[m].outs)
  PROVE  IInv'
<1> USE DEF IInv, nodes
<1>1. /\ outputs' \in Seq(Value \cup {Unset}) /\ Len(outputs') = n
  <2>1. outputs' \in [1..n -> Value \cup {Unset}]
    BY DEF Enter
  <2> QED BY <2>1, SeqOf
<1>2. args' = <<>> /\ Len(args') = 0 /\ inputs' = in
  BY EmptySeq DEF Enter
<1>3. Running' = callable[m] /\ Running' # None /\ Running' \in Callable
  BY DEF Running, Enter, TypeOK
<1>4. Len(Running'.ins) \in Nat
  BY <1>3, LenProperties DEF Callable
<1>5. TypeOK'
  BY <1>1, <1>2, <1>3, EmptySeq DEF TypeOK, Enter
<1>6. VectorsFit'
  BY <1>1, <1>2 DEF VectorsFit, Enter, Accepts
<1>7. ReadsSoFar'
  BY <1>2, <1>3, <1>4 DEF ReadsSoFar, Enter, Arrived
<1>8. WritesSoFar' /\ UnboundFails' /\ AccessesAreValid'
  BY DEF WritesSoFar, UnboundFails, AccessesAreValid, InCall, Enter
<1> QED BY <1>5, <1>6, <1>7, <1>8

LEMMA CallUnboundIInv ==
  ASSUME IInv, NEW m \in Methods, NEW o \in Objects, NEW in \in Sent,
         CallUnbound(m, o, in)
  PROVE  IInv'
<1> USE DEF IInv, CallUnbound, nodes
<1>1. Running' = None
  BY DEF Running
<1>2. outputs' \in Seq(Value \cup {Unset})
  <2>1. announced[m] \in Arguments
    BY DEF TypeOK
  <2>2. Len(announced[m].outs) \in Nat
    BY <2>1, LenProperties DEF Arguments
  <2>3. outputs' \in [1..Len(announced[m].outs) -> Value \cup {Unset}]
    OBVIOUS
  <2> QED BY <2>2, <2>3, SeqOf
<1>3. TypeOK'
  BY <1>2, DispatchAssumption DEF TypeOK
<1> QED BY <1>1, <1>3 DEF VectorsFit, ReadsSoFar, WritesSoFar, UnboundFails,
                          AccessesAreValid, InCall

LEMMA CallUnhookedIInv ==
  ASSUME IInv, NEW m \in Methods, CallUnhooked(m)
  PROVE  IInv'
<1> USE DEF IInv, CallUnhooked, nodes
<1>1. Running' = None
  BY DEF Running, TypeOK
<1>2. TypeOK'
  BY DEF TypeOK
<1> QED BY <1>1, <1>2 DEF VectorsFit, ReadsSoFar, WritesSoFar, UnboundFails,
                          AccessesAreValid, InCall

-----------------------------------------------------------------------------
\* In a call that is served, the next parameter can be read, and arrives, unless
\* no value was sent for a scalar.
LEMMA ReadFits ==
  ASSUME IInv, Served, pc = "read", Len(args) < Len(Running.ins),
         NEW i, i = Len(args) + 1
  PROVE  /\ i \in 1..Len(inputs)
         /\ ~Readable(Running.ins[i], inputs[i]) =>
              inputs[i] = Empty /\ ~Running.ins[i].vector
         /\ Readable(Running.ins[i], inputs[i]) =>
              IF Running.ins[i].vector
              THEN Get(Running.ins[i], inputs[i]) = Nothing
              ELSE /\ inputs[i] \in Value
                   /\ Get(Running.ins[i], inputs[i]) = inputs[i].data
<1> USE DEF IInv
<1>1. Running \in Callable /\ announced[method] = MethodTraits(Running)
  BY DEF TypeOK, Served, Announces, Running
<1>2. Len(args) \in Nat /\ Len(Running.ins) \in Nat
  BY <1>1, LenProperties DEF TypeOK, Callable
<1>3. /\ Accepts(MethodTraits(Running), inputs)
  BY <1>1 DEF VectorsFit, InCall, Served, TypeOK
<1>4. Len(inputs) = Len(Running.ins) /\ i \in 1..Len(inputs)
  BY <1>1, <1>2, <1>3, TraitsOf DEF Accepts
<1>5. /\ inputs[i] \in Value \cup {Empty}
      /\ Running.ins[i] \in Kind
  BY <1>1, <1>4, ElementOfSeq DEF TypeOK, Callable
<1>6. CASE inputs[i] = Empty
  BY <1>4, <1>5, <1>6 DEF Readable, Get, Kind
<1>7. CASE inputs[i] # Empty
  <2>1. /\ inputs[i].type = MethodTraits(Running).ins[i].type
        /\ inputs[i].array = MethodTraits(Running).ins[i].array
    BY <1>3, <1>4, <1>7 DEF Accepts
  <2>2. MethodTraits(Running).ins[i] = InputArgument(Running.ins[i])
    BY <1>1, <1>4, TraitsOf
  <2>3. inputs[i].type = Running.ins[i].type /\ inputs[i].array = FALSE
    BY <2>1, <2>2 DEF InputArgument, DataType
  <2> QED BY <1>4, <1>5, <1>7, <2>3 DEF Readable, Get
<1> QED BY <1>6, <1>7

LEMMA ReadIInv ==
  ASSUME IInv, Read
  PROVE  IInv'
<1> DEFINE i == Len(args) + 1
<1> USE DEF IInv, Read, nodes, NextOf
<1>1. /\ Running' = Running /\ (Served' <=> Served)
      /\ Running \in Callable /\ Running # None
  BY DEF Running, Served, Announces, TypeOK
<1>2. args \in Seq(Data \cup {Nothing}) /\ Len(args) \in Nat
      /\ Len(Running.ins) \in Nat /\ Len(inputs) \in Nat
  BY <1>1, LenProperties DEF TypeOK, Callable
<1>3. CASE i <= Len(inputs) /\ Readable(Running.ins[i], inputs[i])
  <2>1. args' = Append(args, Get(Running.ins[i], inputs[i])) /\ pc' = pc
    BY <1>3
  <2>2. Get(Running.ins[i], inputs[i]) \in Data \cup {Nothing}
    <3>1. inputs[i] \in Value \cup {Empty}
      BY <1>2, <1>3, ElementOfSeq DEF TypeOK
    <3>2. inputs[i] = Empty => Running.ins[i].vector
      BY <1>3 DEF Readable
    <3> QED BY <3>1, <3>2 DEF Get, Value
  <2>3. /\ args' \in Seq(Data \cup {Nothing}) /\ Len(args') = i
        /\ \A k \in 1..Len(args) : args'[k] = args[k]
        /\ args'[i] = Get(Running.ins[i], inputs[i])
    BY <1>2, <2>1, <2>2
  <2>4. TypeOK'
    BY <1>1, <2>1, <2>3 DEF TypeOK
  <2>5. ReadsSoFar'
    <3>1. ASSUME Served PROVE Arrived(Len(args))'
      <4>1. Arrived(Len(args)) /\ pc = "read"
        BY <3>1 DEF ReadsSoFar
      <4>2. IF Running.ins[i].vector THEN args'[i] = Nothing
            ELSE inputs[i] \in Value /\ args'[i] = inputs[i].data
        BY <1>3, <2>3, <3>1, ReadFits
      <4> QED BY <1>1, <1>2, <2>3, <4>1, <4>2 DEF Arrived
    <3> QED BY <1>1, <1>2, <2>1, <2>3, <3>1 DEF ReadsSoFar
  <2>6. VectorsFit'
    BY <1>1, <2>1 DEF VectorsFit, InCall, Accepts
  <2> QED BY <2>1, <2>4, <2>5, <2>6 DEF WritesSoFar, UnboundFails,
                                        AccessesAreValid, InCall
<1>4. CASE ~(i <= Len(inputs) /\ Readable(Running.ins[i], inputs[i]))
  <2>1. pc' = "lost" /\ args' = args
    BY <1>4
  <2>2. Served => /\ i <= Len(inputs)
                  /\ inputs[i] = Empty /\ ~Running.ins[i].vector
    BY <1>2, <1>4, ReadFits
  <2>3. TypeOK'
    BY <1>1, <2>1 DEF TypeOK
  <2>4. AccessesAreValid'
    BY <1>1, <2>1, <2>2 DEF AccessesAreValid
  <2> QED BY <1>1, <2>1, <2>3, <2>4 DEF VectorsFit, ReadsSoFar, WritesSoFar,
                                        UnboundFails, AccessesAreValid, InCall
<1> QED BY <1>3, <1>4

LEMMA ApplyIInv ==
  ASSUME IInv, Apply
  PROVE  IInv'
<1> USE DEF IInv, Apply, nodes
<1>1. Running' = Running /\ (Served' <=> Served) /\ Running # None
  BY DEF Running, Served, Announces, TypeOK
<1>2. TypeOK'
  BY <1>1 DEF TypeOK
<1>3. VectorsFit'
  BY <1>1 DEF VectorsFit, InCall, Accepts
<1>4. ReadsSoFar'
  BY <1>1 DEF ReadsSoFar, Arrived
<1>5. AccessesAreValid'
  <2>1. Len(args) \in Nat
    BY LenProperties DEF TypeOK
  <2> QED BY <1>1, <2>1 DEF AccessesAreValid
<1> QED BY <1>2, <1>3, <1>4, <1>5 DEF WritesSoFar, UnboundFails, InCall

LEMMA ReturnsIInv ==
  ASSUME IInv, NEW values \in Results, Returns(values)
  PROVE  IInv'
<1> USE DEF IInv, Returns, nodes
<1>1. Running' = Running /\ (Served' <=> Served) /\ Running # None
  BY DEF Running, Served, Announces, TypeOK
<1>2. values \in Seq(Data \cup {Nothing})
  <2>1. PICK c \in Callables : values \in [1..Len(c.outs) -> Data \cup {Nothing}]
    BY DEF Results
  <2>2. Len(c.outs) \in Nat
    BY DispatchAssumption, LenProperties DEF Callable
  <2> QED BY <2>1, <2>2, SeqOf
<1>3. TypeOK'
  BY <1>1, <1>2 DEF TypeOK
<1>4. VectorsFit'
  BY <1>1 DEF VectorsFit, InCall, Accepts
<1> QED
  BY <1>1, <1>2, <1>3, <1>4, LenProperties
  DEF ReadsSoFar, WritesSoFar, Filled, UnboundFails, AccessesAreValid, InCall

LEMMA ReturnsRawIInv ==
  ASSUME IInv, NEW good \in BOOLEAN, ReturnsRaw(good)
  PROVE  IInv'
<1> USE DEF IInv, ReturnsRaw, nodes
<1>1. Running' = Running /\ Running # None
  BY DEF Running, TypeOK
<1>2. TypeOK'
  BY <1>1 DEF TypeOK
<1>3. VectorsFit'
  BY <1>1 DEF VectorsFit, InCall, Accepts
<1> QED BY <1>1, <1>2, <1>3 DEF ReadsSoFar, WritesSoFar, UnboundFails,
                                AccessesAreValid, InCall

-----------------------------------------------------------------------------
LEMMA WriteIInv ==
  ASSUME IInv, Write
  PROVE  IInv'
<1> DEFINE i == written + 1
<1> USE DEF IInv, Write, nodes, NextOf
<1>1. /\ Running' = Running /\ (Served' <=> Served)
      /\ Running \in Callable /\ Running # None
  BY DEF Running, Served, Announces, TypeOK
<1>2. /\ outputs \in Seq(Value \cup {Unset}) /\ written \in Nat
      /\ Len(outputs) \in Nat
      /\ result \in Seq(Data \cup {Nothing}) /\ Len(result) \in Nat
  BY LenProperties DEF TypeOK
<1>3. /\ Len(result) = Len(Running.outs) /\ Running.form # "raw"
      /\ Served => Filled(written)
  BY DEF WritesSoFar
<1>4. i \in 1..Len(result) /\ i \in Nat
  BY <1>2
<1>5. CASE i <= Len(outputs)
  <2>1. /\ outputs' = [outputs EXCEPT ![i] = Put(Running.outs[i], result[i])]
        /\ written' = i /\ pc' = pc
    BY <1>5
  <2>2. Put(Running.outs[i], result[i]) \in Value
    <3>1. Running.outs[i] \in Kind
      BY <1>1, <1>3, <1>4, ElementOfSeq DEF Callable
    <3>2. result[i] \in Data \cup {Nothing}
      BY <1>2, <1>4, ElementOfSeq
    <3> QED BY <3>1, <3>2 DEF Put, DataType, Kind, Value
  <2>3. i \in 1..Len(outputs)
    BY <1>2, <1>5
  <2>4. /\ outputs' \in Seq(Value \cup {Unset}) /\ Len(outputs') = Len(outputs)
        /\ \A j \in 1..Len(outputs) :
             outputs'[j] = IF j = i THEN Put(Running.outs[i], result[i])
                           ELSE outputs[j]
    BY <1>2, <2>1, <2>2, <2>3, ExceptSeq
  <2>5. TypeOK'
    BY <1>1, <1>4, <2>1, <2>4 DEF TypeOK
  <2>6. VectorsFit'
    BY <1>1, <2>1, <2>4 DEF VectorsFit, InCall, Accepts
  <2>7. WritesSoFar'
    <3>1. ASSUME Served PROVE Filled(written)'
      <4>1. \A k \in 1..written : outputs[k] = Put(Running.outs[k], result[k])
        BY <1>3, <3>1 DEF Filled
      <4>2. \A k \in 1..i : k \in 1..Len(outputs) /\ (k = i \/ k \in 1..written)
        BY <1>2, <2>3
      <4>3. \A k \in 1..i : outputs'[k] = Put(Running.outs[k], result[k])
        BY <2>4, <4>1, <4>2
      <4> QED BY <1>1, <2>1, <4>3 DEF Filled
    <3> QED BY <1>1, <1>2, <1>3, <1>4, <2>1, <3>1 DEF WritesSoFar
  <2> QED BY <2>1, <2>5, <2>6, <2>7 DEF ReadsSoFar, UnboundFails,
                                        AccessesAreValid
<1>6. CASE ~(i <= Len(outputs))
  <2>1. pc' = "lost" /\ outputs' = outputs /\ written' = written
    BY <1>6
  <2>2. ~Served
    <3> SUFFICES ASSUME Served PROVE FALSE
      OBVIOUS
    <3>1. Len(outputs) = Len(announced[method].outs)
      BY <1>1 DEF VectorsFit, InCall, Served
    <3>2. announced[method] = MethodTraits(Running)
      BY DEF Served, Announces, Running
    <3>3. Len(outputs) = Len(Running.outs)
      BY <1>1, <3>1, <3>2, TraitsOf
    <3> QED BY <1>2, <1>3, <1>4, <1>6, <3>3
  <2>3. TypeOK'
    BY <1>1, <2>1 DEF TypeOK
  <2> QED BY <1>1, <2>1, <2>2, <2>3 DEF VectorsFit, ReadsSoFar, WritesSoFar,
                                        UnboundFails, AccessesAreValid, InCall
<1> QED BY <1>5, <1>6

LEMMA WrittenIInv ==
  ASSUME IInv, Written
  PROVE  IInv'
<1> USE DEF IInv, Written, nodes
<1>1. Running' = Running /\ (Served' <=> Served) /\ Running # None
  BY DEF Running, Served, Announces, TypeOK
<1>2. TypeOK'
  BY <1>1 DEF TypeOK
<1>3. VectorsFit'
  BY <1>1 DEF VectorsFit, InCall, Accepts
<1>4. WritesSoFar'
  BY <1>1 DEF WritesSoFar, Filled, InCall
<1> QED BY <1>1, <1>2, <1>3, <1>4 DEF ReadsSoFar, UnboundFails, AccessesAreValid

LEMMA AnswerIInv ==
  ASSUME IInv, Answer
  PROVE  IInv'
<1>1. TypeOK'
  BY EmptySeq DEF IInv, Answer, nodes, TypeOK
<1> QED BY <1>1 DEF IInv, Answer, VectorsFit, ReadsSoFar, WritesSoFar,
                    UnboundFails, AccessesAreValid, InCall

-----------------------------------------------------------------------------
LEMMA StepIInv == IInv /\ [Next]_vars => IInv'
<1> SUFFICES ASSUME IInv, [Next]_vars PROVE IInv'
  OBVIOUS
<1> USE DispatchAssumption
<1>1. ASSUME NEW m \in Methods, NEW c \in Callables, AddMethod(m, c)
      PROVE  IInv'
  <2>1. MethodTraits(c) \in Arguments
    BY TraitsOf
  <2> QED BY <1>1, <2>1, RegisterIInv DEF AddMethod
<1>2. ASSUME NEW m \in Methods, NEW a \in Described,
             CreateMethod(m, a) \/ LoadMethod(m, a)
      PROVE  IInv'
  <2>1. callable' = [callable EXCEPT ![m] = callable[m]]
        /\ callable[m] \in Callable \cup {None}
    BY <1>2 DEF CreateMethod, LoadMethod, IInv, TypeOK
  <2> QED BY <1>2, <2>1, RegisterIInv DEF CreateMethod, LoadMethod
<1>3. ASSUME NEW m \in Methods, NEW c \in Callables, BindCallable(m, c)
      PROVE  IInv'
  <2>1. announced' = [announced EXCEPT ![m] = announced[m]]
        /\ announced[m] \in Arguments
    BY <1>3 DEF BindCallable, IInv, TypeOK
  <2> QED BY <1>3, <2>1, RegisterIInv DEF BindCallable
<1>4. ASSUME NEW m \in Methods, NEW o \in Objects, NEW in \in Sent, Call(m, o, in)
      PROVE  IInv'
  <2>1. Len(announced[m].outs) \in Nat
    BY <1>4, LenProperties DEF Call, IInv, TypeOK, Arguments
  <2>2. context' \in Classes \cup {None}
    BY <1>4 DEF Call
  <2> QED BY <1>4, <2>1, <2>2, EnterIInv DEF Call
<1>5. ASSUME NEW m \in Methods, NEW o \in Objects, NEW in \in Sent,
             CallUnbound(m, o, in)
      PROVE  IInv'
  BY <1>5, CallUnboundIInv
<1>6. ASSUME NEW m \in Methods, NEW c \in Classes \cup {None}, NEW in \in Sent,
             NEW n \in 0..MaxOutputs, Invoke(m, c, in, n)
      PROVE  IInv'
  <2>1. n \in Nat /\ context' \in Classes \cup {None}
    BY <1>6 DEF Invoke
  <2>2. in \in Seq(Value \cup {Empty})
    OBVIOUS
  <2> QED BY <1>6, <2>1, <2>2, EnterIInv DEF Invoke
<1>7. ASSUME UNCHANGED vars PROVE IInv'
  BY <1>7 DEF IInv, vars, TypeOK, VectorsFit, ReadsSoFar, WritesSoFar,
              UnboundFails, AccessesAreValid, InCall, Running, Served, Announces,
              Accepts, Arrived, Filled, NextOf
<1>8. ASSUME NEW m \in Methods, CallUnhooked(m) PROVE IInv'
  BY <1>8, CallUnhookedIInv
<1> QED
  BY <1>1, <1>2, <1>3, <1>4, <1>5, <1>6, <1>7, <1>8, ReadIInv, ApplyIInv, ReturnsIInv,
     ReturnsRawIInv, WriteIInv, WrittenIInv, AnswerIInv
  DEF Next

LEMMA Invariance == Spec => []IInv
<1> QED BY InitIInv, StepIInv, PTL DEF Spec

-----------------------------------------------------------------------------
\* The dispatch of methods is well typed; nothing executes without a callable.
THEOREM DispatchTypes == Spec => []TypeOK
<1>1. IInv => TypeOK
  BY DEF IInv
<1> QED BY <1>1, Invariance, PTL

\* Methods that announce what their callable is: whatever is sent, a call stays
\* inside the vectors and takes no value for one of another type, unless a Variant
\* without a value was sent for a scalar, and runs on an object the callable was
\* written for, unless the object that was called has another context or none.
THEOREM CallsAccessValid == Spec => []AccessesAreValid
<1>1. IInv => AccessesAreValid
  BY DEF IInv
<1> QED BY <1>1, Invariance, PTL

\* Their bodies get what was sent, in order.
THEOREM ParametersArrive == Spec => []ArgumentsArrive
<1>1. IInv => ArgumentsArrive
  <2> SUFFICES ASSUME IInv, pc = "apply", Running.form # "raw", Served
               PROVE  Len(args) = Len(inputs) /\ Arrived(Len(args))
    BY DEF ArgumentsArrive, Arrived
  <2>1. Running \in Callable /\ Running # None
        /\ announced[method] = MethodTraits(Running)
    BY DEF IInv, TypeOK, Served, Announces, Running
  <2>2. Accepts(MethodTraits(Running), inputs)
    BY <2>1 DEF IInv, VectorsFit, InCall, Served
  <2>3. Len(args) = Len(Running.ins) /\ Arrived(Len(args))
    BY DEF IInv, ReadsSoFar
  <2> QED BY <2>1, <2>2, <2>3, TraitsOf DEF Accepts
<1> QED BY <1>1, Invariance, PTL

\* Their callers get the outputs that were announced, as they were announced.
THEOREM OutputsMatch == Spec => []OutputsAreAnnounced
<1>1. IInv => OutputsAreAnnounced
  <2> SUFFICES ASSUME IInv, pc = "done", status = "good", Running.form # "raw",
                      Served
               PROVE  /\ Len(outputs) = Len(announced[method].outs)
                      /\ \A k \in 1..Len(outputs) :
                           LET a == announced[method].outs[k]
                           IN  outputs[k] = [type |-> a.type, array |-> a.array,
                                             data |-> result[k]]
    BY DEF OutputsAreAnnounced
  <2>1. Running # None
    BY DEF IInv, UnboundFails
  <2>2. Running \in Callable /\ announced[method] = MethodTraits(Running)
    BY <2>1 DEF IInv, TypeOK, Served, Announces, Running
  <2>3. Len(outputs) = Len(announced[method].outs)
    BY <2>1 DEF IInv, VectorsFit, InCall, Served
  <2>4. Len(result) = Len(Running.outs) /\ Filled(Len(result))
    BY <2>1 DEF IInv, WritesSoFar, InCall
  <2>5. Len(outputs) = Len(Running.outs)
    BY <2>2, <2>3, TraitsOf
  <2>6. \A k \in 1..Len(outputs) :
          /\ outputs[k] = Put(Running.outs[k], result[k])
          /\ announced[method].outs[k] = OutputArgument(Running.outs[k])
    BY <2>2, <2>4, <2>5, TraitsOf DEF Filled
  <2>7. ASSUME NEW k \in 1..Len(outputs)
        PROVE  LET a == announced[method].outs[k]
               IN  outputs[k] = [type |-> a.type, array |-> a.array,
                                 data |-> result[k]]
    <3>1. /\ announced[method].outs[k].type = DataType(Running.outs[k])
          /\ announced[method].outs[k].array = Running.outs[k].vector
      <4>1. announced[method].outs[k] = OutputArgument(Running.outs[k])
        BY <2>6
      <4> QED BY <4>1 DEF OutputArgument
    <3> QED BY <2>6, <3>1 DEF Put
  <2> QED BY <2>3, <2>7
<1> QED BY <1>1, Invariance, PTL
=============================================================================
