----------------------------- MODULE Interpreter -----------------------------
(***************************************************************************)
(* The interpreter package of glox: environments, functions, classes and   *)
(* instances, and the visit of each node.                                  *)
(*                                                                         *)
(* Go's stack is the sequence stack: a frame for every block, loop body or *)
(* call being executed, and values for the operands of the expression at   *)
(* hand.  What a condition comes to is left open.  A value is nil, a       *)
(* function or an object; the name beside the value in a slot is for the   *)
(* properties, the code keeps none.                                        *)
(***************************************************************************)
EXTENDS Program

CONSTANTS MaxFrames, MaxEnvironments, MaxObjects \* what one run may use

VARIABLE interp \* the Interpreter, what it has made, and where it is

ASSUME BoundsAssumption == {MaxFrames, MaxEnvironments, MaxObjects} \subseteq Nat \ {0}

globals == 1

\* The globals are the first environment. The native clock is left out.
NewWithWriter ==
  [environment |-> globals, envs |-> <<[enclosing |-> 0, scope |-> <<>>, slots |-> <<>>]>>,
   globals |-> <<>>, objects |-> <<>>, stack |-> <<>>, values |-> <<>>, pc |-> 1, status |-> "running"]

-----------------------------------------------------------------------------
(* Values *)

Nil == [kind |-> "nil"]
Object(id) == [kind |-> "object", id |-> id]
newLoxFunction(declaration, closure, isInitializer) ==
  [kind |-> "function", declaration |-> declaration, closure |-> closure, isInitializer |-> isInitializer]

IsObject(v) == v.kind = "object"
IsClass(i, v) == IsObject(v) /\ i.objects[v.id].isClass
Arity(f) == Len(program[f.declaration].params)

newLoxClass(superclass, methods, classMethods) ==
  [isClass |-> TRUE, superclass |-> superclass, methods |-> methods,
   classMethods |-> classMethods, fields |-> <<>>]
newLoxInstance(class) == [isClass |-> FALSE, class |-> class, fields |-> <<>>]

\* The chain of a class, itself first, as ids.
Chain(i, class) ==
  LET chain[id \in 0 .. Len(i.objects)] ==
        IF id = 0 \/ ~i.objects[id].isClass THEN <<>> ELSE <<id>> \o chain[i.objects[id].superclass]
  IN chain[class]

\* The method of that name in the nearest class that has one, or Nil.
FirstOf(maps, name) ==
  LET having == {n \in DOMAIN maps : name \in DOMAIN maps[n]}
  IN IF having = {} THEN Nil ELSE maps[Min(having)][name]

findMethod(i, class, name) ==
  LET chain == Chain(i, class) IN FirstOf([n \in DOMAIN chain |-> i.objects[chain[n]].methods], name)
findClassMethod(i, class, name) ==
  LET chain == Chain(i, class) IN FirstOf([n \in DOMAIN chain |-> i.objects[chain[n]].classMethods], name)

-----------------------------------------------------------------------------
(* Environments *)

\* A map with a value for a name.
Assigned(map, name, value) == [n \in DOMAIN map \cup {name} |-> IF n = name THEN value ELSE map[n]]

\* A new environment, with what is defined in it as soon as it is there.
SlotFor(name, value) == [name |-> name, value |-> value]
NewEnvironment(i, enclosing, scope, slots) ==
  [i EXCEPT !.envs = Append(@, [enclosing |-> enclosing, scope |-> scope, slots |-> slots])]

Define(i, env, name, value) ==
  IF i.envs[env].enclosing = 0 THEN [i EXCEPT !.globals = Assigned(@, name, value)]
  ELSE [i EXCEPT !.envs[env].slots = Append(@, SlotFor(name, value))]

\* The environment distance hops up, 0 when the chain is shorter.
ancestor(i, env, distance) ==
  LET up[d \in 0 .. distance] ==
        IF d = 0 THEN env ELSE IF up[d - 1] = 0 THEN 0 ELSE i.envs[up[d - 1]].enclosing
  IN up[distance]

\* Whether there is such a slot: the code indexes without asking.
HasSlot(i, env, at) ==
  LET found == ancestor(i, env, at[1]) IN found # 0 /\ at[2] < Len(i.envs[found].slots)
GetAt(i, env, at) == i.envs[ancestor(i, env, at[1])].slots[at[2] + 1].value
AssignAt(i, env, at, value) ==
  [i EXCEPT !.envs[ancestor(i, env, at[1])].slots[at[2] + 1].value = value]

-----------------------------------------------------------------------------
(* How a statement or an expression goes on *)

Result(i, value) == [i EXCEPT !.values = Append(@, value), !.pc = @ + 1]

\* A runtime error unwinds every frame, each putting its environment back.
failWith(i) ==
  [i EXCEPT !.environment = IF i.stack = <<>> THEN @ ELSE i.stack[1].previous,
            !.stack = <<>>, !.values = <<>>, !.status = "error"]

\* A Go panic that is no Lox error: the process dies.
Crash(i) == [i EXCEPT !.status = "crashed"]

\* The frame of a call has the function called.
executeBlock(i, env, function, instance) ==
  [i EXCEPT !.environment = env, !.pc = @ + 1,
            !.stack = Append(@, [opener |-> i.pc, previous |-> i.environment, values |-> i.values,
                                 function |-> function, instance |-> instance])]
IsCall(frame) == frame.function # Nil

\* A new receiver's scope around the function; f.closure is then its number.
bind(i, receiver, f) ==
  NewEnvironment(i, f.closure, <<program[f.declaration].in, "this">>, <<SlotFor("this", receiver)>>)
Bound(i, f) == [f EXCEPT !.closure = Len(i.envs)]

\* A call of f at the node at hand.  A constructor's call gives the instance
\* and not what init gives.
Call(i, f, arguments, instance) ==
  LET params == program[f.declaration].params
      given  == [n \in DOMAIN params |-> SlotFor(params[n], arguments[n])]
      inside == NewEnvironment(i, f.closure, <<f.declaration, "block">>, given)
  IN [executeBlock(inside, Len(inside.envs), f, instance)
        EXCEPT !.pc = f.declaration + 1, !.values = <<>>]

\* Mutant: the caller's environment is not put back.
ReturnedInside(i, n, value) ==
  LET frame    == i.stack[n]
      receiver == GetAt(i, frame.function.closure, <<0, 0>>)
      result   == IF frame.instance # Nil THEN frame.instance
                  ELSE IF frame.function.isInitializer THEN receiver ELSE value
  IN [i EXCEPT !.environment = frame.function.closure, !.stack = SubSeq(@, 1, n - 1),
               !.values = Append(frame.values, result), !.pc = frame.opener + 1]

\* The call that frame n stands for is over.
Returned(i, n, value) ==
  LET frame    == i.stack[n]
      receiver == GetAt(i, frame.function.closure, <<0, 0>>)
      result   == IF frame.instance # Nil THEN frame.instance
                  ELSE IF frame.function.isInitializer THEN receiver ELSE value
  IN [i EXCEPT !.environment = frame.previous, !.stack = SubSeq(@, 1, n - 1),
               !.values = Append(frame.values, result), !.pc = frame.opener + 1]

-----------------------------------------------------------------------------
(* One visit *)

Current == program[interp.pc]
HasRoom ==
  /\ Len(interp.stack) <= MaxFrames
  /\ Len(interp.envs) <= MaxEnvironments
  /\ Len(interp.objects) <= MaxObjects
Executing(kinds) ==
  interp.status = "running" /\ interp.pc \in Nodes /\ Current.kind \in kinds /\ HasRoom
Executed(i) == interp' = i /\ UNCHANGED locals

\* The operands on top, and the state without them.
Operand(n) == interp.values[Len(interp.values) - n]
Without(n) == [interp EXCEPT !.values = SubSeq(@, 1, Len(@) - n)]
Past(i) == [i EXCEPT !.pc = @ + 1]
Resolved == interp.pc \in DOMAIN locals
Slot == locals[interp.pc]

Literal == Executing({"literal"}) /\ Executed(Result(interp, Nil))
Expression == Executing({"expression"}) /\ Executed(Past(Without(1)))

lookUpVariable(name) ==
  IF Resolved THEN IF HasSlot(interp, interp.environment, Slot)
                   THEN Result(interp, GetAt(interp, interp.environment, Slot)) ELSE Crash(interp)
  ELSE IF name \in DOMAIN interp.globals THEN Result(interp, interp.globals[name]) ELSE failWith(interp)

Variable == Executing({"variable"}) /\ Executed(lookUpVariable(Current.name))
This == Executing({"this"}) /\ Executed(lookUpVariable("this"))

Assign ==
  /\ Executing({"assign"})
  /\ Executed(IF Resolved
              THEN IF HasSlot(interp, interp.environment, Slot)
                   THEN Past(AssignAt(interp, interp.environment, Slot, Operand(0))) ELSE Crash(interp)
              ELSE IF Current.name \in DOMAIN interp.globals
                   THEN Past([interp EXCEPT !.globals[Current.name] = Operand(0)]) ELSE failWith(interp))

\* A var statement's work is all after its initializer.
Var ==
  \/ Executing({"var"}) /\ Executed(Past(interp))
  \/ Executing({"define"}) /\ Executed(Past(Define(Without(1), interp.environment, Current.name, Operand(0))))

Function ==
  /\ Executing({"fun"})
  /\ Executed([Define(interp, interp.environment, Current.name,
                      newLoxFunction(interp.pc, interp.environment, FALSE)) EXCEPT !.pc = EndOf(interp.pc) + 1])

\* The methods of the class at hand, the later of two with one name.
Methods(onTheClass, closure) ==
  LET of(name) == {m \in Nodes : /\ program[m].kind = "method" /\ program[m].in = interp.pc
                                 /\ program[m].onTheClass = onTheClass /\ (name = "" \/ program[m].name = name)}
  IN [name \in {program[m].name : m \in of("")} |->
        newLoxFunction(Max(of(name)), closure, name = "init" /\ ~onTheClass)]

\* The class statement after its superclass has been evaluated.
Class ==
  LET subclass == IsSubclass(interp.pc)
      super    == <<SlotFor("super", Operand(0))>>
      around   == IF subclass THEN NewEnvironment(Without(1), interp.environment, <<interp.pc, "super">>, super)
                  ELSE interp
      closure  == IF subclass THEN Len(around.envs) ELSE interp.environment
      class    == newLoxClass(IF subclass THEN Operand(0).id ELSE 0, Methods(FALSE, closure), Methods(TRUE, closure))
      made     == [around EXCEPT !.objects = Append(@, class), !.pc = EndOf(interp.pc) + 1]
  IN \/ Executing({"class"}) /\ Executed(Past(interp))
     \/ /\ Executing({"body"})
        /\ Executed(IF subclass /\ ~IsClass(interp, Operand(0)) THEN failWith(interp)
                    ELSE Define(made, interp.environment, Current.name, Object(Len(made.objects))))

\* Mutant: the statements run in the environment around the block.
BlockSharing == Executing({"block", "if", "while"})
                /\ Executed(executeBlock(interp, interp.environment, Nil, Nil))

\* The condition of an if or a while may come to anything.
Block == Executing({"block", "if", "while"})
         /\ Executed(executeBlock(NewEnvironment(interp, interp.environment, <<interp.pc, "block">>, <<>>),
                                  Len(interp.envs) + 1, Nil, Nil))
Skip == Executing({"if", "while"}) /\ Executed([interp EXCEPT !.pc = EndOf(interp.pc) + 1])

\* The end of a block, of a loop's round, or of a body that did not return.
End ==
  LET n == Len(interp.stack)
      frame == interp.stack[n]
      again == program[frame.opener].kind = "while"
  IN /\ Executing({"end"})
     /\ Executed(IF IsCall(frame) THEN Returned(interp, n, Nil)
                 ELSE [interp EXCEPT !.environment = frame.previous, !.stack = Front(@),
                                     !.pc = IF again THEN frame.opener ELSE @ + 1])

\* A return unwinds to the innermost call; without one nothing recovers it.
Return ==
  LET calls == {n \in DOMAIN interp.stack : IsCall(interp.stack[n])}
      value == IF Current.n = 1 THEN Operand(0) ELSE Nil
  IN /\ Executing({"return"})
     /\ Executed(IF calls = {} THEN Crash(interp) ELSE Returned(interp, Max(calls), value))

\* Constructs an instance, and runs the initializer bound to it if there is one.
CallClass(i, class, arguments) ==
  LET init     == findMethod(i, class, "init")
      instance == Object(Len(i.objects) + 1)
      made     == [i EXCEPT !.objects = Append(@, newLoxInstance(class))]
      ready    == bind(made, instance, init)
  IN IF init = Nil THEN IF arguments = <<>> THEN Result(made, instance) ELSE failWith(i)
     ELSE IF Arity(init) # Len(arguments) THEN failWith(i)
     ELSE Call(ready, Bound(ready, init), arguments, instance)

CallExpr ==
  LET callee    == Operand(Current.n)
      arguments == [n \in 1 .. Current.n |-> Operand(Current.n - n)]
      popped    == Without(Current.n + 1)
  IN /\ Executing({"call"})
     /\ Executed(CASE callee.kind = "function" ->
                        IF Arity(callee) = Current.n THEN Call(popped, callee, arguments, Nil) ELSE failWith(interp)
                   [] IsClass(interp, callee) -> CallClass(popped, callee.id, arguments)
                   [] OTHER -> failWith(interp))

\* What reading a method gives: a getter runs, another is handed out bound.
Reached(i, method, receiver) ==
  LET ready == bind(i, receiver, method)
      bound == Bound(ready, method)
  IN IF program[method.declaration].getter THEN Call(ready, bound, <<>>, Nil) ELSE Result(ready, bound)

lookUpProperty(i, receiver, name) ==
  LET owner  == i.objects[receiver.id]
      method == IF owner.isClass THEN findClassMethod(i, receiver.id, name) ELSE findMethod(i, owner.class, name)
  IN IF name \in DOMAIN owner.fields THEN Result(i, owner.fields[name])
     ELSE IF method = Nil THEN failWith(i) ELSE Reached(i, method, receiver)

Get == Executing({"get"})
       /\ Executed(IF IsObject(Operand(0)) THEN lookUpProperty(Without(1), Operand(0), Current.name) ELSE failWith(interp))

\* The owner is judged before the value is evaluated.
Set ==
  \/ Executing({"target"}) /\ Executed(IF IsObject(Operand(0)) THEN Past(interp) ELSE failWith(interp))
  \/ /\ Executing({"set"})
     /\ Executed(Result([Without(2) EXCEPT
                           !.objects[Operand(1).id].fields = Assigned(@, Current.name, Operand(0))], Operand(0)))

\* Mutant: an unresolved super reads slot 0 of the globals, which have none.
SuperUnresolved ==
  LET env        == interp.environment
      nearer     == <<IF Slot[1] = 0 THEN 0 ELSE Slot[1] - 1, 0>>
      there      == HasSlot(interp, env, Slot) /\ HasSlot(interp, env, nearer)
      superclass == GetAt(interp, env, Slot)
      receiver   == GetAt(interp, env, nearer)
      method     == IF IsClass(interp, receiver) THEN findClassMethod(interp, superclass.id, Current.name)
                    ELSE findMethod(interp, superclass.id, Current.name)
  IN /\ Executing({"super"})
     /\ Executed(IF ~Resolved THEN Crash(interp)
                 ELSE IF ~there THEN Crash(interp) ELSE IF ~IsClass(interp, superclass) THEN Crash(interp)
                 ELSE IF method = Nil THEN failWith(interp) ELSE Reached(interp, method, receiver))

\* Mutant: the search begins above the receiver's class.
SuperOfReceiver ==
  LET env        == interp.environment
      nearer     == <<IF Slot[1] = 0 THEN 0 ELSE Slot[1] - 1, 0>>
      there      == HasSlot(interp, env, Slot) /\ HasSlot(interp, env, nearer)
      superclass == GetAt(interp, env, Slot)
      receiver   == GetAt(interp, env, nearer)
      class      == IF IsClass(interp, receiver) THEN receiver.id ELSE interp.objects[receiver.id].class
      above      == interp.objects[class].superclass
      method     == IF IsClass(interp, receiver) THEN findClassMethod(interp, above, Current.name)
                    ELSE findMethod(interp, above, Current.name)
  IN /\ Executing({"super"})
     /\ Executed(IF ~Resolved THEN failWith(interp)
                 ELSE IF ~there THEN Crash(interp) ELSE IF ~IsClass(interp, superclass) THEN Crash(interp)
                 ELSE IF method = Nil THEN failWith(interp) ELSE Reached(interp, method, receiver))

Super ==
  LET env        == interp.environment
      nearer     == <<IF Slot[1] = 0 THEN 0 ELSE Slot[1] - 1, 0>>
      there      == HasSlot(interp, env, Slot) /\ HasSlot(interp, env, nearer)
      superclass == GetAt(interp, env, Slot)
      receiver   == GetAt(interp, env, nearer)
      method     == IF IsClass(interp, receiver) THEN findClassMethod(interp, superclass.id, Current.name)
                    ELSE findMethod(interp, superclass.id, Current.name)
  IN /\ Executing({"super"})
     /\ Executed(IF ~Resolved THEN failWith(interp)
                 ELSE IF ~there THEN Crash(interp) ELSE IF ~IsClass(interp, superclass) THEN Crash(interp)
                 ELSE IF method = Nil THEN failWith(interp) ELSE Reached(interp, method, receiver))

InterpreterStep ==
  \/ Literal \/ Expression \/ Variable \/ This \/ Assign \/ Var \/ Function \/ Class \/ Block \/ Skip
  \/ End \/ Return \/ CallExpr \/ Get \/ Set \/ Super
=============================================================================
