-------------------------------- MODULE Glox --------------------------------
(***************************************************************************)
(* A session with glox, main.go: a line is read, resolved and, if nothing  *)
(* is wrong with it, executed by the one interpreter of the session.  A    *)
(* script is a session of one line.                                        *)
(*                                                                         *)
(* Lines are written phrase by phrase, a phrase being a sequence of nodes, *)
(* and only as the grammar allows: methods directly in a class body and    *)
(* nothing else there, and every node that opens a scope closed by the end *)
(* of the line.  A node "bare" ends a line that is only an expression.     *)
(***************************************************************************)
EXTENDS Resolver, Interpreter

CONSTANTS
  Phrases,     \* what a line is made of
  MaxPhrases,  \* in the session
  MaxLines

ASSUME PhrasesAssumption == Phrases \subseteq Seq(NodeSet) \ {<<>>}

VARIABLES
  phase,    \* "writing", "resolving" or "executing"
  line,     \* the line's first node
  written,  \* the session's phrases so far
  lines     \* lines done

vars == <<program, resolver, locals, interp, phase, line, written, lines>>

TypeOK ==
  /\ phase \in {"writing", "resolving", "executing"}
  /\ line \in 1 .. Len(program) + 1 /\ written \in 0 .. MaxPhrases /\ lines \in 0 .. MaxLines
  /\ DOMAIN locals \subseteq Nodes
  /\ phase = "resolving" =>
       /\ resolver.at \in line .. Len(program) + 1
       /\ Len(resolver.scopes) = IF resolver.at \in Nodes THEN Len(ScopesAround(resolver.at)) ELSE 0
  /\ interp.environment \in DOMAIN interp.envs
  /\ interp.status \in {"running", "error", "crashed"}

Init ==
  /\ program = <<>> /\ resolver = Resolve(1) /\ locals = <<>> /\ interp = NewWithWriter
  /\ phase = "writing" /\ line = 1 /\ written = 0 /\ lines = 0

-----------------------------------------------------------------------------
(* Writing a line *)

Open   == {i \in Nodes : program[i].kind \in Openers /\ Unclosed(SubSeq(program, 1, i)) = i
                         /\ \A j \in Nodes : program[j].kind = "end" => program[j].in # i}
IsBare(phrase) == Last(phrase).kind = "bare"

\* Leaves room for closing what is open.
Fits(phrase) ==
  LET opened == Cardinality({i \in DOMAIN phrase : phrase[i].kind \in Openers})
      closed == Cardinality({i \in DOMAIN phrase : phrase[i].kind = "end"})
  IN written + Cardinality(Open) + opened + 1 <= MaxPhrases + closed

Write(phrase) ==
  /\ phase = "writing" /\ lines < MaxLines /\ Fits(phrase)
  /\ IsBare(phrase) => Len(program) < line /\ \A n \in 1 .. Len(phrase) - 1 : phrase[n].kind \in Expressions
  /\ Len(program) >= line => Last(program).kind # "bare"
  /\ program' = Extended(program, phrase) /\ written' = written + 1
  /\ \A i \in Len(program) + 1 .. Len(program') : Grammatical(program', i)
  /\ UNCHANGED <<resolver, locals, interp, phase, line, lines>>

-----------------------------------------------------------------------------
(* Running it *)

\* A bare expression goes to the interpreter as it is.
EnterExpression ==
  /\ phase = "writing" /\ Len(program) >= line /\ Last(program).kind = "bare"
  /\ phase' = "executing" /\ interp' = [interp EXCEPT !.pc = line, !.status = "running"]
  /\ UNCHANGED <<program, resolver, locals, line, written, lines>>

EnterProgram ==
  /\ phase = "writing" /\ Len(program) >= line /\ Last(program).kind # "bare"
  /\ Unclosed(program) = 0 /\ Begun(program, Len(program) + 1) = {} /\ Operands(program, Len(program)) = <<>>
  /\ phase' = "resolving" /\ resolver' = Resolve(line)
  /\ UNCHANGED <<program, locals, interp, line, written, lines>>

Resolving ==
  /\ phase = "resolving" /\ ResolverStep
  /\ UNCHANGED <<program, interp, phase, line, written, lines>>

NextLine ==
  /\ phase' = "writing" /\ line' = Len(program) + 1 /\ lines' = lines + 1
  /\ UNCHANGED <<program, resolver, locals, written>>

ResolvingDone == phase = "resolving" /\ resolver.at > Len(program)

Refuse == ResolvingDone /\ resolver.errs # {} /\ NextLine /\ UNCHANGED interp

Accept ==
  /\ ResolvingDone /\ resolver.errs = {}
  /\ phase' = "executing" /\ interp' = [interp EXCEPT !.pc = line, !.status = "running"]
  /\ UNCHANGED <<program, resolver, locals, line, written, lines>>

Execution ==
  /\ phase = "executing" /\ InterpreterStep
  /\ UNCHANGED <<program, resolver, phase, line, written, lines>>

\* The value of a bare expression is printed.
Bare == Executing({"bare"}) /\ Executed(Past(Without(1)))
Printing == phase = "executing" /\ Bare /\ UNCHANGED <<program, resolver, phase, line, written, lines>>

ExecutionDone ==
  /\ phase = "executing" /\ interp.status # "crashed"
  /\ interp.pc > Len(program) \/ interp.status = "error"
  /\ NextLine /\ UNCHANGED interp

\* The session is over, the process is dead, or the bounds are reached.
Over ==
  /\ \/ phase = "writing" /\ Len(program) < line /\ (lines = MaxLines \/ written = MaxPhrases)
     \/ phase = "executing" /\ interp.status = "crashed"
     \/ phase = "executing" /\ interp.pc \in Nodes /\ ~HasRoom
  /\ UNCHANGED vars

Next ==
  \/ \E phrase \in Phrases : Write(phrase)
  \/ EnterExpression \/ EnterProgram \/ Resolving \/ Refuse \/ Accept \/ Execution \/ Printing
  \/ ExecutionDone \/ Over

Spec == Init /\ [][Next]_vars

-----------------------------------------------------------------------------
(* Properties *)

\* In a line without errors every use of a local is given the scope and the
\* slot its declaration has by the text, and no other use is given any (resolver.go:219-231, 346-351).
ResolvesLexically ==
  ResolvingDone /\ resolver.errs = {} =>
    \A i \in {i \in line .. Len(program) : program[i].kind \in Uses} :
      LexicalAddress(i, NameUsed(i)) = IF i \in DOMAIN locals THEN locals[i] ELSE <<>>

\* The static errors of a line, read off its text.
InScopeOf(i, j) == program[j].in # 0 /\ program[j].in = program[i].in
DeclaredBefore(i, name) ==
  \E j \in line .. i - 1 : InScopeOf(i, j) /\ program[j].kind \in {"var", "fun", "class"} /\ program[j].name = name
DeclaredTwice(i) ==
  \/ /\ program[i].kind \in {"var", "fun", "class"} /\ program[i].in # 0
     /\ \/ DeclaredBefore(i, program[i].name)
        \/ program[i].name \in ToSet(program[program[i].in].params)
  \/ Cardinality(ToSet(program[i].params)) # Len(program[i].params)
OwnInitializer(i) ==
  /\ program[i].kind = "variable"
  /\ \E j \in line .. i - 1 :
       /\ program[j].kind = "var" /\ program[j].name = program[i].name /\ InScopeOf(i, j) /\ ~DeclaredTwice(j)
       /\ \A d \in j .. i : ~(program[d].kind = "define" /\ program[d].in = program[j].in)
InnermostOf(i, kinds) == Max({0} \cup Around(i, kinds))
IsInitializer(i) == i # 0 /\ program[i].kind = "method" /\ program[i].name = "init" /\ ~program[i].onTheClass
Errors(i) ==
  LET kind     == program[i].kind
      class    == InnermostOf(i, {"body"})
      function == InnermostOf(i, Functions)
  IN {why \in {"declared twice", "own initializer", "inherits itself", "init is a getter", "top-level return",
               "value from init", "this outside", "super outside", "no superclass"} :
        CASE why = "declared twice"   -> DeclaredTwice(i)
          [] why = "own initializer"  -> OwnInitializer(i)
          [] why = "inherits itself"  -> kind = "class" /\ program[i].super = program[i].name
          [] why = "init is a getter" -> IsInitializer(i) /\ program[i].getter
          [] why = "top-level return" -> kind = "return" /\ function = 0
          [] why = "value from init"  -> kind = "return" /\ program[i].n = 1 /\ IsInitializer(function)
          [] why = "this outside"     -> kind = "this" /\ class = 0
          [] why = "super outside"    -> kind = "super" /\ class = 0
          [] why = "no superclass"    -> kind = "super" /\ class # 0 /\ ~IsSubclass(class)}

\* The resolver reports exactly the static errors of the text, so a line runs
\* exactly if it has none (resolver.go:140-148, main.go:100-104).
RefusesExactly ==
  ResolvingDone =>
    resolver.errs = UNION {{i} \X Errors(i) : i \in line .. Len(program)}

\* It warns of exactly the locals that no use in the text reads
\* (resolver.go:164-181).
WarnsExactly ==
  ResolvingDone /\ resolver.errs = {} =>
    resolver.warnings =
      {i \in line .. Len(program) :
         /\ program[i].kind \in {"var", "fun", "class"} /\ program[i].in # 0
         /\ \A use \in i + 1 .. Len(program) :
              program[use].kind = "variable" /\ program[use].name = program[i].name =>
                LET address == LexicalAddress(use, program[i].name)
                    scope   == ScopesAround(use)[address[1] + 1]
                IN address # <<>> =>
                     scope[1] # program[i].in \/ Declarations(scope)[address[2] + 1].node # i}

\* The scopes the interpreter is in, one environment each, are the scopes the
\* text is in, whatever closures were called, bodies left early and errors
\* raised; between lines it is back at the globals (resolver.go:342-346,
\* 257-276, interpreter.go:495-503).
ScopesOfEnvironment(env) ==
  LET chain[e \in 0 .. Len(interp.envs)] ==
        IF e \in {0, globals} THEN <<>> ELSE <<interp.envs[e].scope>> \o chain[interp.envs[e].enclosing]
  IN chain[env]
InScope ==
  /\ phase # "executing" => interp.environment = globals /\ interp.stack = <<>>
  /\ phase = "executing" /\ interp.status = "running" =>
       ScopesOfEnvironment(interp.environment) =
         IF interp.pc \in Nodes THEN ScopesAround(interp.pc) ELSE <<>>

\* The slots of an environment are its scope's declarations in order, up to
\* some point: the n-th Define is the n-th declaration (environment.go:34-39).
SlotsLineUp ==
  \A e \in DOMAIN interp.envs \ {globals} :
    LET slots == interp.envs[e].slots
        declared == Declarations(interp.envs[e].scope)
    IN /\ Len(slots) <= Len(declared)
       /\ \A n \in DOMAIN slots : slots[n].name = declared[n].name

\* No use of a local finds its slot out of range (environment.go:75-79, 88-90):
\* not so of an assignment to a variable in its own initializer.
NeverCrashes == interp.status # "crashed"

\* That is the only way to die: no other slot is out of range, no return is
\* unrecovered, and super is a class (environment.go:81-95, interpreter.go:194-219).
AssignsItself(i) ==
  /\ program[i].kind = "assign"
  /\ \E j \in Begun(program, i) : program[j].name = program[i].name /\ InScopeOf(i, j)
CrashesOnlyInInitializers == interp.status = "crashed" => AssignsItself(interp.pc)

\* super hands out a method of a class older than the one the text is in,
\* whatever class the receiver is of, and bound to the receiver the text calls
\* this (interpreter.go:194-219).
ThisAround ==
  LET this[e \in 0 .. Len(interp.envs)] ==
        IF e \in {0, globals} THEN Nil
        ELSE IF interp.envs[e].scope[2] = "this" THEN interp.envs[e].slots[1].value ELSE this[interp.envs[e].enclosing]
  IN this[interp.environment]
SuperGoesUp ==
  [][LET made == interp'.envs[Len(interp.envs) + 1]
     IN phase = "executing" /\ interp.pc \in Nodes /\ program[interp.pc].kind = "super" =>
          \/ interp' = interp \/ interp'.status # "running"
          \/ /\ made.enclosing < ancestor(interp, interp.environment, Slot[1])
             /\ made.slots[1].value = ThisAround]_vars
=============================================================================
