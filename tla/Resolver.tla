------------------------------ MODULE Resolver ------------------------------
(***************************************************************************)
(* resolver/resolver.go: one walk over the tree that finds, for every use  *)
(* of a local variable, the scope and the slot it lives in, and reports    *)
(* static errors and the locals nobody reads.                              *)
(*                                                                         *)
(* What the recursion of the code keeps on Go's stack, the enclosing       *)
(* function and class, is the sequence enclosing.  A Set's object is       *)
(* visited before its value here and after it in the code, which neither   *)
(* the scopes nor what is found can tell.                                  *)
(***************************************************************************)
EXTENDS Program

VARIABLE resolver \* the Resolver, and the node it is about to visit

Resolve(from) ==
  [at |-> from, scopes |-> <<>>, currentFunction |-> "none", currentClass |-> "none",
   enclosing |-> <<>>, errs |-> {}, warnings |-> {}]

-----------------------------------------------------------------------------
(* Scopes: r is a Resolver; scopes and their bindings are innermost last *)

fail(r, node, why) == [r EXCEPT !.errs = @ \cup {<<node, why>>}]

BindingsOf(scope, name) == {n \in DOMAIN scope : scope[n].name = name}
Innermost(r) == Len(r.scopes)

beginScope(r) == [r EXCEPT !.scopes = Append(@, <<>>)]

\* Mutant: parameters are warned of too.
endScopeAll(r) ==
  [r EXCEPT !.scopes = Front(@),
            !.warnings = @ \cup {b.node : b \in {b \in ToSet(Last(r.scopes)) : b.kind # "this" /\ ~b.read}}]

\* A name nobody read is warned of, unless the source did not choose it.
endScope(r) ==
  [r EXCEPT !.scopes = Front(@),
            !.warnings = @ \cup {b.node : b \in {b \in ToSet(Last(r.scopes)) : b.kind = "variable" /\ ~b.read}}]

\* Mutant: a second declaration takes a slot like the first.
declareAgain(r, name, kind, node) ==
  IF r.scopes = <<>> THEN r
  ELSE [r EXCEPT !.scopes[Innermost(r)] =
          Append(@, [name |-> name, kind |-> kind, node |-> node, defined |-> FALSE, read |-> FALSE])]

\* A name is declared once in a scope; the top level has no scope.
declare(r, name, kind, node) ==
  IF r.scopes = <<>> THEN r
  ELSE IF BindingsOf(Last(r.scopes), name) # {} THEN fail(r, node, "declared twice")
  ELSE [r EXCEPT !.scopes[Innermost(r)] =
          Append(@, [name |-> name, kind |-> kind, node |-> node, defined |-> FALSE, read |-> FALSE])]

define(r, name) ==
  IF r.scopes = <<>> THEN r
  ELSE [r EXCEPT !.scopes[Innermost(r)] =
          [n \in DOMAIN @ |-> IF @[n].name = name THEN [@[n] EXCEPT !.defined = TRUE] ELSE @[n]]]

introduce(r, name, kind, node) == define(declare(r, name, kind, node), name)

\* The locals, with what was found for this node.
Given(address) ==
  [i \in DOMAIN locals \cup {resolver.at} |-> IF i = resolver.at THEN address ELSE locals[i]]

\* Mutant: the search begins at the outermost scope.
resolveLocalOutermost(r, name, read) ==
  LET found == {d \in 1 .. Innermost(r) : BindingsOf(r.scopes[d], name) # {}}
      depth == Min(found)
      slot  == Min(BindingsOf(r.scopes[depth], name))
  IN IF found = {} THEN resolver' = r /\ UNCHANGED locals
     ELSE /\ resolver' = [r EXCEPT !.scopes[depth][slot].read = @ \/ read]
          /\ locals' = Given(<<Innermost(r) - depth, slot - 1>>)

\* A name found in no scope is global, and gets no slot.
resolveLocal(r, name, read) ==
  LET found == {d \in 1 .. Innermost(r) : BindingsOf(r.scopes[d], name) # {}}
      depth == Max(found)
      slot  == Min(BindingsOf(r.scopes[depth], name))
  IN IF found = {} THEN resolver' = r /\ UNCHANGED locals
     ELSE /\ resolver' = [r EXCEPT !.scopes[depth][slot].read = @ \/ read]
          /\ locals' = Given(<<Innermost(r) - depth, slot - 1>>)

\* One scope for the parameters and the body together.
resolveFunction(r, kind) ==
  LET inside == [beginScope(r) EXCEPT !.enclosing = Append(@, r.currentFunction), !.currentFunction = kind]
      params == program[resolver.at].params
      with[n \in 0 .. Len(params)] ==
        IF n = 0 THEN inside ELSE introduce(with[n - 1], params[n], "parameter", resolver.at)
  IN with[Len(params)]

-----------------------------------------------------------------------------
(* One visit *)

Here == program[resolver.at]
Moved == [resolver EXCEPT !.at = @ + 1]
Visiting(kinds) == resolver.at \in Nodes /\ Here.kind \in kinds
Visited(r) == resolver' = r /\ UNCHANGED locals

VisitBlockStmt == Visiting({"block", "if", "while"}) /\ Visited(beginScope(Moved))

VisitVarStmt ==
  \/ Visiting({"var"}) /\ Visited(declare(Moved, Here.name, "variable", resolver.at))
  \/ Visiting({"define"}) /\ Visited(define(Moved, Here.name))

VisitFunctionStmt ==
  /\ Visiting({"fun"})
  /\ Visited(resolveFunction(introduce(Moved, Here.name, "variable", resolver.at), "function"))

\* The class's name is bound before its superclass is resolved.
ClassName ==
  /\ Visiting({"class"})
  /\ LET bound == introduce(Moved, Here.name, "variable", resolver.at)
         checked == IF Here.super = Here.name THEN fail(bound, resolver.at, "inherits itself") ELSE bound
     IN Visited([checked EXCEPT !.enclosing = Append(@, resolver.currentClass),
                                !.currentClass = IF Here.super = "" THEN "class" ELSE "subclass"])

ClassBody ==
  /\ Visiting({"body"})
  /\ LET outer == IF Here.super = "" THEN Moved ELSE introduce(beginScope(Moved), "super", "super", resolver.at)
     IN Visited(introduce(beginScope(outer), "this", "this", resolver.at))

ClassMethod ==
  LET initializer == Here.name = "init" /\ ~Here.onTheClass
      checked == IF initializer /\ Here.getter THEN fail(Moved, resolver.at, "init is a getter") ELSE Moved
  IN /\ Visiting({"method"})
     /\ Visited(resolveFunction(checked, IF initializer THEN "initializer"
                                         ELSE IF Here.onTheClass THEN "classMethod" ELSE "method"))

VisitClassStmt == ClassName \/ ClassBody \/ ClassMethod

\* Mutant: the scope of super is not closed.
EndVisitOnce ==
  LET opener == program[Here.in]
      ended  == endScope(Moved)
      saved  == Last(resolver.enclosing)
  IN /\ Visiting({"end"})
     /\ Visited(CASE opener.kind \in Functions -> [ended EXCEPT !.currentFunction = saved, !.enclosing = Front(@)]
                  [] opener.kind = "body" -> [ended EXCEPT !.currentClass = saved, !.enclosing = Front(@)]
                  [] OTHER -> ended)

\* What the visit that opened a scope does when it is done with what is inside.
EndVisit ==
  LET opener == program[Here.in]
      ended  == endScope(Moved)
      saved  == Last(resolver.enclosing)
  IN /\ Visiting({"end"})
     /\ Visited(CASE opener.kind \in Functions -> [ended EXCEPT !.currentFunction = saved, !.enclosing = Front(@)]
                  [] opener.kind = "body" -> [(IF opener.super = "" THEN ended ELSE endScope(ended))
                                                EXCEPT !.currentClass = saved, !.enclosing = Front(@)]
                  [] OTHER -> ended)

VisitReturnStmt ==
  LET valued == resolver.currentFunction = "initializer" /\ Here.n = 1
  IN /\ Visiting({"return"})
     /\ Visited(IF resolver.currentFunction = "none" THEN fail(Moved, resolver.at, "top-level return")
                ELSE IF valued THEN fail(Moved, resolver.at, "value from init") ELSE Moved)

\* Mutant: a name may be read while it is being defined.
VisitVariableExprAnywhere == Visiting({"variable"}) /\ resolveLocal(Moved, Here.name, TRUE)

\* A name declared in the innermost scope and not defined is being defined.
VisitVariableExpr ==
  LET own == resolver.scopes # <<>> /\ \E b \in ToSet(Last(resolver.scopes)) : b.name = Here.name /\ ~b.defined
      checked == IF own THEN fail(Moved, resolver.at, "own initializer") ELSE Moved
  IN Visiting({"variable"}) /\ resolveLocal(checked, Here.name, TRUE)

VisitAssignExpr == Visiting({"assign"}) /\ resolveLocal(Moved, Here.name, FALSE)

VisitThisExpr ==
  /\ Visiting({"this"})
  /\ (IF resolver.currentClass = "none" THEN Visited(fail(Moved, resolver.at, "this outside"))
      ELSE resolveLocal(Moved, "this", TRUE))

\* Mutant: any class will do.
VisitSuperExprInAnyClass ==
  /\ Visiting({"super"})
  /\ (IF resolver.currentClass = "none" THEN Visited(fail(Moved, resolver.at, "super outside"))
      ELSE resolveLocal(Moved, "super", TRUE))

VisitSuperExpr ==
  /\ Visiting({"super"})
  /\ (CASE resolver.currentClass = "none"  -> Visited(fail(Moved, resolver.at, "super outside"))
        [] resolver.currentClass = "class" -> Visited(fail(Moved, resolver.at, "no superclass"))
        [] OTHER -> resolveLocal(Moved, "super", TRUE))

\* Nodes with nothing to bind: calls, property accesses, literals, statements
\* of one expression.
Unbound == {"literal", "call", "get", "target", "set", "expression"}
VisitOther == Visiting(Unbound) /\ Visited(Moved)

ResolverStep ==
  \/ VisitBlockStmt \/ VisitVarStmt \/ VisitFunctionStmt \/ VisitClassStmt \/ EndVisit
  \/ VisitReturnStmt \/ VisitVariableExpr \/ VisitAssignExpr \/ VisitThisExpr \/ VisitSuperExpr
  \/ VisitOther
=============================================================================
