------------------------------- MODULE MCGlox -------------------------------
(***************************************************************************)
(* Phrases for sessions with glox.                                         *)
(***************************************************************************)
EXTENDS Glox

Close == Node("end", "")
Use(name) == Node("variable", name)
Assign_(name) == Node("assign", name)
NilLiteral == Node("literal", "nil")
Called(n) == [Node("call", "") EXCEPT !.n = n]
Returning(n) == [Node("return", "") EXCEPT !.n = n]
Statement == Node("expression", "")
VarA(value) == <<Node("var", "a")>> \o value \o <<Node("define", "a")>>
FunF(parameter) == [Node("fun", "f") EXCEPT !.params = <<parameter>>]

Scopes == {
  <<Node("if", "")>>,                                  \* if (...) {
  <<Node("while", "")>>,                               \* while (...) {
  <<FunF("a")>>,                                       \* fun f(a) {
  <<Close>>,                                           \* }
  VarA(<<NilLiteral>>),                                \* var a;
  VarA(<<Use("a")>>),                                  \* var a = a;
  VarA(<<NilLiteral, Assign_("a")>>),                  \* var a = a = nil;
  <<FunF("b"), Use("a"), Returning(1), Close>>,        \* fun f(b) { return a; }
  <<Use("f"), NilLiteral, Called(1), Statement>>,      \* f(nil);
  <<Use("a"), Assign_("a"), Returning(1)>>             \* return a = a;
}

Method(name) == Node("method", name)
ClassMethod_(name) == [Method(name) EXCEPT !.onTheClass = TRUE]
Getter(name) == [Method(name) EXCEPT !.getter = TRUE]
Class_(name, super) ==
  <<[Node("class", name) EXCEPT !.super = super]>>
    \o (IF super = "" THEN <<>> ELSE <<Use(super)>>)
    \o <<[Node("body", name) EXCEPT !.super = super]>>
This_ == Node("this", "")
SuperM == Node("super", "m")
GetM == Node("get", "m")
Call_ == <<Called(0), Statement>>

\* class A { m() { return this; } class m() {} }
ClassA == Class_("A", "") \o <<Method("m"), This_, Returning(1), Close, ClassMethod_("m"), Close, Close>>

Classes == {
  ClassA \o Class_("B", "A"),                          \* class A { ... } class B < A {
  <<Node("block", "")>> \o ClassA \o Class_("B", "A"), \* { class A { ... } class B < A {
  Class_("B", ""),                                     \* class B {
  <<Method("m"), SuperM, Called(0), Statement, Close>>,         \* m() { super.m(); }
  <<ClassMethod_("m"), SuperM, Called(0), Statement, Close>>,   \* class m() { super.m(); }
  <<Method("init"), This_, GetM, Statement, Close>>,   \* init() { this.m; }
  <<Getter("m"), FunF("b"), SuperM, Returning(1), Close, Use("f"), This_, Called(1), Returning(1), Close>>,
                                 \* m { fun f(b) { return super.m; } return f(this); }
  <<Getter("init"), NilLiteral, Returning(1), Close>>, \* init { return nil; }
  <<Close>>,                                           \* }
  <<Close>> \o Class_("C", "B") \o <<Close>>,          \* } class C < B { }
  <<Use("C"), Called(0), GetM>> \o Call_,             \* C().m();
  <<Use("C"), GetM>> \o Call_,                        \* C.m();
  <<Use("C"), Node("target", ""), Use("B"), Node("set", "m"), Statement>>,  \* C.m = B;
  <<Use("C"), Called(0), Node("bare", "")>>,           \* C()
  <<SuperM, Node("bare", "")>>                         \* super.m
}
=============================================================================
