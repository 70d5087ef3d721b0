------------------------------ MODULE MCScheme ------------------------------
(***************************************************************************)
(* Short ways to write the source programs of the MC modules.              *)
(***************************************************************************)
EXTENDS Scheme

V(s) == Var(<<s>>)
L(args, body) == Lambda([i \in DOMAIN args |-> <<args[i]>>], body)
LRest(args, rest, body) ==
  Lam([i \in DOMAIN args |-> <<args[i]>>], <<<<rest>>>>, <<>>, body)
Def(s, e) == Define(<<s>>, e)
SetTo(s, e) == Set(<<s>>, e)
LetIn(s, e, body) == Call(L(<<s>>, body), <<e>>)
Plus(a, b) == Op("$+", <<a, b>>)
Minus(a, b) == Op("$-", <<a, b>>)
Less(a, b) == Op("$<", <<a, b>>)
Pair(a, b) == Op("$cons", <<a, b>>)
Car(a) == Op("$car", <<a>>)
Cdr(a) == Op("$cdr", <<a>>)
Not(a) == Op("$!", <<a>>)
IsEq(a, b) == Op("$eq?", <<a, b>>)
Show(e) == Call(V("display"), <<e>>)
F(f, args) == Call(V(f), args)
Program(body) == L(<<>>, body)
=============================================================================
