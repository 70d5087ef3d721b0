------------------------------- MODULE Scheme -------------------------------
(***************************************************************************)
(* The expanded programs that the compiler works on: what expand-file      *)
(* (src/scheme/compiler/expand.scm) hands to optimize-source and then to   *)
(* cps-convert and start-compile.  A node is a record whose field t says   *)
(* what it is.  A name is a sequence of strings: expansion has given every *)
(* variable a name of its own, and gen-name is modelled by the path of the *)
(* node that asks for the name.                                            *)
(***************************************************************************)
EXTENDS Integers, Sequences, SequencesExt

Var(n) == [t |-> "var", n |-> n]
Num(v) == [t |-> "num", v |-> v]
Bool(b) == [t |-> "bool", b |-> b]
Nil == [t |-> "nil"]
Chr(c) == [t |-> "chr", c |-> c]
Str(s) == [t |-> "str", s |-> s]

\* A quoted datum other than (): one of the above, a symbol, a pair, a vector.
Quote(d) == [t |-> "quote", d |-> d]
Sym(y) == [t |-> "sym", y |-> y]
QPair(a, d) == [t |-> "cons", car |-> a, cdr |-> d]
VectorName == <<118, 101, 99, 116, 111, 114>>
Vec(items) == [t |-> "vec", items |-> items]

\* The constant that stands for a native of the VM.
Static(name) == [t |-> "static", name |-> name]

\* rest is <<>> or the one name after the dot; ext holds the names of the
\* (extend ...) form, which only cps-convert makes.
Lam(args, rest, ext, body) ==
  [t |-> "lambda", args |-> args, rest |-> rest, ext |-> ext, body |-> body]
If(c, a, b) == [t |-> "if", c |-> c, a |-> a, b |-> b]
Set(n, e) == [t |-> "set!", n |-> n, e |-> e]
Begin(body) == [t |-> "begin", body |-> body]
Define(n, e) == [t |-> "define", n |-> n, e |-> e]

\* A call, or the use of one of the VM's operators.
Call(f, args) == [t |-> "call", f |-> f, args |-> args]
Op(o, args) == [t |-> "op", o |-> o, args |-> args]

\* A native of the VM, by name; also the name of a type test.
Prim(s) == Var(<<s>>)

Lambda(args, body) == Lam(args, <<>>, <<>>, body)
Let(n, e, body) == Call(Lambda(<<n>>, body), <<e>>)

\* (name side-effect? change-cont?)
PrimitivesBuiltin ==
  [display |-> <<TRUE, FALSE>>, __exit |-> <<TRUE, FALSE>>,
   callcc |-> <<TRUE, TRUE>>, apply |-> <<FALSE, TRUE>>,
   list |-> <<FALSE, FALSE>>, void |-> <<FALSE, FALSE>>,
   load_library |-> <<TRUE, TRUE>>,
   handlers |-> <<TRUE, FALSE>>, library_cache |-> <<TRUE, FALSE>>,
   length |-> <<FALSE, FALSE>>, make_list |-> <<FALSE, FALSE>>,
   eof_object |-> <<FALSE, FALSE>>, char_to_integer |-> <<FALSE, FALSE>>,
   integer_to_char |-> <<FALSE, FALSE>>,
   make_struct |-> <<FALSE, FALSE>>, alloc_struct |-> <<FALSE, FALSE>>,
   struct_size |-> <<FALSE, FALSE>>, struct_ref |-> <<FALSE, FALSE>>,
   struct_set |-> <<TRUE, FALSE>>, struct_type |-> <<FALSE, FALSE>>,
   struct_to_list |-> <<FALSE, FALSE>>, symbol_to_string |-> <<FALSE, FALSE>>,
   string_ref |-> <<FALSE, FALSE>>, string_set |-> <<TRUE, FALSE>>,
   string_length |-> <<FALSE, FALSE>>, string_eq |-> <<FALSE, FALSE>>,
   string_concat |-> <<FALSE, FALSE>>, substring |-> <<FALSE, FALSE>>,
   string_copy |-> <<FALSE, FALSE>>, string_copy_to |-> <<TRUE, FALSE>>,
   make_string |-> <<FALSE, FALSE>>, make_bytevector |-> <<FALSE, FALSE>>,
   bytevector_8_set |-> <<TRUE, FALSE>>]

IsBuiltin(n) == Len(n) = 1 /\ n[1] \in DOMAIN PrimitivesBuiltin

SideEffect(n) == PrimitivesBuiltin[n[1]][1]
ChangesCont(n) == PrimitivesBuiltin[n[1]][2]
=============================================================================
