-------------------------------- MODULE Fasl --------------------------------
(***************************************************************************)
(* The module file: src/scheme/compiler/fasl.scm writes it and             *)
(* src/vm/module.c reads it.  A file is a sequence of fields: a number, an *)
(* opcode, the tag of a datum or a text is one each, and sizes count       *)
(* fields instead of bytes.                                                *)
(***************************************************************************)
EXTENDS Scheme, Values

Pairwise(flat) == [i \in 1 .. Len(flat) \div 2 |-> <<flat[2 * i - 1], flat[2 * i]>>]
BoolToInt(b) == IF b THEN 1 ELSE 0

-----------------------------------------------------------------------------
(* Writing.                                                                *)

\* Elements of a chain of pairs from the last to the first, after what ends
\* the chain.
RECURSIVE PairPrepare(_, _)
PairPrepare(pair, done) ==
  LET elements == <<pair.car>> \o done
  IN  IF pair.cdr.t = "cons" THEN PairPrepare(pair.cdr, elements)
      ELSE <<pair.cdr>> \o elements

RECURSIVE PutObject(_)
PutObjects(data) == FlattenSeq([i \in DOMAIN data |-> PutObject(data[i])])
PutObject(d) ==
  CASE d.t = "nil" -> <<"OT_NULL">>
    [] d.t = "bool" -> <<"OT_BOOLEAN", BoolToInt(d.b)>>
    [] d.t = "chr" -> <<"OT_CHARACTER", d.c>>
    [] d.t = "num" -> <<"OT_FIXNUM", d.v>>
    [] d.t = "sym" -> <<"OT_SYMBOL", d.y>>
    [] d.t = "str" -> <<"OT_STRING", d.s>>
    [] d.t = "static" -> <<"OT_STATIC", d.name>>
    [] d.t = "cons" -> <<"OT_PAIR_BEGIN">> \o PutObjects(PairPrepare(d, <<>>))
                         \o <<"OT_PAIR_END">>
    [] d.t = "vec" -> <<"OT_STRUCT", VectorName, Len(d.items)>> \o PutObjects(d.items)

WriteConsts(consts) == <<Len(consts)>> \o PutObjects(consts)

AssembleCode(fn) ==
  <<fn.env_size, fn.argc, BoolToInt(fn.swallow), Len(fn.code), BoolToInt(fn.heap_env),
    fn.depth, Len(fn.bindings), Len(fn.bindmap)>>
    \o FlattenSeq(fn.bindings) \o fn.bindmap \o FlattenSeq(fn.code)

AssembleFile(ilr) ==
  LET consts == WriteConsts(ilr.consts)
  IN  <<Len(consts), Len(ilr.functions), ilr.entry_point>> \o consts
        \o FlattenSeq([i \in DOMAIN ilr.functions |-> AssembleCode(ilr.functions[i])])

-----------------------------------------------------------------------------
(* Reading.  A reader holds the fields that are left, the value that it    *)
(* has just read and the objects in the module's constants.                *)

Rest(st, n) == [st EXCEPT !.in = SubSeq(@, n + 1, Len(@))]
Read(st, n, v) == [Rest(st, n) EXCEPT !.val = v]
Allocated(st, object) ==
  [st EXCEPT !.objects = Append(@, object), !.val = Const(Len(st.objects) + 1)]
Pointed(objects, v) == IF v.k = "const" THEN objects[v.a] ELSE NoObject

RECURSIVE FaslReadDatum(_), ReadPair(_)

\* What has been read is the rest of a pair with the next datum, until the
\* end mark.
ReadPair(st) ==
  IF st.in[1] = "OT_PAIR_END" THEN Rest(st, 1)
  ELSE LET new == FaslReadDatum(st)
       IN  ReadPair(Allocated(new, PairOf(new.val, st.val, Pointed(new.objects, st.val))))

\* The structure is there before its fields.
ReadStruct(st) ==
  LET a == Len(st.objects) + 1
      AddField(s, i) == LET new == FaslReadDatum(s)
                        IN  [new EXCEPT !.objects[a].fields = Append(@, new.val)]
      size == st.in[3]
      new == Allocated(Rest(st, 3), StructOf(Symbol(st.in[2]), <<>>))
  IN  [FoldLeft(AddField, new, [i \in 1..size |-> i]) EXCEPT !.val = Const(a)]

FaslReadDatum(st) ==
  LET type == st.in[1]
  IN  CASE type = "OT_NULL" -> Read(st, 1, Null)
        [] type = "OT_BOOLEAN" -> Read(st, 2, CIf(st.in[2] # 0))
        [] type = "OT_CHARACTER" -> Read(st, 2, Char(st.in[2]))
        [] type = "OT_FIXNUM" -> Read(st, 2, Fix(st.in[2]))
        [] type = "OT_SYMBOL" -> Read(st, 2, Symbol(st.in[2]))
        [] type = "OT_STRING" -> Allocated(Rest(st, 2), OtherText(st.in[2], "file"))
        [] type = "OT_STATIC" -> Read(st, 2, Native(st.in[2]))
        [] type = "OT_PAIR_BEGIN" -> ReadPair(FaslReadDatum(Rest(st, 1)))
        [] type = "OT_STRUCT" -> ReadStruct(st)

\* The constants, with the objects that they lead to.
LoadConsts(fields) ==
  LET Load(st, i) == LET new == FaslReadDatum(st)
                     IN  [new EXCEPT !.consts = Append(@, new.val)]
  IN  FoldLeft(Load, [in |-> Tail(fields), val |-> Null, objects |-> <<>>, consts |-> <<>>],
               [i \in 1..fields[1] |-> i])

\* Bindings and the bindmap are there only when there are bindings.
ReadFunc(st, i) ==
  LET in == st.in
      bcount == in[7]
      bmcount == IF bcount = 0 THEN 0 ELSE in[8]
      bindmap == 8 + 2 * bcount
      code == bindmap + bmcount
      end == code + 2 * in[4]
  IN  [in |-> SubSeq(in, end + 1, Len(in)),
       functions |-> Append(st.functions,
         [env_size |-> in[1], argc |-> in[2], swallow |-> in[3] # 0, heap_env |-> in[5] # 0,
          depth |-> in[6], bindings |-> Pairwise(SubSeq(in, 9, bindmap)),
          bindmap |-> SubSeq(in, bindmap + 1, code),
          code |-> Pairwise(SubSeq(in, code + 1, end))])]

ModuleParse(file) ==
  LET size == file[1]
      loaded == LoadConsts(SubSeq(file, 4, 3 + size))
      read == FoldLeft(ReadFunc,
                       [in |-> SubSeq(file, 4 + size, Len(file)), functions |-> <<>>],
                       [i \in 1..file[2] |-> i])
  IN  [consts |-> loaded.consts, objects |-> loaded.objects, functions |-> read.functions,
       entry_point |-> file[3]]
=============================================================================
