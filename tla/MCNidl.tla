------------------------------- MODULE MCNidl -------------------------------
(* NidlImport on the files a.idl to d.idl, with these contents:            *)
(*   - every way of importing one another (also itself, twice, in cycles,  *)
(*     under different spellings, from an include directory, and of files  *)
(*     that are missing, unreadable or wrong), with fixed interfaces;      *)
(*   - a root with three interfaces and any bases, one of them declared    *)
(*     again by the file that it imports;                                  *)
(*   - a root with one method of every short signature.                    *)
EXTENDS NidlImport

To(f) == [to |-> f, spell |-> "plain"]
Detour(f) == [to |-> f, spell |-> "detour"]
Absolute(f) == [to |-> f, spell |-> "absolute"]

NoMethods(name, b) == [name |-> name, base |-> b, methods |-> <<>>]

File(m, imports, ifaces, structs) ==
  [module |-> m, home |-> "here", state |-> "fine",
   imports |-> imports, ifaces |-> ifaces, structs |-> structs]

(* d is a leaf: imported by c it is the fourth file of a chain.            *)
Disk(a, b, c) ==
  [f \in Files |-> CASE f = "a" -> a [] f = "b" -> b [] f = "c" -> c
                     [] f = "d" -> File("D", <<>>, <<NoMethods("i_d", NULL)>>, <<>>)]

(* b and c both declare an interface and a struct of the same name.        *)
ImportDisks ==
  {Disk(File("A", ia, <<NoMethods("i_a", "i_c")>>, <<>>),
        File("B", ib, <<NoMethods("i_b", "i_c")>>, <<"s">>),
        File("C", ic, <<NoMethods("i_c", NULL), NoMethods("i_b", NULL)>>, <<"s">>)) :
     ia \in {<<To("b")>>, <<To("b"), To("c")>>, <<To("c"), To("b")>>,
             <<Absolute("b"), To("c")>>},
     ib \in {<<>>, <<To("c")>>, <<To("c"), To("b")>>, <<Detour("a")>>,
             <<Absolute("a")>>, <<To("c"), Absolute("c")>>},
     ic \in {<<>>, <<To("d")>>, <<To("a")>>, <<To("c")>>, <<Absolute("b")>>, <<Detour("c")>>}}

(* The same with c in an include directory, missing or not to be parsed.   *)
ElsewhereDisks ==
  {[d EXCEPT !["c"].home = h, !["c"].state = s] :
     d \in {e \in ImportDisks : e["c"].imports \in {<<>>, <<To("a")>>}},
     h \in {"inc", "nowhere"}, s \in {"fine"}}
  \union {[d EXCEPT !["c"].state = s] :
     d \in {e \in ImportDisks : e["c"].imports = <<>>},
     s \in {"unreadable", "syntax_error"}}

BaseDisks ==
  {Disk(File("A", <<To("c")>>,
             <<NoMethods("x", bx), NoMethods("y", by), NoMethods("z", bz)>>, <<>>),
        File("B", <<>>, <<>>, <<>>),
        File("C", <<>>, <<NoMethods("i_c", "x"), NoMethods("y", NULL)>>, <<>>)) :
     bx, by, bz \in {NULL, "x", "y", "z", "i_c", "i_unknown"}}

Types == {"i_c", "i_string", "ncom_istring", "octet", "uuid", "s"}

Parameters == [dir : {"in", "out", "inout"}, type : Types]

SignatureDisks ==
  {Disk(File("A", <<To("c")>>,
             <<[name |-> "x", base |-> "i_c", methods |-> <<[ret |-> r, params |-> ps]>>]>>,
             <<>>),
        File("B", <<>>, <<>>, <<>>),
        File("C", <<>>, <<NoMethods("i_c", NULL)>>, <<"s">>)) :
     r \in {"void", "status_t", "ncom_status_t", "s"},
     ps \in {<<>>} \union (Parameters \X {p \in Parameters : p.type \in {"octet", "i_c"}})}

MCDisks == ImportDisks \union ElsewhereDisks \union BaseDisks \union SignatureDisks

MCDirChoices ==
  {[env |-> <<>>, cli |-> <<[dir |-> "inc", text |-> "inc"]>>],
   [env |-> <<[dir |-> "inc", text |-> "inc"]>>, cli |-> <<[dir |-> "here", text |-> "./here"]>>],
   [env |-> <<[dir |-> "inc", text |-> "inc"], [dir |-> "inc", text |-> "inc"]>>,
    cli |-> <<[dir |-> "here", text |-> "./here"]>>]}

=============================================================================
