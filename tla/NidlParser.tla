----------------------------- MODULE NidlParser -----------------------------
(***************************************************************************)
(* The hand-written parser of tools/nidl/nidl_parse.c on any sequence of   *)
(* tokens, beside the grammar of tools/nidl/nidl_parser.y, which describes *)
(* the same language for a parser generator.  Both read the tokens as they *)
(* come: the parser's control state and the positions the grammar can be   *)
(* at advance together, so the input needs no bound.  What is parsed is    *)
(* left out: trees, memory and imported files are the subject of           *)
(* NidlImport.                                                             *)
(***************************************************************************)
EXTENDS Naturals, Sequences

VARIABLES
  pc,       \* the function and the place in it
  typeOf,   \* who has called parse_type_spec
  tok,      \* p->t.kind; an identifier that matters is a kind of its own
  hadError, \* p->had_error
  strict,   \* positions of the grammar after the tokens up to tok
  loose     \* the same for what the parser adds to the grammar

vars == <<pc, typeOf, tok, hadError, strict, loose>>

Idents == {"uuid", "optional", "ident"}

(* in, out and inout, unsigned and signed, and the one-word base types are *)
(* one kind each.                                                          *)
Tokens == Idents \union
  {"EOF", "module", "{", "}", ";", "typedef", "struct", "[", "(", "string", ")",
   "]", "interface", "coclass", ":", ",", "direction", "const", "sign", "long",
   "base", "*", "doc", "import"}

-----------------------------------------------------------------------------
(* The grammar of nidl_parser.y.  It has no recursion but in lists, so a   *)
(* position in it is where a reader of the rules stands; each is a tuple   *)
(* of names, the innermost rule last.                                      *)

(* The tokens that may come at g, each with the position behind it.        *)
Go(ts, g) == {[reads |-> t, to |-> g] : t \in ts}

(* type_spec, read for the rule r.                                         *)
AtStars(r) == Go({"*"}, <<r, "stars">>) \union Go(Idents, <<r, "named">>)
AtBase(r) == Go({"base"} \union Idents, <<r, "stars">>) \union Go({"long"}, <<r, "long">>)
AtSign(r) == Go({"sign"}, <<r, "base">>) \union AtBase(r)
AtType(r) == Go({"const"}, <<r, "sign">>) \union AtSign(r)

TypeSpec(g) ==
  CASE Len(g) # 2 -> {}
    [] g[2] = "type" -> AtType(g[1])
    [] g[2] = "sign" -> AtSign(g[1])
    [] g[2] = "base" -> AtBase(g[1])
    [] g[2] = "long" -> Go({"long"}, <<g[1], "stars">>) \union AtStars(g[1])
    [] g[2] = "stars" -> AtStars(g[1])
    [] OTHER -> {}

(* decl without doc_opt, and without doc_opt and uuid_opt.                 *)
AtClass == Go({"interface"}, <<"interface">>) \union Go({"coclass"}, <<"coclass">>)
AtDecl == Go({"typedef"}, <<"typedef", "type">>) \union Go({"struct"}, <<"struct">>)
          \union Go({"["}, <<"[">>) \union AtClass
AtDecls == Go({"doc"}, <<"decl">>) \union AtDecl \union Go({"}"}, <<"module", "}">>)

(* param_decl without doc_opt and opt_optional, and without doc_opt.       *)
AtDirection == Go({"direction"}, <<"param", "type">>)
AtParam == Go({"["}, <<"param", "[">>) \union AtDirection
AtParams == Go({"doc"}, <<"param", "doc">>) \union AtParam

Rules(g) ==
  CASE g = <<"start">> -> Go({"module"}, <<"module">>)
    [] g = <<"module">> -> Go(Idents, <<"module", "name">>)
    [] g = <<"module", "name">> -> Go({"{"}, <<"decls">>)
    [] g = <<"decls">> -> AtDecls
    [] g = <<"module", "}">> -> Go({";"}, <<"end">>)
    [] g = <<"end">> -> Go({"EOF"}, <<"accept">>)
    [] g = <<"accept">> -> Go({"EOF"}, <<"accept">>)
    [] g = <<"decl">> -> AtDecl
    [] g = <<"[">> -> Go(Idents, <<"[", "name">>)
    [] g = <<"[", "name">> -> Go({"("}, <<"[", "(">>)
    [] g = <<"[", "(">> -> Go({"string"}, <<"[", "string">>)
    [] g = <<"[", "string">> -> Go({")"}, <<"[", ")">>)
    [] g = <<"[", ")">> -> Go({"]"}, <<"class">>)
    [] g = <<"class">> -> AtClass
    [] g = <<"typedef", "named">> -> Go({";"}, <<"decls">>)
    [] g = <<"struct">> -> Go(Idents, <<"struct", "name">>)
    [] g = <<"struct", "name">> -> Go({"{"}, <<"fields">>)
    [] g = <<"fields">> -> Go({"doc"}, <<"field", "type">>) \union AtType("field")
                           \union Go({"}"}, <<"decl", "}">>)
    [] g = <<"field", "named">> -> Go({";"}, <<"fields">>)
    [] g = <<"decl", "}">> -> Go({";"}, <<"decls">>)
    [] g = <<"interface">> -> Go(Idents, <<"interface", "name">>)
    [] g = <<"interface", "name">> -> Go({":"}, <<"interface", ":">>)
                                      \union Go({"{"}, <<"methods">>)
    [] g = <<"interface", ":">> -> Go(Idents, <<"interface", "base">>)
    [] g = <<"interface", "base">> -> Go({"{"}, <<"methods">>)
    [] g = <<"methods">> -> Go({"doc"}, <<"return", "type">>) \union AtType("return")
                            \union Go({"}"}, <<"decl", "}">>)
    [] g = <<"return", "named">> -> Go({"("}, <<"params">>)
    [] g = <<"params">> -> AtParams \union Go({")"}, <<"method", ")">>)
    [] g = <<"param", "next">> -> AtParams
    [] g = <<"param", "doc">> -> AtParam
    [] g = <<"param", "[">> -> Go(Idents, <<"param", "attr">>)
    [] g = <<"param", "attr">> -> Go({"]"}, <<"param", "]">>)
    [] g = <<"param", "]">> -> AtDirection
    [] g = <<"param", "named">> -> Go({","}, <<"param", "next">>)
                                   \union Go({")"}, <<"method", ")">>)
    [] g = <<"method", ")">> -> Go({";"}, <<"methods">>)
    [] g = <<"coclass">> -> Go(Idents, <<"coclass", "name">>)
    [] g = <<"coclass", "name">> -> Go({"{"}, <<"coclass", "{">>)
    [] g = <<"coclass", "{">> -> Go({"}"}, <<"decl", "}">>)
    [] OTHER -> TypeSpec(g)

(* What nidl_parse.c takes beyond that: imports before the module, any     *)
(* attributes in brackets that do not start with "uuid" and "optional",    *)
(* anything inside a coclass and anything after the module.                *)
Extensions(g) ==
  CASE g = <<"start">> -> Go({"import"}, <<"import">>)
    [] g = <<"import">> -> Go({"string"}, <<"import", "path">>)
    [] g = <<"import", "path">> -> Go({";"}, <<"start">>)
    [] g \in {<<"end">>, <<"accept">>} -> Go(Tokens, <<"accept">>)
    [] g = <<"[">> -> Go({"]"}, <<"class">>) \union Go(Tokens \ {"]", "EOF", "uuid"}, <<"[", "any">>)
    [] g = <<"[", "any">> -> Go({"]"}, <<"class">>) \union Go(Tokens \ {"]", "EOF"}, <<"[", "any">>)
    [] g = <<"param", "[">> -> Go({"]"}, <<"param", "]">>)
                               \union Go(Tokens \ {"]", "EOF", "optional"}, <<"param", "any">>)
    [] g = <<"param", "any">> -> Go({"]"}, <<"param", "]">>)
                                 \union Go(Tokens \ {"]", "EOF"}, <<"param", "any">>)
    [] g = <<"coclass", "{">> -> Go(Tokens \ {"}", "EOF"}, <<"coclass", "{">>)
    [] OTHER -> {}

Reading(gs, t, next(_)) == {r.to : r \in {s \in UNION {next(g) : g \in gs} : s.reads = t}}

ReadStrict(gs, t) == Reading(gs, t, Rules)

ReadLoose(gs, t) == Reading(gs, t, LAMBDA g : Rules(g) \union Extensions(g))

-----------------------------------------------------------------------------
(* Steps.  here and then are places in the code.                           *)

(* next: the lexer goes on returning EOF at the end of the text.           *)
Take ==
  \E t \in IF tok = "EOF" THEN {"EOF"} ELSE Tokens :
    /\ tok' = t
    /\ strict' = ReadStrict(strict, t)
    /\ loose' = ReadLoose(loose, t)

Look == UNCHANGED <<tok, strict, loose>>

(* err, and then on to another place.                                      *)
Error(then) == hadError' = TRUE /\ pc' = then /\ Look

(* expect, with the places to go on at, with the token there and without.  *)
Expecting(here, kinds, then, otherwise) ==
  /\ pc = here
  /\ IF tok \in kinds THEN Take /\ pc' = then /\ UNCHANGED hadError ELSE Error(otherwise)
  /\ UNCHANGED typeOf

(* if (is(p, ...)) next(p);                                                *)
Maybe(here, kinds, then, otherwise) ==
  /\ pc = here
  /\ IF tok \in kinds THEN Take /\ pc' = then ELSE Look /\ pc' = otherwise
  /\ UNCHANGED <<typeOf, hadError>>

(* Fault: a token that is not there is not an error.                       *)
WantingQuietly(here, kind, then) == Maybe(here, {kind}, then, then)

(* (void)expect.                                                           *)
Wanting(here, kind, then) == Expecting(here, {kind}, then, then)

(* Fault: the end of the text is not looked for.                           *)
SkippingOn(here, kind, then) ==
  \/ pc = here /\ tok # kind /\ Take /\ UNCHANGED <<pc, typeOf, hadError>>
  \/ tok = kind /\ Wanting(here, kind, then)

(* Fault: nothing is skipped.                                              *)
SkippingNothing(here, kind, then) == Wanting(here, kind, then)

(* Skip to a token of that kind, and expect it.                            *)
Skipping(here, kind, then) ==
  \/ pc = here /\ tok \notin {kind, "EOF"} /\ Take /\ UNCHANGED <<pc, typeOf, hadError>>
  \/ tok \in {kind, "EOF"} /\ Wanting(here, kind, then)

(* A loop up to "}" or the end of the text, and the "}" and what follows.  *)
Leaving(here, then) == tok \in {"}", "EOF"} /\ Wanting(here, "}", then)

(* Call parse_type_spec for a rule.                                        *)
Typing(rule) == pc' = "type" /\ typeOf' = rule /\ UNCHANGED hadError

-----------------------------------------------------------------------------
(* The functions of the parser.  One that returns after an error goes to   *)
(* the loop over declarations, which hadError ends.                        *)

ParseImports ==
  \/ ~hadError /\ tok = "import" /\ Maybe("imports", {"import"}, "import path", "imports")
  \/ ~hadError /\ tok # "import" /\ Expecting("imports", {"module"}, "module name", "failed")
  \/ hadError /\ pc = "imports" /\ pc' = "failed" /\ UNCHANGED <<typeOf, hadError>> /\ Look

ParseImport ==
  \/ Expecting("import path", {"string"}, "import semi", "imports")
  \/ Wanting("import semi", ";", "import file")
  \/ /\ pc = "import file" /\ pc' = "imports"
     /\ hadError' \in {hadError, TRUE}      \* the file is found, read and parsed, or not
     /\ Look /\ UNCHANGED typeOf

ParseModule ==
  \/ Expecting("module name", Idents, "module {", "failed")
  \/ Expecting("module {", {"{"}, "decls", "failed")

(* One declaration; its documentation and its uuid come before it.         *)
ParseDecl ==
  \/ /\ tok \notin {"}", "EOF"} /\ ~hadError
     /\ Maybe("decls", {"doc"}, "decl", "decl")
  \/ pc = "decl" /\ tok = "typedef" /\ Take /\ Typing("typedef")
  \/ tok = "struct" /\ Maybe("decl", {"struct"}, "struct name", "decl")
  \/ tok \notin {"typedef", "struct"} /\ Maybe("decl", {"["}, "uuid", "class")
  \/ hadError /\ pc = "class" /\ Error("decls") /\ UNCHANGED typeOf
  \/ ~hadError /\ tok = "interface" /\ Maybe("class", {"interface"}, "interface name", "decls")
  \/ ~hadError /\ tok # "interface" /\ Expecting("class", {"coclass"}, "coclass name", "decls")

(* The end of the declarations and of the file.                            *)
ParseModuleEnd ==
  \/ ~hadError /\ Leaving("decls", "module ;")
  \/ Wanting("module ;", ";", "return")
  \/ /\ pc = "return" \/ (pc = "decls" /\ hadError)
     /\ pc' = IF hadError THEN "failed" ELSE "file"
     /\ Look /\ UNCHANGED <<typeOf, hadError>>

ParseUuidAttr ==
  \/ Maybe("uuid", {"uuid"}, "uuid (", "uuid skip")
  \/ Skipping("uuid skip", "]", "class")
  \/ Expecting("uuid (", {"("}, "uuid string", "class")
  \/ Expecting("uuid string", {"string"}, "uuid )", "class")
  \/ Wanting("uuid )", ")", "uuid ]")
  \/ Wanting("uuid ]", "]", "class")

ParseCoclass ==
  \/ Expecting("coclass name", Idents, "coclass {", "decls")
  \/ Wanting("coclass {", "{", "coclass body")
  \/ Skipping("coclass body", "}", "decl ;")
  \/ Wanting("decl ;", ";", "decls")        \* of structs and interfaces, too

NameOf == [typedef |-> "typedef name", field |-> "field name",
           return |-> "method name", param |-> "param name"]

ParseTypeSpec ==
  \/ Maybe("type", {"const"}, "type sign", "type sign")
  \/ Maybe("type sign", {"sign"}, "type base", "type base")
  \/ tok = "long" /\ Maybe("type base", {"long"}, "type long", "type base")
  \/ tok # "long" /\ Expecting("type base", Idents \union {"base"}, "type stars", "decls")
  \/ Maybe("type long", {"long"}, "type stars", "type stars")
  \/ Maybe("type stars", {"*"}, "type stars", NameOf[typeOf])

ParseTypedef ==
  \/ Expecting("typedef name", Idents, "typedef ;", "decls")
  \/ Wanting("typedef ;", ";", "decls")

ParseStruct ==
  \/ Expecting("struct name", Idents, "struct {", "decls")
  \/ Wanting("struct {", "{", "fields")
  \/ /\ pc = "fields" /\ tok \notin {"}", "EOF"}
     /\ IF tok = "doc" THEN Take ELSE Look
     /\ Typing("field")
  \/ Leaving("fields", "decl ;")
  \/ Expecting("field name", Idents, "field ;", "decls")
  \/ Wanting("field ;", ";", "fields")

ParseInterface ==
  \/ Expecting("interface name", Idents, "interface base", "decls")
  \/ Maybe("interface base", {":"}, "base name", "interface {")
  \/ Expecting("base name", Idents, "interface {", "decls")
  \/ Wanting("interface {", "{", "methods")
  \/ tok \notin {"}", "EOF"} /\ Maybe("methods", {"doc"}, "method", "method")
  \/ Leaving("methods", "decl ;")
  \/ /\ pc = "method end" /\ pc' = IF hadError THEN "decls" ELSE "methods"
     /\ Look /\ UNCHANGED <<typeOf, hadError>>

(* A method's return type must start with an identifier here.              *)
ParseMethod ==
  \/ /\ pc = "method"
     /\ IF tok \in Idents \union {"typedef"}
        THEN Look /\ Typing("return") ELSE Error("method end") /\ UNCHANGED typeOf
  \/ Expecting("method name", Idents, "method (", "method end")
  \/ Wanting("method (", "(", "params")
  \/ Maybe("params", {")"}, "method ;", "param")
  \/ Wanting("params )", ")", "method ;")
  \/ Wanting("method ;", ";", "method end")

ParseParam ==
  \/ Maybe("param", {"doc"}, "param attr", "param attr")
  \/ Maybe("param attr", {"["}, "optional", "direction")
  \/ Maybe("optional", {"optional"}, "optional ]", "optional skip")
  \/ Skipping("optional skip", "]", "direction")
  \/ Wanting("optional ]", "]", "direction")
  \/ pc = "direction" /\ tok = "direction" /\ Take /\ Typing("param")
  \/ tok # "direction" /\ Expecting("direction", {"direction"}, "direction", "method end")
  \/ Expecting("param name", Idents, "param end", "method end")
  \/ Maybe("param end", {","}, "param", "params )")

Ended == pc \in {"file", "failed"} /\ UNCHANGED vars

-----------------------------------------------------------------------------

(* nidl_parse_internal up to its loop: the first token is read.            *)
Init ==
  /\ pc = "imports"
  /\ typeOf = "typedef"
  /\ tok \in Tokens
  /\ hadError = FALSE
  /\ strict = ReadStrict({<<"start">>}, tok)
  /\ loose = ReadLoose({<<"start">>}, tok)

Next ==
  \/ ParseImports \/ ParseImport \/ ParseModule \/ ParseDecl \/ ParseModuleEnd
  \/ ParseUuidAttr \/ ParseCoclass \/ ParseTypeSpec \/ ParseTypedef \/ ParseStruct
  \/ ParseInterface \/ ParseMethod \/ ParseParam
  \/ Ended

Spec == Init /\ [][Next]_vars

(* The parser runs on, and the text, which ends with a NUL, comes to an    *)
(* end: the lexer does not find another token time after time forever.     *)
FairSpec == Spec /\ WF_vars(Next) /\ SF_vars(Next /\ tok' = "EOF")

-----------------------------------------------------------------------------

(* What the parser accepts, though it goes on after most errors, is a      *)
(* sentence of the grammar with the parser's extensions.                   *)
AcceptedIsGrammatical == pc = "file" => <<"accept">> \in loose

(* An error is found only in a text that no sentence of the grammar starts *)
(* with, unless it is a method's return type that does not start with an   *)
(* identifier.                                                             *)
RejectedIsUngrammatical ==
  hadError => strict = {} \/ \E at \in {"sign", "base", "long", "stars"} :
                /\ <<"return", at>> \in strict
                /\ tok \in {"const", "sign", "long", "base"}

(* Parsing ends, whatever the text and wherever it stops: the loops that   *)
(* skip to a "]" or a "}" that is not there, and the loops that go on      *)
(* after an error, too.                                                    *)
ParsingEnds == <>(pc \in {"file", "failed"})

=============================================================================
