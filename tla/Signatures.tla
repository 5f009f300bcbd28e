----------------------------- MODULE Signatures -----------------------------
(***************************************************************************)
(* models/extract.py: what of a C declaration in the header reaches the    *)
(* specification.  A parameter is a record of                              *)
(*   form    "value", "pointer", "double" (a pointer to pointers), "array" *)
(*           (with its size), "unsized" (an array without)                 *)
(*   of      "integer", "real", "char", "enum", "struct", "void" or        *)
(*           "function": what it is, points to or has as elements, with    *)
(*           typedefs resolved                                             *)
(*   const   is what it points to, or has as elements, const               *)
(*   named   what its name is known for: "count" when it says that it      *)
(*           counts, "manual" when the overrides call it an output         *)
(***************************************************************************)

\* Mutant: const is not looked at.
MapTypeWithoutConst(t) ==
    CASE t.form = "value" /\ t.of \in {"integer", "real", "char"} -> t.of
      [] t.form = "value" /\ t.of = "enum" -> "integer"
      [] t.form \in {"pointer", "array"} /\ t.of = "char" -> "text"
      [] t.form \in {"pointer", "array"} /\ t.of \in {"integer", "real"} -> "cell"
      [] \/ t.form \in {"pointer", "array"} /\ t.of \in {"enum", "struct", "void", "function"}
         \/ t.form = "double" -> "address"
      [] OTHER -> "unmappable"

\* _map_type of a parameter: the ctypes class, or "unmappable", which costs the
\* library the whole function.  Text that C may write to is only an address; an
\* array of characters is text whatever its const.
MapType(t) ==
    CASE t.form = "value" /\ t.of \in {"integer", "real", "char"} -> t.of
      [] t.form = "value" /\ t.of = "enum" -> "integer"
      [] t.form = "pointer" /\ t.of = "char" -> IF t.const THEN "text" ELSE "address"
      [] t.form = "array" /\ t.of = "char" -> "text"
      [] t.form \in {"pointer", "array"} /\ t.of \in {"integer", "real"} -> "cell"
      [] \/ t.form \in {"pointer", "array"} /\ t.of \in {"enum", "struct", "void", "function"}
         \/ t.form = "double" -> "address"
      [] OTHER -> "unmappable"

PointerIsOut(t) == t.form = "pointer" /\ t.of \in {"integer", "real", "enum"} /\ ~t.const
OutHandleCandidate(t) == t.form = "double" /\ t.of = "struct"
StructPtrParam(t) == t.form = "pointer" /\ t.of = "struct"

\* extract_signatures leaves out a function with parameters the types do not
\* show, or of a type that cannot be bound.
Bindable(types, variadic) == ~variadic /\ \A p \in DOMAIN types : MapType(types[p]) # "unmappable"

\* What the first layer can tell of a parameter: "scalar" is an integer, "real"
\* any other number, "string" text, "struct" T*, "double" T**, "out" a pointer to
\* a scalar that is not const, "buffer" one that is, "manual" a pointer to a
\* scalar that the overrides call an output, and "opaque" everything else.
ShapeOf(t) ==
    CASE MapType(t) = "integer" -> "scalar"
      [] MapType(t) \in {"real", "char"} -> "real"
      [] MapType(t) = "text" -> "string"
      [] MapType(t) = "cell" ->
            IF "manual" \in t.named THEN "manual"
            ELSE IF PointerIsOut(t) THEN "out"
            ELSE IF t.form = "pointer" THEN "buffer" ELSE "opaque"
      [] OTHER -> IF StructPtrParam(t) THEN "struct"
                  ELSE IF OutHandleCandidate(t) THEN "double" ELSE "opaque"

\* A declaration is the library's when it is in the header, in the folder named
\* after it or beside it, but for what lies beside a header installed directly
\* in a system directory.
InLibrary(place, installed) ==
    place \in {"header", "folder"} \/ (place = "beside" /\ ~installed)

\* _struct_dims: clang can lay the struct out; local tells whether the library
\* declares it.
StructDims(struct) ==
    IF struct.sized THEN {[local |-> InLibrary(struct.place, struct.installed)]} ELSE {}
==============================================================================
